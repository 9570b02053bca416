-------------------------- MODULE MCProviderRounds --------------------------
EXTENDS ProviderRounds

\* Delisted; failed altogether; failed, but not in its basic stage.
MCHallEntries ==
    {Healthy,
     [visible |-> FALSE, failed |-> FALSE, basic |-> TRUE],
     [visible |-> TRUE, failed |-> TRUE, basic |-> TRUE]}
=============================================================================
