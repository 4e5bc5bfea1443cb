-------------------------- MODULE MCPhoenixTransport --------------------------
(* Small instances of PhoenixTransport for TLC.                            *)
EXTENDS PhoenixGuarantees, TLC

\* Two named event types and one that no caller names.
MCEvents == {"sold", "listed", "other"}

\* Callers that want everything: the filter never has to be widened.
UnfilteredRequests == {MCEvents}

\* Callers whose requests overlap, differ or want everything.
FilteredRequests == {{"sold"}, {"listed"}, MCEvents}

CallerSymmetry == Permutations(Callers)
=============================================================================
