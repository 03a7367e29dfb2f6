---------------------------- MODULE MCRouterPoll ----------------------------
(* RouterPoll on small instances. *)
EXTENDS RouterPoll, TLC

CONSTANT MaxEvents  \* bound: changes, edits and troubles together

\* The device starts with sessions that are not in the state it may have words for.
PollsInit == Init /\ \A s \in Sessions : device[s] # Idle

PollsNext == Next /\ changes' + edits' + troubles' <= MaxEvents

PollsSpec == PollsInit /\ [][PollsNext]_vars /\ Fairness

RouterPollSymmetry == Permutations(Polls) \cup Permutations(Singles) \cup Permutations(Sessions)

=============================================================================
