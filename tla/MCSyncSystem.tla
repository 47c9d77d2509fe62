---------------------------- MODULE MCSyncSystem ----------------------------
(* Two devices. The first writes two memories, so that one outbox holds more *)
(* than a batch and the log more than a page; the second writes one.         *)
EXTENDS SyncSystem

CONSTANTS d1, d2, m1, m2, m3

MCAuthor == [m \in Memories |-> IF m = m3 THEN d2 ELSE d1]

\* Without is what SelectSeq makes of the same question.
ASSUME WithoutIsSelectSeq ==
  \A s \in UNION {[1..n -> Memories] : n \in 0..4}, S \in SUBSET Memories :
    Without(s, S) = SelectSeq(s, LAMBDA m : m \notin S)
=============================================================================
