------------------------------ MODULE Replacer ------------------------------
(***************************************************************************)
(* What the buffer pool needs of its replacer: the frames that may be      *)
(* evicted, least recently unpinned first.                                 *)
(***************************************************************************)
EXTENDS Naturals, SequencesExt

CONSTANTS Frames, NoFrame

VARIABLES
    queue,      \* evictable frames, the oldest first
    victim      \* what the last Victim returned

ReplacerInit == queue = << >> /\ victim = NoFrame

Unpin(f) ==
    /\ queue' = IF Contains(queue, f) THEN queue ELSE Append(queue, f)
    /\ UNCHANGED victim

Pin(f) == queue' = RemoveFirst(queue, f) /\ UNCHANGED victim

Victim ==
    IF queue = << >>
      THEN victim' = NoFrame /\ UNCHANGED queue
      ELSE victim' = Head(queue) /\ queue' = Tail(queue)

ReplacerNext == Victim \/ \E f \in Frames : Unpin(f) \/ Pin(f)

ReplacerSpec == ReplacerInit /\ [][ReplacerNext]_<<queue, victim>>
=============================================================================
