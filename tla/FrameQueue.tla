----------------------------- MODULE FrameQueue -----------------------------
(***************************************************************************)
(* What a link promises about the frames it accepts: one queue in the      *)
(* order of acceptance, from which a frame leaves only at the front, for   *)
(* the bus or with one other answer, and never comes back.                 *)
(***************************************************************************)
EXTENDS Naturals, Sequences

CONSTANT MaxFrames

VARIABLES
  queue,      \* accepted and not answered
  delivered,  \* taken by a transport
  answer      \* of each frame

frameVars == <<queue, delivered, answer>>

FrameNumbers == 1..MaxFrames
Losses == {"expired", "failed", "dropped", "closed"}

FrameInit ==
  /\ queue = <<>> /\ delivered = <<>>
  /\ answer = [i \in FrameNumbers |-> "none"]

Accept(i) ==
  /\ answer[i] = "none"
  /\ \A j \in 1..(i - 1) : answer[j] # "none"
  /\ queue' = Append(queue, i)
  /\ answer' = [answer EXCEPT ![i] = "queued"]
  /\ UNCHANGED delivered

Deliver ==
  /\ queue # <<>>
  /\ delivered' = Append(delivered, Head(queue))
  /\ answer' = [answer EXCEPT ![Head(queue)] = "sent"]
  /\ queue' = Tail(queue)

\* The first n frames are answered with the same loss.
Lose(n, loss) ==
  /\ answer' = [i \in FrameNumbers |->
                  IF \E k \in 1..n : queue[k] = i THEN loss ELSE answer[i]]
  /\ queue' = SubSeq(queue, n + 1, Len(queue))
  /\ UNCHANGED delivered

FrameNext ==
  \/ \E i \in FrameNumbers : Accept(i)
  \/ Deliver
  \/ \E n \in 1..Len(queue), loss \in Losses : Lose(n, loss)

FrameSpec == FrameInit /\ [][FrameNext]_frameVars
=============================================================================
