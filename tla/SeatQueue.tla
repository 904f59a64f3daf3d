------------------------------ MODULE SeatQueue -----------------------------
(***************************************************************************)
(* What a cohort promises its learners: a fixed number of seats and one    *)
(* queue.  Whoever joins takes a free seat or the end of the queue, and a  *)
(* seat that is given up goes to the head of the queue at once.            *)
(***************************************************************************)
EXTENDS Naturals, FiniteSets, SequencesExt

CONSTANTS Users, Capacities

VARIABLES seated, queue, capacity

svars == <<seated, queue, capacity>>

Init ==
  /\ seated = {}
  /\ queue = <<>>
  /\ capacity \in Capacities

Outside(u) == u \notin seated /\ ~Contains(queue, u)

TakeSeat(u) ==
  /\ Outside(u)
  /\ Cardinality(seated) < capacity
  /\ seated' = seated \union {u}
  /\ UNCHANGED <<queue, capacity>>

JoinQueue(u) ==
  /\ Outside(u)
  /\ Cardinality(seated) = capacity
  /\ queue' = Append(queue, u)
  /\ UNCHANGED <<seated, capacity>>

GiveUpSeat(u) ==
  /\ u \in seated
  /\ \/ /\ queue = <<>>
        /\ seated' = seated \ {u}
        /\ UNCHANGED queue
     \/ /\ queue # <<>>
        /\ seated' = (seated \ {u}) \union {Head(queue)}
        /\ queue' = Tail(queue)
  /\ UNCHANGED capacity

LeaveQueue(u) ==
  /\ \E i \in DOMAIN queue : queue[i] = u /\ queue' = RemoveAt(queue, i)
  /\ UNCHANGED <<seated, capacity>>

(* Staff may not take seats away from those who have them.                 *)
ChangeCapacity ==
  /\ capacity' \in {c \in Capacities : c >= Cardinality(seated)}
  /\ UNCHANGED <<seated, queue>>

Next ==
  \/ \E u \in Users : TakeSeat(u) \/ JoinQueue(u) \/ GiveUpSeat(u) \/ LeaveQueue(u)
  \/ ChangeCapacity

Spec == Init /\ [][Next]_svars
=============================================================================
