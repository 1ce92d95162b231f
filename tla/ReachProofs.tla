---------------------------- MODULE ReachProofs -----------------------------
(***************************************************************************)
(* Proofs about how peers meet, for any peers, connections, routes and     *)
(* durations: RendezvousLease and ConstellationReach.                      *)
(***************************************************************************)
EXTENDS RendezvousLease, ConstellationReach, SequenceTheorems, FiniteSetTheorems,
        FunctionTheorems, TLAPS

-----------------------------------------------------------------------------
(* The leases, RendezvousLease.                                            *)

\* A serving peer that is not closed: its lease runs out later than its next
\* heartbeat is due, by what the lease was longer when it was last refreshed; and
\* a heartbeat is overdue only by as long as the network has been away.
LeaseInv ==
    \A p \in Serving :
        /\ link[p] = "up" => beatIn[p] > -IdleTimeout /\ cutFor[p] = 0
        /\ link[p] = "cut" => beatIn[p] + cutFor[p] > 0
        /\ link[p] \in {"up", "cut"} =>
              lease[p] \in 1 .. Lease /\ lease[p] - beatIn[p] >= Lease - Heartbeat
        /\ link[p] \in {"off", "closed"} => beatIn[p] = Heartbeat /\ cutFor[p] = 0

\* A step of one peer, which keeps the others' entries or prunes expired ones.
LEMMA LeasePeerStep ==
    ASSUME LeaseTypeOK, LeaseInv, NEW p \in Serving,
           StartServing(p) \/ Beat(p) \/ StopServing(p) \/ Unregister(p)
             \/ Cut(p) \/ Heal(p) \/ TimeOut(p)
    PROVE  LeaseTypeOK' /\ LeaseInv'
<1> USE LeaseAssumption DEF LeaseTypeOK, LeaseInv, LinkState
<1>1. CASE StartServing(p)
  BY <1>1 DEF StartServing, Register, Pruned
<1>2. CASE Beat(p)
  BY <1>2 DEF Beat, Register, Pruned
<1>3. CASE StopServing(p)
  BY <1>3 DEF StopServing
<1>4. CASE Unregister(p)
  BY <1>4 DEF Unregister
<1>5. CASE Cut(p)
  BY <1>5 DEF Cut, Overdue
<1>6. CASE Heal(p)
  BY <1>6 DEF Heal
<1>7. CASE TimeOut(p)
  BY <1>7 DEF TimeOut
<1>8. QED
  BY <1>1, <1>2, <1>3, <1>4, <1>5, <1>6, <1>7

\* A step of the registry, of its process or of time.
LEMMA LeaseOtherStep ==
    ASSUME LeaseTypeOK, LeaseInv, Lookup \/ Restart \/ Pass
    PROVE  LeaseTypeOK' /\ LeaseInv'
<1> USE LeaseAssumption DEF LeaseTypeOK, LeaseInv, LinkState
<1>1. CASE Lookup
  BY <1>1 DEF Lookup, Pruned
<1>2. CASE Restart
  BY <1>2 DEF Restart
<1>3. CASE Pass
  BY <1>3 DEF Pass, Overdue, Leased
<1>4. QED
  BY <1>1, <1>2, <1>3

\* What the leases are worth holds throughout.
THEOREM LeaseInvCorrect == LeaseSpec => [](LeaseTypeOK /\ LeaseInv)
<1>1. LeaseInit => LeaseTypeOK /\ LeaseInv
  BY LeaseAssumption DEF LeaseInit, LeaseTypeOK, LeaseInv, LinkState
<1>2. LeaseTypeOK /\ LeaseInv /\ [LeaseNext]_leaseVars => LeaseTypeOK' /\ LeaseInv'
  <2>1. CASE UNCHANGED leaseVars
    BY <2>1 DEF leaseVars, LeaseTypeOK, LeaseInv
  <2>2. QED
    BY <2>1, LeasePeerStep, LeaseOtherStep DEF LeaseNext
<1>3. QED
  BY <1>1, <1>2, PTL DEF LeaseSpec

\* The registry, the connections and their timers are of their types throughout.
THEOREM LeaseTypeCorrect == LeaseSpec => []LeaseTypeOK
BY LeaseInvCorrect, PTL

\* Whatever the lease, the heartbeat and the idle timeout are, a lease longer than
\* the other two together keeps a connected peer on the map.
THEOREM ConnectedIsListed == LeaseSpec => []ListedWhileConnected
<1>1. LeaseInv => ListedWhileConnected
  BY LeaseAssumption DEF LeaseInv, ListedWhileConnected, Leased
<1>2. QED
  BY <1>1, LeaseInvCorrect, PTL
-----------------------------------------------------------------------------
(* The meeting points, ConstellationReach.                                 *)

\* Retaining all but one element: a list of the same type, without just that one.
LEMMA WithoutProperties ==
    ASSUME NEW S, NEW list \in Seq(S), NEW c
    PROVE  /\ Without(list, c) \in Seq(S)
           /\ Range(Without(list, c)) = Range(list) \ {c}
<1> DEFINE kept == {i \in DOMAIN list : list[i] # c}
           upto(i) == {j \in kept : j <= i}
           place == [i \in kept |-> Cardinality(upto(i))]
           at(n) == CHOOSE i \in kept : Cardinality(upto(i)) = n
           size == Cardinality(kept)
<1>1. DOMAIN list = 1 .. Len(list) /\ Len(list) \in Nat
  OBVIOUS
<1>2. IsFiniteSet(kept) /\ kept \subseteq Nat
  <2>1. IsFiniteSet(1 .. Len(list))
    BY <1>1, FS_Interval
  <2>2. QED
    BY <1>1, <2>1, FS_Subset
<1>3. size \in Nat
  BY <1>2, FS_CardinalityType
<1> HIDE DEF kept
<1>4. \A i \in kept : IsFiniteSet(upto(i)) /\ Cardinality(upto(i)) \in 1 .. size
  <2> TAKE i \in kept
  <2>1. upto(i) \subseteq kept
    OBVIOUS
  <2>2. IsFiniteSet(upto(i)) /\ Cardinality(upto(i)) <= size /\ Cardinality(upto(i)) \in Nat
    BY <1>2, <2>1, FS_Subset, FS_CardinalityType
  <2>3. i \in upto(i)
    BY <1>2
  <2>4. Cardinality(upto(i)) # 0
    BY <2>2, <2>3, FS_EmptySet
  <2>5. QED
    BY <1>3, <2>2, <2>4
<1>5. \A i, j \in kept : i < j => place[i] < place[j]
  <2> TAKE i, j \in kept
  <2> HAVE i < j
  <2>1. \A k \in kept : k \in Nat
    BY <1>2
  <2>2. upto(i) \subseteq upto(j)
    BY <2>1
  <2>3. j \in upto(j) /\ j \notin upto(i)
    BY <2>1
  <2>4. IsFiniteSet(upto(j)) /\ Cardinality(upto(i)) \in Nat /\ Cardinality(upto(j)) \in Nat
    <3> HIDE DEF upto, size
    <3>1. QED
      BY <1>3, <1>4
  <2> HIDE DEF upto
  <2>5. Cardinality(upto(i)) <= Cardinality(upto(j))
        /\ Cardinality(upto(i)) # Cardinality(upto(j))
    BY <2>2, <2>3, <2>4, FS_Subset
  <2>6. QED
    BY <2>4, <2>5
<1>6. place \in Injection(kept, 1 .. size)
  <2>1. place \in [kept -> 1 .. size]
    BY <1>4
  <2> HIDE DEF place, size
  <2>2. \A i, j \in kept : place[i] = place[j] => i = j
    <3> SUFFICES ASSUME NEW i \in kept, NEW j \in kept, place[i] = place[j]
                 PROVE  i = j
      OBVIOUS
    <3>1. place[i] \in Nat /\ i \in Nat /\ j \in Nat
      BY <1>2, <1>3, <2>1
    <3>2. ~ (i < j) /\ ~ (j < i)
      BY <1>5, <3>1
    <3>3. QED
      BY <3>1, <3>2
  <2>3. QED
    BY <2>1, <2>2, Fun_IsInj
<1>7. place \in Surjection(kept, 1 .. size)
  <2>1. IsFiniteSet(1 .. size) /\ Cardinality(1 .. size) = size
    BY <1>3, FS_Interval
  <2>2. QED
    BY <1>6, <2>1, FS_Injection
<1>8. \A n \in 1 .. size : at(n) \in kept /\ place[at(n)] = n
  <2> TAKE n \in 1 .. size
  <2>1. PICK i \in kept : place[i] = n
    BY <1>7 DEF Surjection
  <2>2. Cardinality(upto(i)) = n
    BY <2>1
  <2> HIDE DEF upto
  <2>3. QED
    BY <2>2
<1>9. \A i \in kept : at(place[i]) = i /\ place[i] \in 1 .. size
  <2> TAKE i \in kept
  <2>0. place \in [kept -> 1 .. size] /\ \A k, l \in kept : place[k] = place[l] => k = l
    BY <1>6, Fun_InjectionProperties
  <2> HIDE DEF place, size
  <2>1. place[i] \in 1 .. size
    BY <2>0
  <2>2. at(place[i]) \in kept /\ place[at(place[i])] = place[i]
    BY <1>8, <2>1
  <2> HIDE DEF at
  <2>3. QED
    BY <2>0, <2>1, <2>2
<1>10. Without(list, c) = [n \in 1 .. size |-> list[at(n)]]
  BY DEF Without, kept
<1> HIDE DEF at, place, size, upto
<1>11. Without(list, c) \in Seq(S)
  <2>1. \A n \in 1 .. size : list[at(n)] \in S
    BY <1>1, <1>8 DEF kept
  <2>2. QED
    BY <1>3, <1>10, <2>1
<1>12. Range(Without(list, c)) = {list[i] : i \in kept}
  <2>1. Range(Without(list, c)) = {list[at(n)] : n \in 1 .. size}
    BY <1>10 DEF Range
  <2>2. QED
    BY <1>8, <1>9, <2>1
<1>13. Range(list) \ {c} = {list[i] : i \in kept}
  BY DEF Range, kept
<1>14. QED
  BY <1>11, <1>12, <1>13

\* The head of a list is in it, and all else of it is in the tail.
LEMMA RangeHeadTail ==
    ASSUME NEW S, NEW list \in Seq(S), list # << >>
    PROVE  /\ Head(list) \in S /\ Tail(list) \in Seq(S)
           /\ Range(list) = {Head(list)} \cup Range(Tail(list))
<1>1. /\ DOMAIN list = 1 .. Len(list) /\ Len(list) \in Nat \ {0}
      /\ Head(list) = list[1]
      /\ Tail(list) \in Seq(S) /\ DOMAIN Tail(list) = 1 .. (Len(list) - 1)
      /\ \A i \in 1 .. (Len(list) - 1) : Tail(list)[i] = list[i + 1]
  BY HeadTailProperties
<1>2. Head(list) \in S
  BY <1>1, ElementOfSeq
<1>3. \A i \in DOMAIN list : i = 1 \/ (i - 1 \in 1 .. (Len(list) - 1) /\ list[i] = Tail(list)[i - 1])
  BY <1>1
<1>4. Range(list) \subseteq {Head(list)} \cup Range(Tail(list))
  BY <1>1, <1>3 DEF Range
<1>5. \A i \in DOMAIN Tail(list) : i + 1 \in DOMAIN list /\ Tail(list)[i] = list[i + 1]
  BY <1>1
<1>6. {Head(list)} \cup Range(Tail(list)) \subseteq Range(list)
  BY <1>1, <1>5 DEF Range
<1>7. QED
  BY <1>1, <1>2, <1>4, <1>6

\* An element put at the end of a list is in it, with the others.
LEMMA RangeAppend ==
    ASSUME NEW S, NEW list \in Seq(S), NEW c \in S
    PROVE  Append(list, c) \in Seq(S) /\ Range(Append(list, c)) = Range(list) \cup {c}
<1>1. /\ Append(list, c) \in Seq(S)
      /\ DOMAIN list = 1 .. Len(list) /\ Len(list) \in Nat
      /\ DOMAIN Append(list, c) = 1 .. (Len(list) + 1)
      /\ \A i \in 1 .. Len(list) : Append(list, c)[i] = list[i]
      /\ Append(list, c)[Len(list) + 1] = c
  BY AppendProperties
<1>2. 1 .. (Len(list) + 1) = 1 .. Len(list) \cup {Len(list) + 1}
  BY <1>1
<1>3. QED
  BY <1>1, <1>2 DEF Range

\* What a dial in progress knows: it is at a meeting point, and while it tries the
\* connections it was told of, those that were live all along are still to try.
AtMeeting(is) == is.stage \in {"ask", "try", "connect"} => is.at \in Meeting

SteadyToTry(is) ==
    is.stage = "try" =>
        \A c \in is.steady : c \in Range(is.todo) /\ conn[is.at][c] = "live"

ReachInv ==
    /\ ReachTypeOK
    /\ LiveStaysListed
    /\ \A d \in Dialer : AtMeeting(dial[d]) /\ SteadyToTry(dial[d])

\* A dial goes on: nothing else changes.
LEMMA DialGoesOn ==
    ASSUME ReachInv, NEW d \in Dialer, NEW is \in Dial, AtMeeting(is), SteadyToTry(is),
           dial' = [dial EXCEPT ![d] = is], UNCHANGED <<conn, waiting, holding, open>>
    PROVE  ReachInv'
<1>1. dial \in [Dialer -> Dial]
  BY DEF ReachInv, ReachTypeOK
<1>2. dial' \in [Dialer -> Dial]
  BY <1>1
<1>3. ReachTypeOK' /\ LiveStaysListed'
  BY <1>2 DEF ReachInv, ReachTypeOK, LiveStaysListed, Listed
<1>4. ASSUME NEW e \in Dialer
      PROVE  AtMeeting(dial[e])' /\ SteadyToTry(dial[e])'
  <2>1. AtMeeting(dial[e]) /\ SteadyToTry(dial[e])
    BY DEF ReachInv
  <2>2. dial'[e] = IF e = d THEN is ELSE dial[e]
    BY <1>1
  <2>3. QED
    BY <2>1, <2>2 DEF AtMeeting, SteadyToTry
<1>5. QED
  BY <1>3, <1>4 DEF ReachInv

\* It ends.
LEMMA DialEnds ==
    ASSUME ReachInv, NEW d \in Dialer, NEW stage \in Stage \ {"ask", "try", "connect"},
           EndDial(d, stage)
    PROVE  ReachInv'
<1>1. [NoDial EXCEPT !.stage = stage] \in Dial
  <2>1. << >> \in Seq(Conn)
    OBVIOUS
  <2>2. QED
    BY <2>1 DEF NoDial, Dial
<1>2. AtMeeting([NoDial EXCEPT !.stage = stage]) /\ SteadyToTry([NoDial EXCEPT !.stage = stage])
  BY DEF NoDial, AtMeeting, SteadyToTry
<1>3. QED
  BY <1>1, <1>2, DialGoesOn DEF EndDial

\* It goes on to a route where it has still to ask.
LEMMA DialEscalates ==
    ASSUME ReachInv, NEW d \in Dialer, Escalate(d)
    PROVE  ReachInv'
<1> DEFINE next == NextRoute(d)
           is == [dial[d] EXCEPT !.at = next, !.todo = << >>, !.steady = {},
                                 !.stage = "ask", !.tried = @ \cup {next}]
<1>1. CASE next = "none"
  BY <1>1, DialEnds DEF Escalate, Stage
<1>2. CASE next # "none"
  <2>1. next \in Meeting /\ next \in Route
    BY <1>2 DEF NextRoute, Meeting, Route
  <2>2. dial \in [Dialer -> Dial] /\ << >> \in Seq(Conn)
    BY DEF ReachInv, ReachTypeOK
  <2> HIDE DEF next
  <2>3. is \in Dial
    BY <2>1, <2>2 DEF Dial, Stage
  <2>4. is.stage = "ask" /\ is.at = next
    BY <2>2 DEF Dial
  <2>5. AtMeeting(is) /\ SteadyToTry(is)
    BY <2>1, <2>4 DEF AtMeeting, SteadyToTry
  <2>6. dial' = [dial EXCEPT ![d] = is] /\ UNCHANGED <<conn, waiting, holding, open>>
    BY <1>2, <2>2 DEF Escalate, next
  <2>7. QED
    BY <2>3, <2>5, <2>6, DialGoesOn
<1>3. QED
  BY <1>1, <1>2

\* The connections at one meeting point change, and its list with them.
ConnsBecome(m, states, list) ==
    /\ conn' = [conn EXCEPT ![m] = states] /\ waiting' = [waiting EXCEPT ![m] = list]
    /\ open' \in [Meeting -> BOOLEAN] /\ holding' \in [Meeting -> SUBSET Conn]
    /\ \A c \in Conn : states[c] = "live" => c \in Range(list)

\* Dials forget what is not live any more.
DialForgets(d, m, states) ==
    /\ dial'[d].stage = dial[d].stage /\ dial'[d].at = dial[d].at
    /\ dial[d].at # m => dial'[d] = dial[d]
    /\ dial[d].at = m => \A c \in dial'[d].steady :
          /\ c \in dial[d].steady /\ dial'[d].todo = dial[d].todo
          /\ conn[m][c] = "live" => states[c] = "live"

\* What the dials were told of live connections, and the listing of these, survive it.
LEMMA MeetingChanges ==
    ASSUME ReachInv, NEW m \in Meeting, NEW states \in [Conn -> ConnState],
           NEW list \in Seq(Conn), ConnsBecome(m, states, list),
           dial' \in [Dialer -> Dial], \A d \in Dialer : DialForgets(d, m, states)
    PROVE  ReachInv'
<1> USE DEF ConnsBecome
<1>1. /\ conn \in [Meeting -> [Conn -> ConnState]] /\ waiting \in [Meeting -> Seq(Conn)]
      /\ \A k \in Meeting : conn'[k] = IF k = m THEN states ELSE conn[k]
      /\ \A k \in Meeting : waiting'[k] = IF k = m THEN list ELSE waiting[k]
  BY DEF ReachInv, ReachTypeOK
<1>2. ReachTypeOK'
  BY <1>1 DEF ReachTypeOK
<1>3. LiveStaysListed'
  BY <1>1 DEF ReachInv, LiveStaysListed, Listed
<1>4. ASSUME NEW d \in Dialer
      PROVE  AtMeeting(dial[d])' /\ SteadyToTry(dial[d])'
  <2>1. AtMeeting(dial[d]) /\ SteadyToTry(dial[d])
    BY DEF ReachInv
  <2>0. DialForgets(d, m, states)
    OBVIOUS
  <2>2. AtMeeting(dial[d])'
    BY <2>0, <2>1 DEF AtMeeting, DialForgets
  <2>3. SteadyToTry(dial[d])'
    <3> SUFFICES ASSUME dial[d].stage = "try", NEW c \in dial'[d].steady
                 PROVE  c \in Range(dial'[d].todo) /\ conn'[dial[d].at][c] = "live"
      BY <2>0 DEF SteadyToTry, DialForgets
    <3>1. dial[d].at \in Meeting
      BY <2>1 DEF AtMeeting
    <3>2. CASE dial[d].at = m
      BY <1>1, <2>0, <2>1, <3>2 DEF SteadyToTry, DialForgets
    <3>3. CASE dial[d].at # m
      BY <1>1, <2>0, <2>1, <3>1, <3>3 DEF SteadyToTry, DialForgets
    <3>4. QED
      BY <3>2, <3>3
  <2>4. QED
    BY <2>2, <2>3
<1>5. QED
  BY <1>2, <1>3, <1>4 DEF ReachInv

\* One connection's state changes, and it is listed or not.
LEMMA ConnStep ==
    ASSUME ReachInv, NEW m \in Meeting, NEW c \in Conn,
           Announce(m, c) \/ Acknowledge(m, c) \/ AcknowledgeFails(m, c)
           \/ Leave(m, c) \/ Notice(m, c) \/ Withdraw(m, c) \/ Reuse(m, c)
    PROVE  ReachInv'
<1>1. /\ conn \in [Meeting -> [Conn -> ConnState]] /\ conn[m] \in [Conn -> ConnState]
      /\ waiting \in [Meeting -> Seq(Conn)] /\ waiting[m] \in Seq(Conn)
      /\ open \in [Meeting -> BOOLEAN] /\ dial \in [Dialer -> Dial]
      /\ holding \in [Meeting -> SUBSET Conn]
      /\ \A d \in Conn : conn[m][d] = "live" => d \in Range(waiting[m])
  BY DEF ReachInv, ReachTypeOK, LiveStaysListed, Listed
<1>2. Without(waiting[m], c) \in Seq(Conn)
      /\ Range(Without(waiting[m], c)) = Range(waiting[m]) \ {c}
  BY <1>1, WithoutProperties
<1>3. ASSUME NEW state \in ConnState, NEW list \in Seq(Conn),
             conn' = [conn EXCEPT ![m][c] = state], waiting' = [waiting EXCEPT ![m] = list],
             UNCHANGED <<open, dial>>, holding' \in [Meeting -> SUBSET Conn],
             Range(waiting[m]) \ {c} \subseteq Range(list),
             state = "live" => c \in Range(list), conn[m][c] # "live"
      PROVE  ReachInv'
  <2> DEFINE states == [conn[m] EXCEPT ![c] = state]
  <2>1. states \in [Conn -> ConnState] /\ conn' = [conn EXCEPT ![m] = states]
    BY <1>1, <1>3
  <2>2. \A d \in Conn : states[d] = "live" => d \in Range(list)
    BY <1>1, <1>3
  <2>3. \A d \in Conn : conn[m][d] = "live" => states[d] = "live"
    BY <1>1, <1>3
  <2>4. \A d \in Dialer : dial[d].steady \subseteq Conn
    BY <1>1 DEF Dial
  <2> HIDE DEF states
  <2>5. open' \in [Meeting -> BOOLEAN] /\ dial' \in [Dialer -> Dial]
    BY <1>1, <1>3
  <2>6. ASSUME NEW d \in Dialer
        PROVE  DialForgets(d, m, states)
    BY <1>3, <2>3, <2>4 DEF DialForgets
  <2>7. ConnsBecome(m, states, list)
    BY <1>3, <2>1, <2>2, <2>5 DEF ConnsBecome
  <2>8. QED
    BY <2>1, <2>5, <2>6, <2>7, MeetingChanges
<1>4. CASE Announce(m, c)
  <2>1. Append(Without(waiting[m], c), c) \in Seq(Conn)
        /\ Range(Append(Without(waiting[m], c), c)) = (Range(waiting[m]) \ {c}) \cup {c}
    BY <1>2, RangeAppend
  <2>2. waiting' = [waiting EXCEPT ![m] = Append(Without(waiting[m], c), c)]
        /\ conn' = [conn EXCEPT ![m][c] = "live"] /\ UNCHANGED <<holding, open, dial>>
        /\ conn[m][c] # "live"
    BY <1>1, <1>4 DEF Announce
  <2>3. QED
    BY <1>1, <1>3, <2>1, <2>2 DEF ConnState
<1>5. CASE Leave(m, c)
  <2>1. PICK end \in {"closed", "dead"} : conn' = [conn EXCEPT ![m][c] = end]
    BY <1>5 DEF Leave
  <2> DEFINE states == [conn[m] EXCEPT ![c] = end]
  <2>2. states \in [Conn -> ConnState] /\ conn' = [conn EXCEPT ![m] = states]
    BY <1>1, <2>1 DEF ConnState
  <2>3. states[c] # "live" /\ \A d \in Conn : d # c => states[d] = conn[m][d]
    BY <1>1, <2>1
  <2> HIDE DEF states
  <2>4. \A d \in Conn : states[d] = "live" => d \in Range(waiting[m])
    BY <1>1, <2>3
  <2>5. UNCHANGED <<waiting, holding, open>> /\ waiting' = [waiting EXCEPT ![m] = waiting[m]]
    BY <1>1, <1>5 DEF Leave
  <2>6. dial' = [d \in Dialer |-> IF dial[d].at = m
                                  THEN [dial[d] EXCEPT !.steady = @ \ {c}] ELSE dial[d]]
    BY <1>5 DEF Leave
  <2>7. dial' \in [Dialer -> Dial]
    <3>1. \A d \in Dialer : dial[d] \in Dial
                           /\ [dial[d] EXCEPT !.steady = @ \ {c}] \in Dial
      BY <1>1 DEF Dial
    <3>2. QED
      BY <2>6, <3>1
  <2>8. ASSUME NEW d \in Dialer
        PROVE  DialForgets(d, m, states)
    <3>1. dial[d] \in Dial /\ dial[d].steady \subseteq Conn
      BY <1>1 DEF Dial
    <3>2. QED
      BY <2>3, <2>6, <3>1 DEF Dial, DialForgets
  <2>9. ConnsBecome(m, states, waiting[m])
    BY <1>1, <2>2, <2>4, <2>5 DEF ConnsBecome
  <2>10. QED
    BY <1>1, <2>2, <2>7, <2>8, <2>9, MeetingChanges
<1>6. CASE Notice(m, c)
  <2>1. waiting' = [waiting EXCEPT ![m] = waiting[m]] /\ UNCHANGED <<holding, open, dial>>
        /\ conn' = [conn EXCEPT ![m][c] = "closed"] /\ conn[m][c] # "live"
    BY <1>1, <1>6 DEF Notice
  <2>2. QED
    BY <1>1, <1>3, <2>1 DEF ConnState
<1>7. CASE Withdraw(m, c)
  <2>1. waiting' = [waiting EXCEPT ![m] = Without(waiting[m], c)] /\ UNCHANGED <<open, dial>>
        /\ conn' = [conn EXCEPT ![m][c] = "gone"] /\ conn[m][c] # "live"
    BY <1>1, <1>7 DEF Withdraw, Unlist
  <2>2. holding' \in [Meeting -> SUBSET Conn]
    BY <1>1, <1>7 DEF Withdraw
  <2>3. QED
    BY <1>2, <1>3, <2>1, <2>2 DEF ConnState
<1>8. CASE Reuse(m, c)
  <2>1. waiting' = [waiting EXCEPT ![m] = waiting[m]] /\ UNCHANGED <<holding, open, dial>>
        /\ conn' = [conn EXCEPT ![m][c] = "free"] /\ conn[m][c] # "live"
    BY <1>1, <1>8 DEF Reuse
  <2>2. QED
    BY <1>1, <1>3, <2>1 DEF ConnState
<1>9. CASE Acknowledge(m, c)
  <2>1. UNCHANGED <<conn, waiting, open, dial>> /\ holding' \in [Meeting -> SUBSET Conn]
    BY <1>1, <1>9 DEF Acknowledge
  <2>2. QED
    BY <2>1 DEF ReachInv, ReachTypeOK, LiveStaysListed, Listed, AtMeeting, SteadyToTry
<1>10. CASE AcknowledgeFails(m, c)
  <2>1. waiting' = [waiting EXCEPT ![m] = waiting[m]] /\ UNCHANGED <<holding, open, dial>>
        /\ conn' = [conn EXCEPT ![m][c] = "gone"] /\ conn[m][c] # "live"
    BY <1>1, <1>10 DEF AcknowledgeFails
  <2>2. QED
    BY <1>1, <1>3, <2>1 DEF ConnState
<1>11. QED
  BY <1>4, <1>5, <1>6, <1>7, <1>8, <1>9, <1>10

\* The meeting point's process ends, and with it what the dials there were told.
LEMMA MeetingStep ==
    ASSUME ReachInv, NEW m \in Meeting, EndMeeting(m) \/ StartMeeting(m)
    PROVE  ReachInv'
<1>1. /\ conn \in [Meeting -> [Conn -> ConnState]] /\ waiting \in [Meeting -> Seq(Conn)]
      /\ open \in [Meeting -> BOOLEAN] /\ dial \in [Dialer -> Dial]
      /\ holding \in [Meeting -> SUBSET Conn]
  BY DEF ReachInv, ReachTypeOK
<1>2. CASE EndMeeting(m)
  <2> DEFINE states == [c \in Conn |-> "free"]
  <2>1. states \in [Conn -> ConnState] /\ \A c \in Conn : states[c] # "live"
    BY DEF ConnState
  <2>2. << >> \in Seq(Conn)
    OBVIOUS
  <2>3. /\ conn' = [conn EXCEPT ![m] = states] /\ waiting' = [waiting EXCEPT ![m] = << >>]
        /\ open' \in [Meeting -> BOOLEAN] /\ holding' \in [Meeting -> SUBSET Conn]
        /\ dial' = [d \in Dialer |-> IF dial[d].at = m
                                      THEN [dial[d] EXCEPT !.todo = << >>, !.steady = {}]
                                      ELSE dial[d]]
    BY <1>1, <1>2 DEF EndMeeting
  <2> HIDE DEF states
  <2>4. dial' \in [Dialer -> Dial]
    BY <1>1, <2>2, <2>3, ZenonT(30) DEF Dial
  <2>5. ASSUME NEW d \in Dialer
        PROVE  DialForgets(d, m, states)
    BY <1>1, <2>3 DEF Dial, DialForgets
  <2>6. ConnsBecome(m, states, << >>)
    BY <2>1, <2>3 DEF ConnsBecome
  <2>7. QED
    BY <2>1, <2>2, <2>4, <2>5, <2>6, MeetingChanges
<1>3. CASE StartMeeting(m)
  <2>1. UNCHANGED <<conn, waiting, holding, dial>> /\ open' \in [Meeting -> BOOLEAN]
    BY <1>1, <1>3 DEF StartMeeting
  <2>2. QED
    BY <1>1, <2>1 DEF ReachInv, ReachTypeOK, LiveStaysListed, Listed, AtMeeting, SteadyToTry
<1>4. QED
  BY <1>2, <1>3

\* A dial in which only the stage changes.
LEMMA DialStage ==
    ASSUME ReachInv, NEW d \in Dialer, NEW stage \in Stage \ {"ask", "try"}, Go(d, stage),
           stage = "connect" => dial[d].stage = "try"
    PROVE  ReachInv'
<1> DEFINE is == [dial[d] EXCEPT !.stage = stage]
<1>1. dial \in [Dialer -> Dial] /\ dial[d] \in Dial /\ AtMeeting(dial[d])
  BY DEF ReachInv, ReachTypeOK
<1>2. is \in Dial /\ is.stage = stage /\ is.at = dial[d].at
  BY <1>1 DEF Dial
<1>3. AtMeeting(is) /\ SteadyToTry(is)
  BY <1>1, <1>2 DEF AtMeeting, SteadyToTry
<1>4. dial' = [dial EXCEPT ![d] = is] /\ UNCHANGED <<conn, waiting, holding, open>>
  BY <1>1 DEF Go
<1>5. QED
  BY <1>2, <1>3, <1>4, DialGoesOn

\* The copy of the list a dial gets holds every connection that is live now.
LEMMA AskStep ==
    ASSUME ReachInv, NEW d \in Dialer, Ask(d)
    PROVE  ReachInv'
<1> DEFINE m == dial[d].at
           live == {c \in Conn : conn[m][c] = "live"}
           is == [dial[d] EXCEPT !.stage = "try", !.todo = waiting[m], !.steady = live]
<1>1. /\ dial \in [Dialer -> Dial] /\ dial[d] \in Dial
      /\ m \in Meeting /\ waiting[m] \in Seq(Conn)
  BY DEF ReachInv, ReachTypeOK, AtMeeting, Ask
<1>2. CASE dial' = [dial EXCEPT ![d] = is] /\ UNCHANGED <<conn, waiting, holding, open>>
  <2>1. live \subseteq Conn /\ \A c \in live : c \in Range(waiting[m])
    BY <1>1 DEF ReachInv, LiveStaysListed, Listed
  <2>2. \A c \in live : conn[m][c] = "live"
    OBVIOUS
  <2> HIDE DEF live
  <2>3. is \in Dial /\ is.stage = "try" /\ is.at = m /\ is.todo = waiting[m] /\ is.steady = live
    BY <1>1, <2>1 DEF Dial, Stage
  <2> HIDE DEF is
  <2>4. AtMeeting(is) /\ SteadyToTry(is)
    BY <1>1, <2>1, <2>2, <2>3 DEF AtMeeting, SteadyToTry
  <2>5. QED
    BY <1>2, <2>3, <2>4, DialGoesOn
<1>3. QED
  <2>1. CASE Escalate(d)
    BY <2>1, DialEscalates
  <2>2. CASE ~ Escalate(d)
    <3>1. dial' = [dial EXCEPT ![d] = is] /\ UNCHANGED <<conn, waiting, holding, open>>
      BY <1>1, <2>2 DEF Ask
    <3>2. QED
      BY <1>2, <3>1
  <2>3. QED
    BY <2>1, <2>2

\* What is skipped was not live: it goes from the list and from what is to try.
LEMMA SkipStep ==
    ASSUME ReachInv, NEW d \in Dialer, SkipClosed(d)
    PROVE  ReachInv'
<1> DEFINE m == dial[d].at
           c == Head(dial[d].todo)
           is == [dial[d] EXCEPT !.todo = Tail(@)]
<1>1. /\ conn \in [Meeting -> [Conn -> ConnState]] /\ waiting \in [Meeting -> Seq(Conn)]
      /\ dial \in [Dialer -> Dial] /\ dial[d] \in Dial /\ dial[d].todo \in Seq(Conn)
      /\ AtMeeting(dial[d]) /\ SteadyToTry(dial[d])
  BY DEF ReachInv, ReachTypeOK, Dial
<1>2. /\ dial[d].stage = "try" /\ dial[d].todo # << >> /\ conn[m][c] # "live" /\ Unlist(m, c)
      /\ dial' = [dial EXCEPT ![d] = is] /\ UNCHANGED <<conn, holding, open>>
  BY <1>1 DEF SkipClosed
<1>3. m \in Meeting
  BY <1>1, <1>2 DEF AtMeeting
<1>4. c \in Conn /\ Tail(dial[d].todo) \in Seq(Conn)
      /\ Range(dial[d].todo) = {c} \cup Range(Tail(dial[d].todo))
  BY <1>1, <1>2, RangeHeadTail
<1>5. is \in Dial /\ is.stage = "try" /\ is.at = m /\ is.todo = Tail(dial[d].todo)
      /\ is.steady = dial[d].steady
  BY <1>1, <1>2, <1>4 DEF Dial
<1> HIDE DEF c, is
<1>6. waiting[m] \in Seq(Conn) /\ Without(waiting[m], c) \in Seq(Conn)
      /\ Range(Without(waiting[m], c)) = Range(waiting[m]) \ {c}
  BY <1>1, <1>3, WithoutProperties
<1>7. waiting' = [waiting EXCEPT ![m] = Without(waiting[m], c)]
  BY <1>1, <1>2, <1>3 DEF Unlist
<1>8. \A k \in Meeting : waiting'[k] = IF k = m THEN Without(waiting[m], c) ELSE waiting[k]
  BY <1>1, <1>7
<1>9. ReachTypeOK'
  BY <1>1, <1>2, <1>5, <1>6, <1>7 DEF ReachInv, ReachTypeOK
<1>10. LiveStaysListed'
  <2> SUFFICES ASSUME NEW k \in Meeting, NEW e \in Conn, conn[k][e] = "live"
               PROVE  e \in Range(waiting'[k])
    BY <1>2 DEF LiveStaysListed, Listed
  <2>1. e \in Range(waiting[k])
    BY DEF ReachInv, LiveStaysListed, Listed
  <2>2. CASE k = m
    BY <1>2, <1>6, <1>8, <2>1, <2>2
  <2>3. CASE k # m
    BY <1>8, <2>1, <2>3
  <2>4. QED
    BY <2>2, <2>3
<1>11. AtMeeting(is) /\ SteadyToTry(is)
  BY <1>1, <1>2, <1>3, <1>4, <1>5 DEF AtMeeting, SteadyToTry
<1>12. ASSUME NEW e \in Dialer
       PROVE  AtMeeting(dial[e])' /\ SteadyToTry(dial[e])'
  <2>1. AtMeeting(dial[e]) /\ SteadyToTry(dial[e])
    BY DEF ReachInv
  <2>2. dial'[e] = IF e = d THEN is ELSE dial[e]
    BY <1>1, <1>2
  <2>3. QED
    BY <1>2, <1>11, <2>1, <2>2 DEF AtMeeting, SteadyToTry
<1>13. QED
  BY <1>9, <1>10, <1>12 DEF ReachInv

\* A dialer's step.
LEMMA DialerStep ==
    ASSUME ReachInv, NEW d \in Dialer, StartDial(d) \/ DialStep(d)
    PROVE  ReachInv'
<1>1. CASE StartDial(d)
  <2>1. PICK given \in Routes :
            dial' = [dial EXCEPT ![d] = [NoDial EXCEPT !.stage = "resolve", !.given = given]]
    BY <1>1 DEF StartDial
  <2> DEFINE is == [NoDial EXCEPT !.stage = "resolve", !.given = given]
  <2>2. << >> \in Seq(Conn)
    OBVIOUS
  <2>3. is \in Dial /\ is.stage = "resolve"
    BY <2>2, ReachAssumption DEF NoDial, Dial, Stage
  <2>4. AtMeeting(is) /\ SteadyToTry(is)
    BY <2>3 DEF AtMeeting, SteadyToTry
  <2>5. QED
    BY <1>1, <2>1, <2>3, <2>4, DialGoesOn DEF StartDial
<1>2. CASE Resolve(d)
  BY <1>2, DialStage, DialEnds DEF Resolve, Stage
<1>3. CASE DialDirect(d)
  BY <1>3, DialEnds, DialEscalates DEF DialDirect, Stage
<1>4. CASE Ask(d)
  BY <1>4, AskStep
<1>5. CASE OpenStream(d)
  <2>1. Go(d, "connect") /\ dial[d].stage = "try"
    BY <1>5 DEF OpenStream, Go
  <2>2. QED
    BY <2>1, DialStage DEF Stage
<1>6. CASE SkipClosed(d)
  BY <1>6, SkipStep
<1>7. CASE NoPeer(d)
  BY <1>7, DialEscalates DEF NoPeer
<1>8. CASE Connect(d)
  BY <1>8, DialEnds, DialEscalates DEF Connect, Stage
<1>9. QED
  BY <1>1, <1>2, <1>3, <1>4, <1>5, <1>6, <1>7, <1>8 DEF DialStep

\* Any step keeps it.
LEMMA ReachInvStep ==
    ASSUME ReachInv, [ReachNext]_reachVars
    PROVE  ReachInv'
<1>1. CASE UNCHANGED reachVars
  BY <1>1 DEF reachVars, ReachInv, ReachTypeOK, LiveStaysListed, Listed, AtMeeting, SteadyToTry
<1>2. CASE ReachNext
  <2>1. ASSUME NEW m \in Meeting, NEW c \in Conn,
               Announce(m, c) \/ Acknowledge(m, c) \/ AcknowledgeFails(m, c)
               \/ Leave(m, c) \/ Notice(m, c) \/ Withdraw(m, c) \/ Reuse(m, c)
        PROVE  ReachInv'
    BY <2>1, ConnStep
  <2>2. ASSUME NEW m \in Meeting, EndMeeting(m) \/ StartMeeting(m)
        PROVE  ReachInv'
    BY <2>2, MeetingStep
  <2>3. ASSUME NEW d \in Dialer, StartDial(d) \/ DialStep(d)
        PROVE  ReachInv'
    BY <2>3, DialerStep
  <2>4. QED
    BY <1>2, <2>1, <2>2, <2>3 DEF ReachNext
<1>3. QED
  BY <1>1, <1>2

\* What dials know and what meeting points list holds throughout.
THEOREM ReachInvCorrect == ReachSpec => []ReachInv
<1>1. ReachInit => ReachInv
  <2> SUFFICES ASSUME ReachInit PROVE ReachInv
    OBVIOUS
  <2>1. << >> \in Seq(Conn)
    OBVIOUS
  <2>2. NoDial \in Dial /\ NoDial.stage = "off"
    BY <2>1 DEF NoDial, Dial, Stage
  <2>3. ReachTypeOK
    BY <2>1, <2>2 DEF ReachInit, ReachTypeOK, ConnState
  <2>4. LiveStaysListed
    BY DEF ReachInit, LiveStaysListed
  <2>5. QED
    BY <2>2, <2>3, <2>4 DEF ReachInit, ReachInv, AtMeeting, SteadyToTry
<1>2. ReachInv /\ [ReachNext]_reachVars => ReachInv'
  BY ReachInvStep
<1>3. QED
  BY <1>1, <1>2, PTL DEF ReachSpec

\* The connections, the lists and the dials are of their types throughout.
THEOREM ReachTypeCorrect == ReachSpec => []ReachTypeOK
BY ReachInvCorrect, PTL DEF ReachInv

\* No withdrawal, skip or late act on a reused id takes a live peer off the list.
THEOREM LiveIsListed == ReachSpec => []LiveStaysListed
BY ReachInvCorrect, PTL DEF ReachInv

\* A dial that leaves a meeting point while it tries has nothing left to try.
LEMMA ToldStep ==
    ASSUME ReachInv, [ReachNext]_reachVars, NEW d \in Dialer, ToldNoPeer(d)
    PROVE  dial[d].steady = {}
<1>1. /\ dial \in [Dialer -> Dial] /\ dial[d] \in Dial
      /\ dial[d].stage = "try" /\ dial'[d].at # dial[d].at
  BY DEF ReachInv, ReachTypeOK, ToldNoPeer
<1>2. CASE dial[d].todo = << >>
  <2>1. Range(dial[d].todo) = {}
    BY <1>2 DEF Range
  <2>2. QED
    BY <1>1, <2>1 DEF ReachInv, SteadyToTry, Dial
<1>3. CASE dial[d].todo # << >>
  <2>1. ASSUME NEW m \in Meeting, NEW c \in Conn,
               Announce(m, c) \/ Acknowledge(m, c) \/ AcknowledgeFails(m, c)
               \/ Leave(m, c) \/ Notice(m, c) \/ Withdraw(m, c) \/ Reuse(m, c)
        PROVE  FALSE
    <3>1. CASE Leave(m, c)
      BY <1>1, <3>1 DEF Leave, Dial
    <3>2. CASE ~ Leave(m, c)
      BY <1>1, <2>1, <3>2 DEF Announce, Acknowledge, AcknowledgeFails,
         Notice, Withdraw, Reuse
    <3>3. QED
      BY <3>1, <3>2
  <2>2. ASSUME NEW m \in Meeting, EndMeeting(m) \/ StartMeeting(m)
        PROVE  FALSE
    <3>1. CASE EndMeeting(m)
      <4>1. dial'[d] = IF dial[d].at = m THEN [dial[d] EXCEPT !.todo = << >>, !.steady = {}]
                       ELSE dial[d]
        BY <3>1 DEF EndMeeting
      <4>2. QED
        BY <1>1, <4>1 DEF Dial
    <3>2. CASE StartMeeting(m)
      BY <1>1, <3>2 DEF StartMeeting
    <3>3. QED
      BY <2>2, <3>1, <3>2
  <2>3. ASSUME NEW e \in Dialer, StartDial(e) \/ DialStep(e)
        PROVE  FALSE
    <3>1. CASE e # d
      <4>1. PICK is : dial' = [dial EXCEPT ![e] = is]
        <5>1. StartDial(e) \/ Resolve(e) \/ DialDirect(e) \/ Ask(e) \/ OpenStream(e)
              \/ SkipClosed(e) \/ NoPeer(e) \/ Connect(e)
          BY <2>3 DEF DialStep
        <5>2. CASE Escalate(e)
          BY <1>1, <5>2 DEF Escalate, EndDial
        <5>3. CASE ~ Escalate(e)
          BY <1>1, <5>1, <5>3 DEF StartDial, Resolve, DialDirect, Ask, OpenStream, SkipClosed,
             NoPeer, Connect, Go, EndDial
        <5>4. QED
          BY <5>2, <5>3
      <4>2. QED
        BY <1>1, <3>1, <4>1
    <3>2. CASE e = d
      <4>1. OpenStream(d) \/ SkipClosed(d)
        BY <1>1, <1>3, <2>3, <3>2 DEF StartDial, DialStep, Resolve, DialDirect, Ask, NoPeer,
           Connect
      <4>2. QED
        BY <1>1, <4>1 DEF OpenStream, SkipClosed, Dial
    <3>3. QED
      BY <3>1, <3>2
  <2>4. QED
    BY <1>1, <2>1, <2>2, <2>3 DEF ReachNext, reachVars
<1>4. QED
  BY <1>2, <1>3

\* A dialer that is told there is no peer was told the truth, whichever peers and
\* dialers came and went while it tried.
THEOREM ToldTheTruth == ReachSpec => NoPeerIsTrue
<1>1. ReachInv /\ [ReachNext]_reachVars
      => [\A d \in Dialer : ToldNoPeer(d) => dial[d].steady = {}]_reachVars
  BY ToldStep
<1>2. QED
  BY <1>1, ReachInvCorrect, PTL DEF ReachSpec, NoPeerIsTrue

=============================================================================
