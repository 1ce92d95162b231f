------------------------- MODULE ConstellationReach -------------------------
(***************************************************************************)
(* How a dialer reaches a serving peer of its identity                      *)
(* (crates/constellation/src/net: rendezvous.rs, punch.rs, relay.rs, mod.rs; *)
(* discovery.rs; and `horizon constellation sync` in horizon/src/main.rs).  *)
(*                                                                         *)
(* Serving peers keep a connection open to the two meeting points: they     *)
(* wait at the rendezvous to be hole-punched and are bound at the relay.    *)
(* Presence is that connection: the meeting point lists it until it notices *)
(* that it is closed.  A dialer tries its routes in cost order: a direct    *)
(* address, a punch the rendezvous brokers, the relay's tunnel.  At a       *)
(* meeting point its request copies the list and tries one connection       *)
(* after the other, while others open, die, close and are withdrawn.        *)
(*                                                                         *)
(* A connection is known by its stable id, which the next connection may    *)
(* get once no handle to this one is left.                                  *)
(***************************************************************************)
EXTENDS Integers, Sequences, FiniteSets, SequencesExt

CONSTANTS
    Conn,    \* stable ids of connections to a meeting point
    Served,  \* bound: the meeting points and ids that connections may have
    Dialer,  \* processes that run a sync
    Routes   \* the sets of routes a dialer may be given, see Route

Meeting == {"rendezvous", "relay"}

\* "address" is a host:port, "discover" an mDNS browse.
Route == {"address", "discover"} \cup Meeting

ASSUME ReachAssumption == Routes \subseteq SUBSET Route

VARIABLES
    conn,    \* state of each connection, per meeting point
    waiting, \* Registry.pending and Registry.by_fp: those listed, in order
    holding, \* the connections whose handler has answered and awaits closed()
    open,    \* whether the meeting point is running
    dial     \* a dialer's progress

reachVars == <<conn, waiting, holding, open, dial>>

\* "live" is served at the far end; "dead" is not, and unnoticed; "closed" is
\* noticed, its handler still to run; "gone" has no handler left.
ConnState == {"free", "live", "dead", "closed", "gone"}

\* Where a dial is: looking addresses up, trying them, asking at a meeting
\* point (with the copy it tries), or connecting to the peer it was given.
Stage == {"off", "resolve", "direct", "ask", "try", "connect",
          "session", "failed", "unresolved"}

\* steady is history: the connections at the meeting point it is at that were
\* live when it asked and have been since.
Dial == [stage : Stage, given : SUBSET Route, at : Meeting \cup {"none"},
         todo : Seq(Conn), tried : SUBSET Route, steady : SUBSET Conn]

ReachTypeOK ==
    /\ conn \in [Meeting -> [Conn -> ConnState]]
    /\ waiting \in [Meeting -> Seq(Conn)]
    /\ holding \in [Meeting -> SUBSET Conn]
    /\ open \in [Meeting -> BOOLEAN]
    /\ dial \in [Dialer -> Dial]

NoDial == [stage |-> "off", given |-> {}, at |-> "none",
           todo |-> << >>, tried |-> {}, steady |-> {}]

ReachInit ==
    /\ conn = [m \in Meeting |-> [c \in Conn |-> "free"]]
    /\ waiting = [m \in Meeting |-> << >>]
    /\ holding = [m \in Meeting |-> {}]
    /\ open = [m \in Meeting |-> TRUE]
    /\ dial = [d \in Dialer |-> NoDial]

-----------------------------------------------------------------------------
(* Serving peers at a meeting point.                                       *)

Listed(m) == Range(waiting[m])

\* Vec::retain: a list without one element, the others in their order.
Without(list, c) ==
    LET kept == {i \in DOMAIN list : list[i] # c}
        place(i) == Cardinality({j \in kept : j <= i})
    IN  [n \in 1 .. Cardinality(kept) |-> list[CHOOSE i \in kept : place(i) = n]]

\* Wrong: the identity's whole list goes.
UnlistAll(m, c) == waiting' = [waiting EXCEPT ![m] = << >>]

\* Registry::punch_drop, Registry::unbind.
Unlist(m, c) ==
    waiting' = [waiting EXCEPT ![m] = Without(@, c)]

\* punch::listen, relay::bind and their handlers: the connection is listed.
Announce(m, c) ==
    /\ open[m] /\ conn[m][c] = "free" /\ <<m, c>> \in Served
    /\ conn' = [conn EXCEPT ![m][c] = "live"]
    /\ waiting' = [waiting EXCEPT ![m] = Append(Without(@, c), c)]
    /\ UNCHANGED <<holding, open, dial>>

\* The handler tells the peer so (it cannot see that the peer is dead), and
\* waits for the connection to close.
Acknowledge(m, c) ==
    /\ conn[m][c] \in {"live", "dead"} /\ c \notin holding[m]
    /\ holding' = [holding EXCEPT ![m] = @ \cup {c}]
    /\ UNCHANGED <<conn, waiting, open, dial>>

\* The connection closed before: the handler returns the error, and leaves
\* the entry behind it.
AcknowledgeFails(m, c) ==
    /\ conn[m][c] = "closed" /\ c \notin holding[m]
    /\ conn' = [conn EXCEPT ![m][c] = "gone"]
    /\ UNCHANGED <<waiting, holding, open, dial>>

\* The peer drops its handle, which says so, or is killed or cut off.
Leave(m, c) ==
    /\ conn[m][c] = "live"
    /\ \E end \in {"closed", "dead"} : conn' = [conn EXCEPT ![m][c] = end]
    /\ dial' = [d \in Dialer |-> IF dial[d].at = m
                                 THEN [dial[d] EXCEPT !.steady = @ \ {c}] ELSE dial[d]]
    /\ UNCHANGED <<waiting, holding, open>>

\* The idle timeout of the connection.
Notice(m, c) ==
    /\ conn[m][c] = "dead"
    /\ conn' = [conn EXCEPT ![m][c] = "closed"]
    /\ UNCHANGED <<waiting, holding, open, dial>>

\* Wrong: the task that holds a connection ends with it and drops nothing.
WithdrawNothing(m, c) ==
    /\ conn[m][c] = "closed" /\ c \in holding[m]
    /\ conn' = [conn EXCEPT ![m][c] = "gone"]
    /\ holding' = [holding EXCEPT ![m] = @ \ {c}]
    /\ UNCHANGED <<waiting, open, dial>>

\* The task that awaited conn.closed() drops the entry and ends.
Withdraw(m, c) ==
    /\ conn[m][c] = "closed" /\ c \in holding[m]
    /\ conn' = [conn EXCEPT ![m][c] = "gone"]
    /\ holding' = [holding EXCEPT ![m] = @ \ {c}]
    /\ Unlist(m, c)
    /\ UNCHANGED <<open, dial>>

\* A dial's request at m holds handles to what it has still to try.
Held(m) == UNION {Range(dial[d].todo) : d \in {e \in Dialer : dial[e].at = m}}

\* The last handle is dropped, and the id may be given to another connection.
Reuse(m, c) ==
    /\ conn[m][c] = "gone" /\ c \notin Listed(m) \cup Held(m)
    /\ conn' = [conn EXCEPT ![m][c] = "free"]
    /\ UNCHANGED <<waiting, holding, open, dial>>

\* The meeting point's process ends, its registry with it, or starts anew.
\* Nobody who was bound binds again by himself.
EndMeeting(m) ==
    /\ open[m]
    /\ open' = [open EXCEPT ![m] = FALSE]
    /\ waiting' = [waiting EXCEPT ![m] = << >>]
    /\ holding' = [holding EXCEPT ![m] = {}]
    /\ conn' = [conn EXCEPT ![m] = [c \in Conn |-> "free"]]
    /\ dial' = [d \in Dialer |-> IF dial[d].at = m
                                 THEN [dial[d] EXCEPT !.todo = << >>, !.steady = {}]
                                 ELSE dial[d]]

StartMeeting(m) ==
    /\ ~ open[m]
    /\ open' = [open EXCEPT ![m] = TRUE]
    /\ UNCHANGED <<conn, waiting, holding, dial>>

-----------------------------------------------------------------------------
(* A dialer: resolve_peers, then connect_peer.                             *)

Go(d, stage) ==
    /\ dial' = [dial EXCEPT ![d].stage = stage]
    /\ UNCHANGED <<conn, waiting, holding, open>>

\* The dial is over, one way or another.
EndDial(d, stage) ==
    /\ dial' = [dial EXCEPT ![d] = [NoDial EXCEPT !.stage = stage]]
    /\ UNCHANGED <<conn, waiting, holding, open>>

StartDial(d) ==
    /\ dial[d].stage \in {"off", "session", "failed", "unresolved"}
    /\ \E given \in Routes :
          dial' = [dial EXCEPT ![d] = [NoDial EXCEPT !.stage = "resolve", !.given = given]]
    /\ UNCHANGED <<conn, waiting, holding, open>>

\* A given address is the only candidate.  Otherwise the rendezvous is looked
\* up and the LAN browsed, and if either cannot be done the dial ends.
Resolve(d) ==
    /\ dial[d].stage = "resolve"
    /\ LET asked == IF "address" \in dial[d].given THEN {}
                    ELSE dial[d].given \cap {"rendezvous", "discover"}
       IN  \/ /\ "rendezvous" \in asked => open["rendezvous"]
              /\ Go(d, "direct")
           \/ /\ asked # {}
              /\ EndDial(d, "unresolved")

\* The meeting points given that were not tried yet, the cheaper one next.
NextRoute(d) ==
    LET left == (dial[d].given \cap Meeting) \ dial[d].tried
    IN  IF "rendezvous" \in left THEN "rendezvous"
        ELSE IF "relay" \in left THEN "relay" ELSE "none"

\* A route did not work: on to the next one.
Escalate(d) ==
    LET next == NextRoute(d)
    IN  IF next = "none" THEN EndDial(d, "failed")
        ELSE /\ dial' = [dial EXCEPT ![d].at = next, ![d].todo = << >>, ![d].steady = {},
                                     ![d].stage = "ask", ![d].tried = @ \cup {next}]
             /\ UNCHANGED <<conn, waiting, holding, open>>

\* NetworkTransport::connect to each candidate, stale and wrong ones included.
DialDirect(d) ==
    /\ dial[d].stage = "direct"
    /\ \/ dial[d].given \ {"relay"} # {} /\ EndDial(d, "session")
       \/ Escalate(d)

\* The request reaches the meeting point, which copies its list; or the
\* connection, or its answer, is lost.
Ask(d) ==
    /\ dial[d].stage = "ask"
    /\ \/ /\ open[dial[d].at]
          /\ dial' = [dial EXCEPT ![d].stage = "try", ![d].todo = waiting[dial[d].at],
                  ![d].steady = {c \in Conn : conn[dial[d].at][c] = "live"}]
          /\ UNCHANGED <<conn, waiting, holding, open>>
       \/ Escalate(d)

\* punch_connect and the Connect request: a stream opens on a connection not
\* known to be closed, and the dialer is sent there (or the answer is lost).
OpenStream(d) ==
    LET m == dial[d].at
    IN  /\ dial[d].stage = "try" /\ dial[d].todo # << >>
        /\ conn[m][Head(dial[d].todo)] \in {"live", "dead"}
        /\ dial' = [dial EXCEPT ![d].stage = "connect"]
        /\ UNCHANGED <<conn, waiting, holding, open>>

\* One known to be closed is dropped and the next tried.
SkipClosed(d) ==
    LET m == dial[d].at
        c == Head(dial[d].todo)
    IN  /\ dial[d].stage = "try" /\ dial[d].todo # << >>
        /\ conn[m][c] \in {"closed", "gone"}
        /\ Unlist(m, c)
        /\ dial' = [dial EXCEPT ![d].todo = Tail(@)]
        /\ UNCHANGED <<conn, holding, open>>

\* Wrong: only the first of the list is tried.
NoPeerAfterFirst(d) ==
    /\ dial[d].stage = "try"
    /\ dial[d].todo # << >> => conn[dial[d].at][Head(dial[d].todo)] \in {"closed", "gone"}
    /\ Escalate(d)

\* PunchNoPeer, NoPeer.
NoPeer(d) ==
    /\ dial[d].stage = "try" /\ dial[d].todo = << >>
    /\ Escalate(d)

\* The handshake with the peer over the punched path, which may not form and
\* needs the rendezvous no more, or over the tunnel to the one at its end.
Connect(d) ==
    /\ dial[d].stage = "connect"
    /\ \/ /\ dial[d].at = "relay" =>
                /\ dial[d].todo # << >>
                /\ conn["relay"][Head(dial[d].todo)] = "live"
          /\ EndDial(d, "session")
       \/ Escalate(d)

DialStep(d) ==
    \/ Resolve(d) \/ DialDirect(d) \/ Ask(d) \/ OpenStream(d) \/ SkipClosed(d)
    \/ NoPeer(d) \/ Connect(d)

ReachNext ==
    \/ \E m \in Meeting, c \in Conn :
          \/ Announce(m, c) \/ Acknowledge(m, c) \/ AcknowledgeFails(m, c)
          \/ Leave(m, c) \/ Notice(m, c) \/ Withdraw(m, c) \/ Reuse(m, c)
    \/ \E m \in Meeting : EndMeeting(m) \/ StartMeeting(m)
    \/ \E d \in Dialer : StartDial(d) \/ DialStep(d)

ReachSpec == ReachInit /\ [][ReachNext]_reachVars

\* Idle timeouts run out and tasks run; peers, dialers and processes need not.
ReachFair ==
    \A m \in Meeting, c \in Conn :
        WF_reachVars(Notice(m, c) \/ Withdraw(m, c))

-----------------------------------------------------------------------------

\* A peer that is bound and serving can be asked for: no withdrawal of another
\* connection, no dialer that found one closed, and no late one that acts on
\* an id which has since been given to this peer, takes it off the list.
LiveStaysListed ==
    \A m \in Meeting, c \in Conn : conn[m][c] = "live" => c \in Listed(m)

\* "When the serving peer's connection closes, the relay withdraws the
\* binding", also if the peer was killed and never says so: of the peers that
\* were answered.  One whose connection closes between its listing and the
\* answer stays on the list (AcknowledgeFails), until a dialer skips it.
ClosedWithdrawn ==
    \A m \in Meeting, c \in Conn :
        c \in holding[m] /\ conn[m][c] \in {"dead", "closed"}
            ~> c \notin Listed(m) \/ conn[m][c] = "live"

\* A dialer that is told there is no peer was told the truth: no connection
\* has been live ever since it asked, whoever withdrew what meanwhile.
ToldNoPeer(d) == dial[d].stage = "try" /\ dial'[d].at # dial[d].at

NoPeerIsTrue ==
    [][\A d \in Dialer : ToldNoPeer(d) => dial[d].steady = {}]_reachVars
=============================================================================
