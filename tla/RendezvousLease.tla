--------------------------- MODULE RendezvousLease ---------------------------
(***************************************************************************)
(* The rendezvous (crates/constellation/src/net/rendezvous.rs): serving     *)
(* peers of one identity register their address under its fingerprint, each *)
(* registration is a lease, and a heartbeat refreshes it over the one       *)
(* connection the peer dialled at its start.  That connection dies by       *)
(* itself when the network is away for longer than the idle timeout, and    *)
(* nothing dials it again.                                                  *)
(*                                                                         *)
(* A peer is its address: the IP it is observed at and the port it names.   *)
(* Buckets of other fingerprints never mix with this one.  Time passes in   *)
(* units of which the code's durations are multiples; what is due happens   *)
(* before time goes on.                                                     *)
(***************************************************************************)
EXTENDS Integers

CONSTANTS
    Serving,    \* the peers that may serve
    Lease,      \* LEASE
    Heartbeat,  \* HEARTBEAT
    IdleTimeout,       \* max_idle_timeout of tls::transport
    Unlisted    \* no entry in the registry

ASSUME LeaseAssumption ==
    /\ Lease \in Nat \ {0} /\ Heartbeat \in Nat \ {0} /\ IdleTimeout \in Nat \ {0}
    /\ Heartbeat + IdleTimeout < Lease
    /\ Unlisted \notin Nat

VARIABLES
    lease,   \* Registry.by_fp[fp]: time left of each address's lease, 0 expired
    link,    \* the peer's connection to the rendezvous
    beatIn,  \* time to the next tick of its heartbeat, negative when overdue
    cutFor   \* how long its network has been away

leaseVars == <<lease, link, beatIn, cutFor>>

\* "off" serves nothing, "cut" the network is away, "closed" timed out or reset.
LinkState == {"off", "up", "cut", "closed"}

LeaseTypeOK ==
    /\ lease \in [Serving -> 0 .. Lease \cup {Unlisted}]
    /\ link \in [Serving -> LinkState]
    /\ beatIn \in [Serving -> -IdleTimeout .. Heartbeat]
    /\ cutFor \in [Serving -> 0 .. IdleTimeout]

LeaseInit ==
    /\ lease = [p \in Serving |-> Unlisted]
    /\ link = [p \in Serving |-> "off"]
    /\ beatIn = [p \in Serving |-> Heartbeat]
    /\ cutFor = [p \in Serving |-> 0]

-----------------------------------------------------------------------------
(* The registry.                                                           *)

Leased(p) == lease[p] \notin {0, Unlisted}

\* A bucket without the leases that have expired.
Pruned(bucket) == [p \in Serving |-> IF bucket[p] = 0 THEN Unlisted ELSE bucket[p]]

\* Wrong: a lease that is there is kept as it is.
RegisterOnce(p) ==
    lease' = Pruned([lease EXCEPT ![p] = IF @ = Unlisted THEN Lease ELSE @])

\* Registry::register.
Register(p) == lease' = Pruned([lease EXCEPT ![p] = Lease])

\* Registry::lookup: it returns the live ones and prunes the others.
Lookup ==
    /\ lease # Pruned(lease)
    /\ lease' = Pruned(lease)
    /\ UNCHANGED <<link, beatIn, cutFor>>

\* Registry::unregister, by another client at an address that does not serve.
Unregister(p) ==
    /\ link[p] = "off"
    /\ lease[p] # Unlisted
    /\ lease' = [lease EXCEPT ![p] = Unlisted]
    /\ UNCHANGED <<link, beatIn, cutFor>>

-----------------------------------------------------------------------------
(* A serving peer.                                                         *)

\* RendezvousClient::connect and keepalive, which registers before it returns.
StartServing(p) ==
    /\ link[p] = "off"
    /\ Register(p)
    /\ link' = [link EXCEPT ![p] = "up"]
    /\ beatIn' = [beatIn EXCEPT ![p] = Heartbeat]
    /\ cutFor' = [cutFor EXCEPT ![p] = 0]

\* The heartbeat task.  A tick during a cut is answered when the network is
\* back, and the next tick comes when it would have come anyway; over a closed
\* connection every roundtrip fails and its result is dropped: nothing happens.
Beat(p) ==
    /\ link[p] = "up" /\ beatIn[p] <= 0
    /\ Register(p)
    /\ beatIn' = [beatIn EXCEPT ![p] = @ + Heartbeat]
    /\ UNCHANGED <<link, cutFor>>

\* The handle is dropped or the process killed; the rendezvous is not told.
StopServing(p) ==
    /\ link[p] # "off"
    /\ link' = [link EXCEPT ![p] = "off"]
    /\ beatIn' = [beatIn EXCEPT ![p] = Heartbeat]
    /\ cutFor' = [cutFor EXCEPT ![p] = 0]
    /\ UNCHANGED <<lease>>

-----------------------------------------------------------------------------
(* The network, the rendezvous process and time.                           *)

Overdue(p) ==
    \/ link[p] = "up" /\ beatIn[p] <= 0
    \/ link[p] = "cut" /\ cutFor[p] = IdleTimeout

\* A network that is back for too short a time to carry what is due is away.
Cut(p) ==
    /\ link[p] = "up" /\ ~ Overdue(p)
    /\ link' = [link EXCEPT ![p] = "cut"]
    /\ UNCHANGED <<lease, beatIn, cutFor>>

Heal(p) ==
    /\ link[p] = "cut"
    /\ link' = [link EXCEPT ![p] = "up"]
    /\ cutFor' = [cutFor EXCEPT ![p] = 0]
    /\ UNCHANGED <<lease, beatIn>>

TimeOut(p) ==
    /\ link[p] = "cut" /\ cutFor[p] = IdleTimeout
    /\ link' = [link EXCEPT ![p] = "closed"]
    /\ beatIn' = [beatIn EXCEPT ![p] = Heartbeat]
    /\ cutFor' = [cutFor EXCEPT ![p] = 0]
    /\ UNCHANGED <<lease>>

\* The rendezvous process ends and another starts at the same address.
Restart ==
    /\ lease' = [p \in Serving |-> Unlisted]
    /\ link' = [p \in Serving |-> IF link[p] = "off" THEN "off" ELSE "closed"]
    /\ beatIn' = [p \in Serving |-> Heartbeat]
    /\ cutFor' = [p \in Serving |-> 0]

Pass ==
    /\ \A p \in Serving : ~ Overdue(p)
    /\ lease' = [p \in Serving |-> IF Leased(p) THEN lease[p] - 1 ELSE lease[p]]
    /\ beatIn' = [p \in Serving |->
                      IF link[p] \in {"up", "cut"} THEN beatIn[p] - 1 ELSE beatIn[p]]
    /\ cutFor' = [p \in Serving |->
                      IF link[p] = "cut" THEN cutFor[p] + 1 ELSE cutFor[p]]
    /\ UNCHANGED link

LeaseNext ==
    \/ \E p \in Serving :
          \/ StartServing(p) \/ Beat(p) \/ StopServing(p) \/ Unregister(p)
          \/ Cut(p) \/ Heal(p) \/ TimeOut(p)
    \/ Lookup \/ Restart \/ Pass

LeaseSpec == LeaseInit /\ [][LeaseNext]_leaseVars

-----------------------------------------------------------------------------

\* "The lease outlasts a few missed beats, so a brief network hiccup does not
\* drop a peer off the map": a peer whose connection is not closed is found by
\* every lookup, whenever its network was away and whoever else registers.
ListedWhileConnected == \A p \in Serving : link[p] \in {"up", "cut"} => Leased(p)
=============================================================================
