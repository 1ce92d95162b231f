------------------------- MODULE WeaveBrokerProofs --------------------------
(* Theorems about the log and about WeaveBroker, for every number of       *)
(* processes, every policy and every set of faults.                        *)
EXTENDS WeaveBroker, FiniteSetTheorems, TLAPS

-----------------------------------------------------------------------------
(* The log: chains, and what is folded from them.                          *)

\* What replay folds: a grant's state without a secret.
LoggedState == [terms : Terms, revoked : BOOLEAN, uses : Nat, secret : {None}]

\* A grant entry is recorded with a grant's terms, and so on: the parts of an
\* event follow from its kind.
LEMMA EventParts ==
    ASSUME NEW e \in Event
    PROVE  /\ e.kind \in {"grant", "use", "revoke", "deny"}
           /\ e.kind = "grant" => e.grant \in GrantId /\ e.arg \in Terms
           /\ e.kind = "use" => e.grant \in GrantId /\ e.arg \in Access
           /\ e.kind = "revoke" => e.grant \in GrantId
BY DEF Event

\* audit::append: the chain's old entries keep their places.
LEMMA ExtendChain ==
    ASSUME NEW chain \in Seq(Entry), NEW n \in Nat, NEW e \in Event
    PROVE  /\ Extend(chain, n, e) \in Seq(Entry)
           /\ Len(Extend(chain, n, e)) = Len(chain) + 1
           /\ Extend(chain, n, e)[Len(chain) + 1].seq = n
           /\ Extend(chain, n, e)[Len(chain) + 1].event = e
           /\ \A i \in DOMAIN chain : Extend(chain, n, e)[i] = chain[i]
           /\ DOMAIN Extend(chain, n, e) = DOMAIN chain \cup {Len(chain) + 1}
<1> DEFINE entry == [seq |-> n, event |-> e]
<1>1. entry \in Entry
  BY DEF Entry
<1>2. /\ entry.seq = n
      /\ entry.event = e
  OBVIOUS
<1> HIDE DEF entry
<1>3. Extend(chain, n, e) = Append(chain, entry)
  BY DEF Extend, entry
<1>4. QED
  BY <1>1, <1>2, <1>3

\* The places of a chain.
LEMMA ChainDomain ==
    ASSUME NEW S, NEW chain \in Seq(S)
    PROVE  DOMAIN chain = 1 .. Len(chain) /\ Len(chain) \in Nat
OBVIOUS

\* The Grant entries of an extended chain.
LEMMA GrantedAtExtend ==
    ASSUME NEW chain \in Seq(Entry), NEW n \in Nat, NEW e \in Event,
           NEW g \in GrantId
    PROVE  GrantedAt(Extend(chain, n, e), g) =
             IF e.kind = "grant" /\ e.grant = g
             THEN GrantedAt(chain, g) \cup {Len(chain) + 1}
             ELSE GrantedAt(chain, g)
<1>1. \A i \in DOMAIN chain : Extend(chain, n, e)[i] = chain[i]
  BY ExtendChain, ZenonT(30)
<1>2. Extend(chain, n, e)[Len(chain) + 1].event = e
  BY ExtendChain, ZenonT(30)
<1>3. DOMAIN Extend(chain, n, e) = DOMAIN chain \cup {Len(chain) + 1}
  BY ExtendChain
<1>4. QED
  BY <1>1, <1>2, <1>3 DEF GrantedAt, Is

\* The entries of a grant since it was granted, in an extended chain: a Grant
\* entry starts over, any other adds itself or nothing.
LEMMA SinceGrantExtend ==
    ASSUME NEW chain \in Seq(Entry), NEW n \in Nat, NEW e \in Event,
           NEW g \in GrantId, NEW k, k # "grant"
    PROVE  SinceGrant(Extend(chain, n, e), g, k) =
             IF e.kind = "grant" /\ e.grant = g THEN {}
             ELSE IF e.kind = k /\ e.grant = g
                  THEN SinceGrant(chain, g, k) \cup {Len(chain) + 1}
                  ELSE SinceGrant(chain, g, k)
<1> DEFINE longer == Extend(chain, n, e)
<1>1. /\ \A i \in DOMAIN chain : longer[i] = chain[i]
      /\ longer[Len(chain) + 1].event = e
      /\ DOMAIN longer = DOMAIN chain \cup {Len(chain) + 1}
      /\ DOMAIN chain = 1 .. Len(chain)
      /\ Len(chain) \in Nat
  <2>1. \A i \in DOMAIN chain : longer[i] = chain[i]
    BY ExtendChain, ZenonT(30)
  <2>2. longer[Len(chain) + 1].event = e
    BY ExtendChain, ZenonT(30)
  <2>3. DOMAIN longer = DOMAIN chain \cup {Len(chain) + 1}
    BY ExtendChain
  <2>4. QED
    BY <2>1, <2>2, <2>3, ChainDomain
<1>2. GrantedAt(longer, g) =
             IF e.kind = "grant" /\ e.grant = g
             THEN GrantedAt(chain, g) \cup {Len(chain) + 1}
             ELSE GrantedAt(chain, g)
  BY ONLY GrantedAtExtend, chain \in Seq(Entry), n \in Nat, e \in Event,
          g \in GrantId
<1> HIDE DEF longer
<1>3. \A j \in GrantedAt(chain, g) : j \in 1 .. Len(chain)
  BY <1>1 DEF GrantedAt
<1>4. CASE e.kind = "grant" /\ e.grant = g
  <2>1. Len(chain) + 1 \in GrantedAt(longer, g)
    BY <1>2, <1>4
  <2>2. \A i \in SinceGrant(longer, g, k) :
           i \in DOMAIN longer /\ i > Len(chain) + 1
    BY <2>1, <1>1 DEF SinceGrant
  <2>3. SinceGrant(longer, g, k) = {}
    BY <2>2, <1>1
  <2>4. QED
    BY <2>3, <1>4 DEF longer
<1>5. CASE ~ (e.kind = "grant" /\ e.grant = g)
  <2>1. GrantedAt(longer, g) = GrantedAt(chain, g)
    BY <1>2, <1>5
  <2>2. \A j \in GrantedAt(chain, g) : j < Len(chain) + 1
    BY <1>1, <1>3
  <2>3. \A i \in DOMAIN chain : i # Len(chain) + 1
    BY <1>1
  <2>4. SinceGrant(longer, g, k) =
             IF e.kind = k /\ e.grant = g
             THEN SinceGrant(chain, g, k) \cup {Len(chain) + 1}
             ELSE SinceGrant(chain, g, k)
    BY <1>1, <2>1, <2>2, <2>3 DEF SinceGrant, Is
  <2>5. QED
    BY <2>4, <1>5 DEF longer
<1>6. QED
  BY <1>4, <1>5

\* The entries of a grant are finitely many, all of them places in the chain.
LEMMA SinceGrantFinite ==
    ASSUME NEW chain \in Seq(Entry), NEW g, NEW kind
    PROVE  /\ SinceGrant(chain, g, kind) \subseteq 1 .. Len(chain)
           /\ IsFiniteSet(SinceGrant(chain, g, kind))
           /\ Cardinality(SinceGrant(chain, g, kind)) \in Nat
<1>1. SinceGrant(chain, g, kind) \subseteq 1 .. Len(chain)
  BY DEF SinceGrant
<1>2. IsFiniteSet(1 .. Len(chain))
  BY FS_Interval
<1>3. QED
  BY <1>1, <1>2, FS_Subset, FS_CardinalityType

-----------------------------------------------------------------------------
(* Broker::replay.                                                         *)

\* Of some numbers one is the least.
LEMMA LeastNumber ==
    ASSUME NEW S, S \subseteq Nat, S # {}
    PROVE  \E m \in S : \A k \in S : m <= k
<1> DEFINE Less == OpToRel(<, Nat)
<1>1. IsWellFoundedOn(Less, Nat)
  BY NatLessThanWellFounded
<1>2. \A a, b \in Nat : a < b => <<a, b>> \in Less
  BY DEF OpToRel
<1> HIDE DEF Less
<1>3. PICK m \in S : \A k \in S : ~ (<<k, m>> \in Less)
  BY <1>1, WFMin
<1>4. ASSUME NEW k \in S
      PROVE  m <= k
  <2>1. k \in Nat /\ m \in Nat
    OBVIOUS
  <2>2. ~ (k < m)
    BY <1>2, <1>3, <2>1
  <2>3. QED
    BY <2>1, <2>2
<1>5. QED
  BY <1>4

\* Among some places of a chain one is the last.
LEMMA LastPlace ==
    ASSUME NEW n \in Nat, NEW S, S \subseteq 1 .. n, S # {}
    PROVE  \E i \in S : \A j \in S : j <= i
<1> DEFINE Bounds == {m \in Nat : \A j \in S : j <= m}
<1>1. n \in Bounds
  OBVIOUS
<1>2. PICK m \in Bounds : \A k \in Bounds : m <= k
  <2>1. Bounds \subseteq Nat /\ Bounds # {}
    BY <1>1
  <2> HIDE DEF Bounds
  <2>2. QED
    BY <2>1, LeastNumber
<1>3. m \in S
  <2> SUFFICES ASSUME m \notin S PROVE FALSE
    OBVIOUS
  <2>1. PICK j \in S : j <= m
    BY <1>2
  <2>2. m - 1 \in Bounds
    BY <1>2, <2>1
  <2>3. QED
    BY <2>2, <1>2
<1>4. QED
  BY <1>2, <1>3

\* The Grant entry a state is read from.
LEMMA LastGrantIn ==
    ASSUME NEW chain \in Seq(Entry), NEW g \in GrantId,
           GrantedAt(chain, g) # {}
    PROVE  /\ LastGrant(chain, g) \in GrantedAt(chain, g)
           /\ \A j \in GrantedAt(chain, g) : j <= LastGrant(chain, g)
           /\ chain[LastGrant(chain, g)].event.arg \in Terms
<1>1. GrantedAt(chain, g) \subseteq 1 .. Len(chain) /\ Len(chain) \in Nat
  BY ChainDomain DEF GrantedAt
<1>2. \E i \in GrantedAt(chain, g) : \A j \in GrantedAt(chain, g) : j <= i
  BY <1>1, LastPlace
<1>3. /\ LastGrant(chain, g) \in GrantedAt(chain, g)
      /\ \A j \in GrantedAt(chain, g) : j <= LastGrant(chain, g)
  BY <1>2 DEF LastGrant
<1>4. LastGrant(chain, g) \in DOMAIN chain
      /\ chain[LastGrant(chain, g)].event.kind = "grant"
  BY <1>3 DEF GrantedAt, Is
<1>5. chain[LastGrant(chain, g)].event \in Event
  <2>1. \A i \in DOMAIN chain : chain[i] \in Entry
    OBVIOUS
  <2>2. QED
    BY <1>4, <2>1 DEF Entry
<1>6. QED
  BY <1>3, <1>4, <1>5, EventParts

\* What replay folds has no secret, and its budget and terms are the log's.
LEMMA ReplayType ==
    ASSUME NEW chain \in Seq(Entry), NEW g \in GrantId
    PROVE  Replay(chain)[g] \in LoggedState \cup {None}
<1>1. CASE GrantedAt(chain, g) = {}
  BY <1>1 DEF Replay
<1>2. CASE GrantedAt(chain, g) # {}
  <2>1. chain[LastGrant(chain, g)].event.arg \in Terms
    BY <1>2, LastGrantIn
  <2>2. Cardinality(SinceGrant(chain, g, "use")) \in Nat
    BY SinceGrantFinite
  <2>3. QED
    BY <1>2, <2>1, <2>2 DEF Replay, LoggedState
<1>3. QED
  BY <1>1, <1>2

\* A state is there exactly if it was granted.
LEMMA ReplayNone ==
    ASSUME NEW chain \in Seq(Entry), NEW g \in GrantId
    PROVE  Replay(chain)[g] = None <=> GrantedAt(chain, g) = {}
<1>1. None \notin GrantState
  BY WeaveLogAssumption
<1>2. LoggedState \subseteq GrantState
  BY DEF LoggedState, GrantState
<1>3. CASE GrantedAt(chain, g) = {}
  BY <1>3 DEF Replay
<1>4. CASE GrantedAt(chain, g) # {}
  <2>1. chain[LastGrant(chain, g)].event.arg \in Terms
    BY <1>4, LastGrantIn
  <2>2. Cardinality(SinceGrant(chain, g, "use")) \in Nat
    BY SinceGrantFinite
  <2>3. Replay(chain)[g] \in LoggedState
    BY <1>4, <2>1, <2>2 DEF Replay, LoggedState
  <2>4. QED
    BY <1>1, <1>2, <1>4, <2>3
<1>5. QED
  BY <1>3, <1>4

\* The grant a longer chain's state is read from.
LEMMA LastGrantExtend ==
    ASSUME NEW chain \in Seq(Entry), NEW n \in Nat, NEW e \in Event,
           NEW g \in GrantId
    PROVE  /\ e.kind = "grant" /\ e.grant = g
                => LastGrant(Extend(chain, n, e), g) = Len(chain) + 1
           /\ ~ (e.kind = "grant" /\ e.grant = g)
                => LastGrant(Extend(chain, n, e), g) = LastGrant(chain, g)
<1> DEFINE longer == Extend(chain, n, e)
<1>1. GrantedAt(longer, g) =
             IF e.kind = "grant" /\ e.grant = g
             THEN GrantedAt(chain, g) \cup {Len(chain) + 1}
             ELSE GrantedAt(chain, g)
  BY ONLY GrantedAtExtend, chain \in Seq(Entry), n \in Nat, e \in Event,
          g \in GrantId
<1>2. longer \in Seq(Entry)
  BY ExtendChain
<1> HIDE DEF longer
<1>3. ASSUME e.kind = "grant" /\ e.grant = g
      PROVE  LastGrant(longer, g) = Len(chain) + 1
  <2>1. GrantedAt(longer, g) = GrantedAt(chain, g) \cup {Len(chain) + 1}
    BY <1>1, <1>3
  <2>2. GrantedAt(chain, g) \subseteq 1 .. Len(chain) /\ Len(chain) \in Nat
    BY ChainDomain DEF GrantedAt
  <2>3. LastGrant(longer, g) \in GrantedAt(longer, g)
    BY <1>2, <2>1, LastGrantIn
  <2>4. \A j \in GrantedAt(longer, g) : j <= LastGrant(longer, g)
    BY <1>2, <2>1, LastGrantIn
  <2>5. QED
    BY <2>1, <2>2, <2>3, <2>4
<1>4. ASSUME ~ (e.kind = "grant" /\ e.grant = g)
      PROVE  LastGrant(longer, g) = LastGrant(chain, g)
  <2>1. GrantedAt(longer, g) = GrantedAt(chain, g)
    BY <1>1, <1>4
  <2>2. QED
    BY <2>1 DEF LastGrant
<1>5. QED
  BY <1>3, <1>4 DEF longer

\* replay is a fold: one entry more is one more run of the loop's body.
LEMMA ReplayExtend ==
    ASSUME NEW chain \in Seq(Entry), NEW n \in Nat, NEW e \in Event,
           NEW g \in GrantId
    PROVE  Replay(Extend(chain, n, e))[g] = Apply(Replay(chain)[g], g, e)
<1> DEFINE longer == Extend(chain, n, e)
           Old(k) == SinceGrant(chain, g, k)
           New(k) == SinceGrant(longer, g, k)
           last == LastGrant(chain, g)
           severed == Old("revoke") # {}
           cut == New("revoke") # {}
<1>1. /\ \A i \in DOMAIN chain : longer[i] = chain[i]
      /\ longer[Len(chain) + 1].event = e
      /\ longer \in Seq(Entry)
  <2>1. \A i \in DOMAIN chain : longer[i] = chain[i]
    BY ExtendChain, ZenonT(30)
  <2>2. longer[Len(chain) + 1].event = e
    BY ExtendChain, ZenonT(30)
  <2>3. longer \in Seq(Entry)
    BY ExtendChain
  <2>4. QED
    BY <2>1, <2>2, <2>3
<1>2. GrantedAt(longer, g) =
             IF e.kind = "grant" /\ e.grant = g
             THEN GrantedAt(chain, g) \cup {Len(chain) + 1}
             ELSE GrantedAt(chain, g)
  BY ONLY GrantedAtExtend, chain \in Seq(Entry), n \in Nat, e \in Event,
          g \in GrantId
<1>3. \A k : k # "grant" => New(k) =
             IF e.kind = "grant" /\ e.grant = g THEN {}
             ELSE IF e.kind = k /\ e.grant = g
                  THEN Old(k) \cup {Len(chain) + 1}
                  ELSE Old(k)
  BY ONLY SinceGrantExtend, chain \in Seq(Entry), n \in Nat, e \in Event,
          g \in GrantId
<1>4. /\ e.kind = "grant" /\ e.grant = g
           => LastGrant(longer, g) = Len(chain) + 1
      /\ ~ (e.kind = "grant" /\ e.grant = g)
           => LastGrant(longer, g) = last
  BY LastGrantExtend
<1>5. \A k : /\ IsFiniteSet(Old(k))
             /\ Len(chain) + 1 \notin Old(k)
             /\ Cardinality(Old(k) \cup {Len(chain) + 1})
                  = Cardinality(Old(k)) + 1
  <2> TAKE k
  <2>1. Old(k) \subseteq 1 .. Len(chain)
    BY SinceGrantFinite
  <2>2. IsFiniteSet(Old(k))
    BY SinceGrantFinite
  <2>3. Len(chain) + 1 \notin Old(k)
    BY <2>1, ChainDomain
  <2>4. QED
    BY <2>2, <2>3, FS_AddElement
<1>6. GrantedAt(chain, g) # {} => last \in DOMAIN chain
  BY LastGrantIn DEF GrantedAt
<1>7. Replay(chain)[g] =
         IF GrantedAt(chain, g) = {} THEN None
         ELSE [terms |-> chain[last].event.arg, revoked |-> severed,
               uses |-> Cardinality(Old("use")), secret |-> None]
  BY DEF Replay
<1>8. Replay(longer)[g] =
         IF GrantedAt(longer, g) = {} THEN None
         ELSE [terms |-> longer[LastGrant(longer, g)].event.arg,
               revoked |-> cut,
               uses |-> Cardinality(New("use")), secret |-> None]
  BY DEF Replay
<1>9. None \notin GrantState
  BY WeaveLogAssumption
<1>10. GrantedAt(chain, g) # {} => Replay(chain)[g] # None
  BY ReplayNone
<1>11. e.kind \in {"grant", "use", "revoke", "deny"}
  BY EventParts
<1>12. "use" # "grant" /\ "revoke" # "grant" /\ "use" # "revoke"
  OBVIOUS
<1> HIDE DEF longer, Old, New, last, severed, cut
<1>13. CASE e.grant # g
  <2>1. GrantedAt(longer, g) = GrantedAt(chain, g)
    BY <1>2, <1>13
  <2>2. New("use") = Old("use") /\ New("revoke") = Old("revoke")
    BY <1>3, <1>12, <1>13
  <2>3. LastGrant(longer, g) = last
    BY <1>4, <1>13
  <2>4. Replay(longer)[g] = Replay(chain)[g]
    BY <1>1, <1>6, <1>7, <1>8, <2>1, <2>2, <2>3 DEF severed, cut
  <2>5. Apply(Replay(chain)[g], g, e) = Replay(chain)[g]
    BY <1>13 DEF Apply
  <2>6. QED
    BY <2>4, <2>5 DEF longer
<1>14. CASE e.grant = g /\ e.kind = "grant"
  <2>1. GrantedAt(longer, g) # {}
    BY <1>2, <1>14
  <2>2. New("use") = {} /\ New("revoke") = {}
    BY <1>3, <1>12, <1>14
  <2>3. LastGrant(longer, g) = Len(chain) + 1
    BY <1>4, <1>14
  <2>4. Cardinality(New("use")) = 0
    BY <2>2, FS_EmptySet
  <2>5. longer[LastGrant(longer, g)].event = e
    BY <1>1, <2>3
  <2>6. Replay(longer)[g] = [terms |-> e.arg, revoked |-> FALSE, uses |-> 0,
                             secret |-> None]
    BY <1>8, <2>1, <2>2, <2>4, <2>5 DEF cut
  <2>7. Apply(Replay(chain)[g], g, e)
          = [terms |-> e.arg, revoked |-> FALSE, uses |-> 0, secret |-> None]
    BY <1>14 DEF Apply
  <2>8. QED
    BY <2>6, <2>7 DEF longer
<1>15. CASE e.grant = g /\ e.kind # "grant" /\ GrantedAt(chain, g) = {}
  <2>1. GrantedAt(longer, g) = {}
    BY <1>2, <1>15
  <2>2. Replay(longer)[g] = None /\ Replay(chain)[g] = None
    BY <1>7, <1>8, <1>15, <2>1
  <2>3. Apply(None, g, e) = None
    BY <1>15 DEF Apply
  <2>4. QED
    BY <2>2, <2>3 DEF longer
<1>16. CASE e.grant = g /\ e.kind # "grant" /\ GrantedAt(chain, g) # {}
  <2>1. GrantedAt(longer, g) # {} /\ LastGrant(longer, g) = last
    BY <1>2, <1>4, <1>16
  <2>2. longer[last] = chain[last]
    BY <1>1, <1>6, <1>16
  <2>3. CASE e.kind = "use"
    <3>1. New("use") = Old("use") \cup {Len(chain) + 1}
      BY <1>3, <1>12, <1>16, <2>3
    <3>2. New("revoke") = Old("revoke")
      BY <1>3, <1>12, <1>16, <2>3
    <3>3. Cardinality(New("use")) = Cardinality(Old("use")) + 1
      BY <1>5, <3>1
    <3>4. Apply(Replay(chain)[g], g, e)
            = [Replay(chain)[g] EXCEPT !.uses = @ + 1]
      BY <1>10, <1>16, <2>3 DEF Apply
    <3>5. Replay(longer)[g] = [Replay(chain)[g] EXCEPT !.uses = @ + 1]
      BY <1>7, <1>8, <1>16, <2>1, <2>2, <3>2, <3>3 DEF severed, cut
    <3>6. QED
      BY <3>4, <3>5 DEF longer
  <2>4. CASE e.kind = "revoke"
    <3>1. New("revoke") = Old("revoke") \cup {Len(chain) + 1}
      BY <1>3, <1>12, <1>16, <2>4
    <3>2. New("use") = Old("use")
      BY <1>3, <1>12, <1>16, <2>4
    <3>3. cut = TRUE
      BY <3>1 DEF cut
    <3>4. Apply(Replay(chain)[g], g, e)
            = [Replay(chain)[g] EXCEPT !.revoked = TRUE]
      BY <1>10, <1>16, <2>4 DEF Apply
    <3>5. Replay(longer)[g] =
            [terms |-> chain[last].event.arg, revoked |-> TRUE,
             uses |-> Cardinality(Old("use")), secret |-> None]
      BY <1>8, <2>1, <2>2, <3>2, <3>3
    <3>6. [Replay(chain)[g] EXCEPT !.revoked = TRUE] =
            [terms |-> chain[last].event.arg, revoked |-> TRUE,
             uses |-> Cardinality(Old("use")), secret |-> None]
      <4>1. Replay(chain)[g] =
              [terms |-> chain[last].event.arg, revoked |-> severed,
               uses |-> Cardinality(Old("use")), secret |-> None]
        BY <1>7, <1>16
      <4>2. PICK v : v = TRUE
        OBVIOUS
      <4>3. [Replay(chain)[g] EXCEPT !.revoked = v] =
              [terms |-> chain[last].event.arg, revoked |-> v,
               uses |-> Cardinality(Old("use")), secret |-> None]
        BY <4>1
      <4>4. QED
        BY <4>2, <4>3, Zenon
    <3>7. QED
      BY <3>4, <3>5, <3>6 DEF longer
  <2>5. CASE e.kind = "deny"
    <3>1. New("use") = Old("use") /\ New("revoke") = Old("revoke")
      BY <1>3, <1>12, <1>16, <2>5
    <3>2. Apply(Replay(chain)[g], g, e) = Replay(chain)[g]
      BY <2>5 DEF Apply
    <3>3. Replay(longer)[g] = Replay(chain)[g]
      BY <1>7, <1>8, <1>16, <2>1, <2>2, <3>1 DEF severed, cut
    <3>4. QED
      BY <3>2, <3>3 DEF longer
  <2>6. QED
    BY <1>11, <1>16, <2>3, <2>4, <2>5
<1>17. QED
  BY <1>13, <1>14, <1>15, <1>16

\* An empty log grants nothing.
LEMMA ReplayEmpty == Replay(<< >>) = EmptyTable
<1>1. \A g \in GrantId : GrantedAt(<< >>, g) = {}
  BY DEF GrantedAt
<1>2. QED
  BY <1>1 DEF Replay, EmptyTable

-----------------------------------------------------------------------------
(* Soundness and continuity of a chain that grows by one entry.            *)

\* What stands before an entry does not change when the chain grows.
LEMMA BeforeExtend ==
    ASSUME NEW chain \in Seq(Entry), NEW n \in Nat, NEW e \in Event
    PROVE  /\ \A i \in DOMAIN chain :
                  Before(Extend(chain, n, e), i) = Before(chain, i)
           /\ Before(Extend(chain, n, e), Len(chain) + 1) = chain
<1> DEFINE longer == Extend(chain, n, e)
<1>1. longer \in Seq(Entry)
  BY ExtendChain
<1>2. Len(longer) = Len(chain) + 1
  BY ExtendChain
<1>3. \A i \in DOMAIN chain : longer[i] = chain[i]
  BY ExtendChain, ZenonT(30)
<1> HIDE DEF longer
<1>4. ASSUME NEW i \in DOMAIN chain
      PROVE  Before(longer, i) = Before(chain, i)
  <2>1. i \in 1 .. Len(chain)
    OBVIOUS
  <2>2. \A j \in 1 .. (i - 1) : longer[j] = chain[j]
    BY <1>3, <2>1
  <2>3. QED
    BY <1>1, <1>2, <2>1, <2>2 DEF Before
<1>5. Before(longer, Len(chain) + 1) = chain
  BY <1>1, <1>2, <1>3 DEF Before
<1>6. QED
  BY <1>4, <1>5 DEF longer

\* A use that the log allows keeps the log sound.
LEMMA SoundExtend ==
    ASSUME NEW chain \in Seq(Entry), NEW n \in Nat, NEW e \in Event,
           Sound(chain),
           UseAllowed(chain, [seq |-> n, event |-> e])
    PROVE  Sound(Extend(chain, n, e))
<1> DEFINE longer == Extend(chain, n, e)
<1>1. \A i \in DOMAIN chain : longer[i] = chain[i]
  BY ExtendChain, ZenonT(30)
<1>2. longer[Len(chain) + 1].event = e
  BY ExtendChain, ZenonT(30)
<1>3. DOMAIN longer = DOMAIN chain \cup {Len(chain) + 1}
  BY ExtendChain
<1>4. \A i \in DOMAIN chain : Before(longer, i) = Before(chain, i)
  BY BeforeExtend
<1>5. Before(longer, Len(chain) + 1) = chain
  BY BeforeExtend
<1> HIDE DEF longer
<1>6. ASSUME NEW i \in DOMAIN chain
      PROVE  UseAllowed(Before(longer, i), longer[i])
  BY <1>1, <1>4 DEF Sound
<1>7. UseAllowed(chain, longer[Len(chain) + 1])
  BY <1>2 DEF UseAllowed
<1>8. QED
  BY <1>3, <1>5, <1>6, <1>7 DEF Sound, longer

\* An entry that carries its own position keeps the positions contiguous.
LEMMA ContiguousExtend ==
    ASSUME NEW chain \in Seq(Entry), NEW n \in Nat, NEW e \in Event,
           n = Len(chain), Contiguous(chain)
    PROVE  Contiguous(Extend(chain, n, e))
<1> DEFINE longer == Extend(chain, n, e)
<1>1. \A i \in DOMAIN chain : longer[i] = chain[i]
  BY ExtendChain, ZenonT(30)
<1>2. longer[Len(chain) + 1].seq = n
  BY ONLY ExtendChain, chain \in Seq(Entry), n \in Nat, e \in Event
<1>3. DOMAIN longer = DOMAIN chain \cup {Len(chain) + 1}
  BY ExtendChain
<1> HIDE DEF longer
<1>4. ASSUME NEW i \in DOMAIN longer
      PROVE  longer[i].seq + 1 = i
  BY <1>1, <1>2, <1>3 DEF Contiguous
<1>5. QED
  BY <1>4 DEF Contiguous, longer

\* The empty chain is both.
LEMMA EmptyChain ==
    /\ << >> \in Seq(Entry)
    /\ Len(<< >>) = 0
    /\ Sound(<< >>)
    /\ Contiguous(<< >>)
BY DEF Sound, Contiguous

-----------------------------------------------------------------------------
(* The brokers.                                                            *)

\* A table folded from a chain.
LEMMA ReplayTable ==
    ASSUME NEW chain \in Seq(Entry)
    PROVE  Replay(chain) \in [GrantId -> GrantState \cup {None}]
<1>1. LoggedState \subseteq GrantState
  BY DEF LoggedState, GrantState
<1>2. \A g \in GrantId : Replay(chain)[g] \in GrantState \cup {None}
  BY <1>1, ReplayType
<1>3. Replay(chain) = [g \in GrantId |-> Replay(chain)[g]]
  BY DEF Replay
<1>4. QED
  BY <1>2, <1>3

\* Policy::decide answers with a grant's terms or denies.
LEMMA DecideType ==
    ASSUME NEW p \in Principal, NEW a \in Asks
    PROVE  Decide(p, a) \in Terms \cup {None}
<1> DEFINE hits == {i \in DOMAIN Policy.rules :
                       Matches(Policy.rules[i], p, a)}
           first == CHOOSE i \in hits : \A j \in hits : i <= j
           TermsFor(expires, maxUses) ==
             [principal |-> p, resource |-> a.resource, rights |-> a.rights,
              expires |-> expires, maxUses |-> maxUses]
<1>1. a \in Access
  BY WeaveBrokerAssumption
<1>2. \A x, u \in Nat \cup {None} : TermsFor(x, u) \in Terms
  BY <1>1 DEF Access, Terms
<1>3. Decide(p, a) = IF Policy.allowAll THEN TermsFor(None, None)
                     ELSE IF hits = {} THEN None
                     ELSE TermsFor(Policy.rules[first].expires,
                                   Policy.rules[first].maxUses)
  BY Zenon DEF Decide
<1>4. hits # {} => first \in hits
  <2>1. Policy.rules \in Seq(Rule)
    BY WeaveBrokerAssumption DEF PolicyType
  <2>2. hits \subseteq Nat
    BY <2>1
  <2>3. hits # {} => \E i \in hits : \A j \in hits : i <= j
    BY <2>2, LeastNumber
  <2>4. QED
    BY <2>3
<1>5. hits \subseteq DOMAIN Policy.rules
  OBVIOUS
<1> HIDE DEF hits, first, TermsFor
<1>6. hits # {} => Policy.rules[first] \in Rule
  BY <1>4, <1>5, WeaveBrokerAssumption DEF PolicyType
<1>7. hits # {} => /\ Policy.rules[first].expires \in Nat \cup {None}
                   /\ Policy.rules[first].maxUses \in Nat \cup {None}
  BY <1>6 DEF Rule
<1>8. QED
  BY <1>2, <1>3, <1>7

-----------------------------------------------------------------------------
(* Type correctness.                                                       *)

LEMMA EventTypes ==
    /\ DenyEvent \in Event
    /\ \A g \in GrantId : RevokeEvent(g) \in Event
    /\ \A g \in GrantId, terms \in Terms : GrantEvent(g, terms) \in Event
    /\ \A g \in GrantId, a \in Access : UseEvent(g, a) \in Event
BY DEF Event, DenyEvent, RevokeEvent, GrantEvent, UseEvent

\* What Broker::log is entered with.
LEMMA LogType ==
    ASSUME TypeOK, NEW b \in Broker, NEW e \in Event, NEW m \in Nat,
           Log(b, e, m)
    PROVE  op' \in [Broker -> Call \cup {None}]
<1>1. [event |-> e, mint |-> m, stage |-> "put", place |-> 0] \in Call
  BY DEF Call
<1>2. QED
  BY <1>1 DEF Log, TypeOK

\* It has its entry yet to put.
LEMMA LogPuts ==
    ASSUME TypeOK, NEW b \in Broker, NEW e, NEW m, Log(b, e, m)
    PROVE  ~ At(b, "answer")'
BY DEF Log, TypeOK, At

LEMMA GrantType ==
    ASSUME TypeOK, NEW b \in Broker, NEW terms \in Terms, Grant(b, terms)
    PROVE  TypeOK'
<1>1. mints + 1 \in Nat
  BY DEF TypeOK
<1>2. PICK g \in GrantId \ drawn : /\ drawn' = drawn \cup {g}
                                   /\ Log(b, GrantEvent(g, terms), mints + 1)
  BY DEF Grant
<1>3. op' \in [Broker -> Call \cup {None}]
  BY <1>1, <1>2, EventTypes, LogType
<1>4. QED
  BY <1>1, <1>2, <1>3 DEF TypeOK, Grant, memory, told

LEMMA OperateType ==
    ASSUME TypeOK, NEW b \in Broker, Operate(b)
    PROVE  TypeOK'
<1>1. ASSUME NEW terms \in Offers, Grant(b, terms)
      PROVE  TypeOK'
  BY <1>1, GrantType, WeaveBrokerAssumption
<1>2. ASSUME NEW p \in Principal, NEW a \in Asks, Request(b, p, a)
      PROVE  TypeOK'
  <2>1. CASE Decide(p, a) # None /\ Grant(b, Decide(p, a))
    BY <2>1, DecideType, GrantType
  <2>2. CASE Log(b, DenyEvent, 0)
               /\ UNCHANGED <<ref, memory, caps, running, draws, now, logged, told>>
    <3>1. op' \in [Broker -> Call \cup {None}]
      BY <2>2, EventTypes, LogType
    <3>2. QED
      BY <2>2, <3>1 DEF TypeOK, memory, draws, told
  <2>3. QED
    BY <1>2, <2>1, <2>2 DEF Request
<1>3. ASSUME NEW cap \in caps[b], NEW a \in Asks, AccessCap(b, cap, a)
      PROVE  TypeOK'
  <2>1. cap.grant \in GrantId /\ a \in Access
    BY WeaveBrokerAssumption DEF TypeOK, Capability
  <2>2. PICK e \in Event : Log(b, e, 0)
    BY <1>3, <2>1, EventTypes DEF AccessCap
  <2>3. op' \in [Broker -> Call \cup {None}]
    BY <2>2, LogType
  <2>4. table' \in [Broker -> [GrantId -> GrantState \cup {None}]]
    <3>1. CASE UNCHANGED table
      BY <3>1 DEF TypeOK
    <3>2. CASE /\ Check(b, cap, a)
               /\ table' = [table EXCEPT ![b][cap.grant].uses = @ + 1]
      <4>1. table[b][cap.grant] \in GrantState
        BY <2>1, <3>2 DEF Check, TypeOK
      <4>2. [table[b][cap.grant] EXCEPT !.uses = @ + 1] \in GrantState
        BY <4>1 DEF GrantState
      <4>3. QED
        BY <2>1, <3>2, <4>2 DEF TypeOK
    <3>3. QED
      BY <1>3, <3>1, <3>2 DEF AccessCap
  <2>5. QED
    BY <1>3, <2>3, <2>4 DEF AccessCap, TypeOK, draws, told
<1>4. ASSUME NEW g \in GrantId, Revoke(b, g)
      PROVE  TypeOK'
  <2>1. CASE UNCHANGED <<table, op>> /\ revokedOk' = revokedOk \cup {g}
    BY <1>4, <2>1 DEF Revoke, TypeOK, draws
  <2>2. CASE /\ table' = [table EXCEPT ![b][g].revoked = TRUE]
             /\ Log(b, RevokeEvent(g), 0)
             /\ UNCHANGED revokedOk
    <3>1. op' \in [Broker -> Call \cup {None}]
      BY <2>2, EventTypes, LogType
    <3>2. table[b][g] \in GrantState
      BY <1>4 DEF Revoke, TypeOK
    <3>3. [table[b][g] EXCEPT !.revoked = TRUE] \in GrantState
      BY <3>2 DEF GrantState
    <3>4. table' \in [Broker -> [GrantId -> GrantState \cup {None}]]
      BY <2>2, <3>3 DEF TypeOK
    <3>5. QED
      BY <1>4, <2>2, <3>1, <3>4 DEF Revoke, TypeOK, draws
  <2>3. QED
    BY <1>4, <2>1, <2>2 DEF Revoke
<1>5. ASSUME NEW g \in GrantId, Reissue(b, g)
      PROVE  TypeOK'
  <2>1. mints + 1 \in Nat
    BY DEF TypeOK
  <2>2. table[b][g] \in GrantState
    BY <1>5 DEF Reissue, TypeOK
  <2>3. [table[b][g] EXCEPT !.secret = mints + 1] \in GrantState
    BY <2>1, <2>2 DEF GrantState
  <2>4. table' \in [Broker -> [GrantId -> GrantState \cup {None}]]
    BY <1>5, <2>3 DEF Reissue, TypeOK
  <2>5. [grant |-> g, secret |-> mints + 1] \in Capability
    BY <2>1 DEF Capability
  <2>6. caps' \in [Broker -> SUBSET Capability]
    BY <1>5, <2>5 DEF Reissue, TypeOK
  <2>7. QED
    BY <1>5, <2>1, <2>4, <2>6 DEF Reissue, TypeOK, told
<1>6. QED
  BY <1>1, <1>2, <1>3, <1>4, <1>5 DEF Operate

\* The call in flight of a process that is in one.
LEMMA CallType ==
    ASSUME TypeOK, NEW b \in Broker, op[b] # None
    PROVE  /\ op[b] \in Call
           /\ op[b].event \in Event
           /\ op[b].mint \in Nat
           /\ op[b].place \in Nat
BY DEF TypeOK, Call

\* A call that goes on is still in flight, with the event it was made for.
LEMMA CallGoesOn ==
    ASSUME TypeOK, NEW b \in Broker, StartRefWrite(b) \/ WriteRef(b)
    PROVE  /\ op' \in [Broker -> Call \cup {None}]
           /\ op[b] # None /\ op'[b] # None
           /\ op'[b].event = op[b].event
           /\ ~ At(b, "answer")
           /\ StartRefWrite(b) => Writing(b)'
           /\ WriteRef(b) => /\ At(b, "answer")'
                             /\ op'[b].place = Len(logged) + 1
           /\ \A c \in Broker \ {b} : op'[c] = op[c]
<1>1. op[b] # None /\ op[b] \in Call /\ op[b].stage # "answer"
  BY CallType DEF StartRefWrite, WriteRef, Writing, At
<1>2. Len(logged) + 1 \in Nat
  BY DEF TypeOK
<1>3. PICK new \in Call :
         /\ op' = [op EXCEPT ![b] = new]
         /\ new.event = op[b].event
         /\ StartRefWrite(b) => new.stage = "write"
         /\ WriteRef(b) => new.stage = "answer" /\ new.place = Len(logged) + 1
  <2>1. CASE StartRefWrite(b)
    <3> DEFINE new == [op[b] EXCEPT !.stage = "write"]
    <3>1. op' = [op EXCEPT ![b] = new]
      BY <2>1 DEF StartRefWrite
    <3>2. new \in Call /\ new.event = op[b].event /\ new.stage = "write"
      BY <1>1 DEF Call
    <3>3. ~ WriteRef(b)
      BY <2>1 DEF StartRefWrite, WriteRef, Writing, At
    <3>4. QED
      BY <3>1, <3>2, <3>3
  <2>2. CASE WriteRef(b)
    <3> DEFINE new == [op[b] EXCEPT !.stage = "answer", !.place = Len(logged) + 1]
    <3>1. op' = [op EXCEPT ![b] = new]
      BY <2>2 DEF WriteRef
    <3>2. /\ new \in Call /\ new.event = op[b].event
          /\ new.stage = "answer" /\ new.place = Len(logged) + 1
      BY <1>1, <1>2 DEF Call
    <3>3. ~ StartRefWrite(b)
      BY <2>2 DEF StartRefWrite, WriteRef, Writing, At
    <3>4. QED
      BY <3>1, <3>2, <3>3
  <2>3. QED
    BY <2>1, <2>2
<1>4. op'[b] = new /\ new # None
  BY <1>3, WeaveBrokerAssumption DEF TypeOK
<1>5. op' \in [Broker -> Call \cup {None}] /\ \A c \in Broker \ {b} : op'[c] = op[c]
  BY <1>3 DEF TypeOK
<1>6. QED
  BY <1>1, <1>3, <1>4, <1>5 DEF At, Writing

LEMMA LogStepType ==
    ASSUME TypeOK, NEW b \in Broker, LogStep(b)
    PROVE  TypeOK'
<1>1. CASE AppendFails(b)
  BY <1>1 DEF AppendFails, TypeOK, memory, draws, told
<1>2. CASE StartRefWrite(b)
  <2>1. op' \in [Broker -> Call \cup {None}]
    BY <1>2, CallGoesOn
  <2>2. << >> \in Seq(Entry)
    OBVIOUS
  <2>3. QED
    BY <1>2, <2>1, <2>2 DEF StartRefWrite, TypeOK, memory, draws, told
<1>3. CASE RefWriteFails(b)
  BY <1>3 DEF RefWriteFails, TypeOK, memory, draws, told
<1>4. CASE WriteRef(b)
  <2> DEFINE e == op[b].event
             chain == Extend(head[b], seq[b], e)
             entry == [terms |-> e.arg, revoked |-> FALSE, uses |-> 0,
                       secret |-> op[b].mint]
  <2>1. e \in Event /\ op[b].mint \in Nat
    BY <1>4, CallGoesOn, CallType
  <2>2. head[b] \in Seq(Entry) /\ seq[b] \in Nat
    BY DEF TypeOK
  <2>3. chain \in Seq(Entry) /\ Len(chain) = Len(head[b]) + 1
    <3>1. chain \in Seq(Entry)
      BY <2>1, <2>2, ExtendChain
    <3>2. \A c \in Seq(Entry), n \in Nat, x \in Event :
             Len(Extend(c, n, x)) = Len(c) + 1
      BY ExtendChain
    <3>3. QED
      BY <2>1, <2>2, <3>1, <3>2
  <2>4. chain[Len(chain)] \in Entry
    <3>1. ASSUME NEW c \in Seq(Entry), NEW n \in Nat, Len(c) = n + 1
          PROVE  c[Len(c)] \in Entry
      BY ONLY <3>1, c \in Seq(Entry), n \in Nat
    <3>2. Len(head[b]) \in Nat
      BY <2>2
    <3>3. QED
      BY <2>3, <3>1, <3>2
  <2>5. e.kind = "grant" => entry \in GrantState /\ e.grant \in GrantId
    BY <2>1, EventParts DEF GrantState
  <2>6. /\ ref' = chain
        /\ head' = [head EXCEPT ![b] = chain]
        /\ logged' = Append(logged, chain[Len(chain)])
        /\ table' = IF e.kind = "grant" THEN [table EXCEPT ![b][e.grant] = entry]
                                       ELSE table
        /\ seq' = [seq EXCEPT ![b] = @ + 1]
        /\ UNCHANGED <<caps, running, draws, now, told>>
    BY <1>4 DEF WriteRef
  <2> HIDE DEF e, chain, entry
  <2>7. ref' \in Seq(Entry) /\ head' \in [Broker -> Seq(Entry)]
        /\ logged' \in Seq(Entry)
    BY <2>3, <2>4, <2>6 DEF TypeOK
  <2>8. table' \in [Broker -> [GrantId -> GrantState \cup {None}]]
    <3>1. CASE e.kind = "grant"
      <4> DEFINE g == e.grant
      <4>1. g \in GrantId /\ entry \in GrantState
        BY <2>5, <3>1
      <4>2. table' = [table EXCEPT ![b][g] = entry]
        BY <2>6, <3>1
      <4> HIDE DEF g
      <4>3. QED
        BY <4>1, <4>2 DEF TypeOK
    <3>2. CASE e.kind # "grant"
      BY <2>6, <3>2 DEF TypeOK
    <3>3. QED
      BY <3>1, <3>2
  <2>9. op' \in [Broker -> Call \cup {None}]
    BY <1>4, CallGoesOn
  <2>10. seq' \in [Broker -> Nat]
    BY <2>2, <2>6 DEF TypeOK
  <2>11. QED
    BY <2>6, <2>7, <2>8, <2>9, <2>10 DEF TypeOK, draws, told
<1>5. CASE Answer(b)
  <2> DEFINE e == op[b].event
             cap == [grant |-> e.grant, secret |-> op[b].mint]
  <2>1. e \in Event /\ op[b].mint \in Nat /\ op[b].place \in Nat
    BY <1>5, CallType DEF Answer, At
  <2>2. /\ e.kind = "grant" => cap \in Capability
        /\ e.kind = "revoke" => e.grant \in GrantId
    BY <2>1, EventParts DEF Capability
  <2>3. /\ caps' = IF e.kind = "grant" THEN [caps EXCEPT ![b] = @ \cup {cap}]
                                      ELSE caps
        /\ revokedOk' = IF e.kind = "revoke" THEN revokedOk \cup {e.grant}
                                             ELSE revokedOk
        /\ answered' = answered \cup {op[b].place}
        /\ op' = [op EXCEPT ![b] = None]
        /\ UNCHANGED <<ref, memory, running, draws, now, logged>>
    BY <1>5 DEF Answer
  <2> HIDE DEF e, cap
  <2>4. caps' \in [Broker -> SUBSET Capability]
    <3>1. CASE e.kind = "grant"
      BY <2>2, <2>3, <3>1 DEF TypeOK
    <3>2. CASE e.kind # "grant"
      BY <2>3, <3>2 DEF TypeOK
    <3>3. QED
      BY <3>1, <3>2
  <2>5. revokedOk' \subseteq GrantId
    BY <2>2, <2>3 DEF TypeOK
  <2>6. answered' \subseteq Nat /\ op' \in [Broker -> Call \cup {None}]
    BY <2>1, <2>3 DEF TypeOK
  <2>7. QED
    BY <2>3, <2>4, <2>5, <2>6 DEF TypeOK, memory, draws
<1>6. QED
  BY <1>1, <1>2, <1>3, <1>4, <1>5 DEF LogStep

\* Memory rebuilt from a chain of the store.
LEMMA RebuildType ==
    ASSUME TypeOK, NEW b \in Broker, Rebuild(b, ref)
    PROVE  /\ head' \in [Broker -> Seq(Entry)]
           /\ seq' \in [Broker -> Nat]
           /\ table' \in [Broker -> [GrantId -> GrantState \cup {None}]]
<1>1. ref \in Seq(Entry) /\ Len(ref) \in Nat
  BY DEF TypeOK
<1>2. Replay(ref) \in [GrantId -> GrantState \cup {None}]
  BY <1>1, ReplayTable
<1>3. QED
  BY <1>1, <1>2 DEF Rebuild, TypeOK

LEMMA TypeInductive ==
    ASSUME TypeOK, [Next]_vars
    PROVE  TypeOK'
<1>1. ASSUME NEW b \in Broker, Open(b)
      PROVE  TypeOK'
  BY <1>1, RebuildType DEF Open, TypeOK, draws, told
<1>2. ASSUME NEW b \in Broker, Reload(b)
      PROVE  TypeOK'
  BY <1>2, RebuildType DEF Reload, TypeOK, draws, told
<1>3. ASSUME NEW b \in Broker, Stop(b)
      PROVE  TypeOK'
  <2>1. EmptyTable \in [GrantId -> GrantState \cup {None}]
    BY DEF EmptyTable
  <2>2. << >> \in Seq(Entry)
    OBVIOUS
  <2>3. QED
    BY <1>3, <2>1, <2>2 DEF Stop, TypeOK, draws, told
<1>4. CASE Tick
  BY <1>4 DEF Tick, TypeOK, memory, draws, told
<1>5. CASE UNCHANGED vars
  BY <1>5 DEF vars, TypeOK, memory, draws, told
<1>6. QED
  BY <1>1, <1>2, <1>3, <1>4, <1>5, OperateType, LogStepType DEF Next

\* Every variable stays in its type, however many processes share the store
\* and whatever fails.
THEOREM TypeCorrect == Spec => []TypeOK
<1>1. Init => TypeOK
  <2>1. EmptyTable \in [GrantId -> GrantState \cup {None}]
    BY DEF EmptyTable
  <2>2. << >> \in Seq(Entry)
    OBVIOUS
  <2>3. QED
    BY <2>1, <2>2 DEF Init, TypeOK
<1>2. TypeOK /\ [Next]_vars => TypeOK'
  BY TypeInductive
<1>3. QED
  BY <1>1, <1>2, PTL DEF Spec

-----------------------------------------------------------------------------
(* The shared invariant.  A process keeps its own part of it, which speaks *)
(* of its memory, its chain and its call in flight only.                   *)

Backed(b) ==
    /\ FitsLog(table[b], head[b])
    /\ Sound(head[b])
    /\ Contiguous(head[b])
    /\ CallBacked(b)
    /\ seq[b] = Len(head[b])

LogRight(chain) == Sound(chain) /\ Contiguous(chain)

LEMMA SharedParts == SharedInv <=> LogRight(ref) /\ \A b \in Broker : Backed(b)
BY DEF SharedInv, MemoryNoWeakerThanLog, LogSound, VerifyHolds, CallsBacked,
       SeqIsLength, Backed, LogRight

\* Nothing of another process is touched.
LEMMA BackedFrame ==
    ASSUME NEW b, Backed(b), head'[b] = head[b], seq'[b] = seq[b],
           table'[b] = table[b], op'[b] = op[b], running'[b] = running[b]
    PROVE  Backed(b)'
BY DEF Backed, CallBacked, At

\* A table just folded from a chain is as strict as it.
LEMMA FitsReplay ==
    ASSUME NEW chain \in Seq(Entry)
    PROVE  FitsLog(Replay(chain), chain)
<1> SUFFICES ASSUME NEW g \in GrantId, Replay(chain)[g] # None
             PROVE  NoWeaker(Replay(chain)[g], Replay(chain)[g])
  BY DEF FitsLog
<1>1. Replay(chain)[g].uses \in Nat
  BY ReplayType DEF LoggedState
<1>2. QED
  BY <1>1 DEF NoWeaker

\* Memory may grow stricter on its own: a use more, a grant withdrawn, a new
\* secret.
Stricter(new, old) ==
    /\ new # None
    /\ new.terms = old.terms
    /\ new.uses >= old.uses
    /\ old.revoked => new.revoked

LEMMA FitsStricter ==
    ASSUME NEW chain \in Seq(Entry),
           NEW t \in [GrantId -> GrantState \cup {None}],
           NEW g \in GrantId, NEW new \in GrantState,
           FitsLog(t, chain), t[g] # None, Stricter(new, t[g])
    PROVE  FitsLog([t EXCEPT ![g] = new], chain)
<1> DEFINE u == [t EXCEPT ![g] = new]
<1> SUFFICES ASSUME NEW h \in GrantId
             PROVE  IF Replay(chain)[h] = None THEN u[h] = None
                    ELSE NoWeaker(u[h], Replay(chain)[h])
  BY DEF FitsLog
<1>1. CASE h # g
  BY <1>1 DEF FitsLog
<1>2. CASE h = g
  <2>1. Replay(chain)[g] # None /\ NoWeaker(t[g], Replay(chain)[g])
    BY DEF FitsLog
  <2>2. Replay(chain)[g].uses \in Nat
    BY <2>1, ReplayType DEF LoggedState
  <2>3. t[g].uses \in Nat /\ new.uses \in Nat
    BY DEF GrantState
  <2>4. NoWeaker(new, Replay(chain)[g])
    BY <2>1, <2>2, <2>3 DEF NoWeaker, Stricter
  <2>5. QED
    BY <1>2, <2>1, <2>4
<1>3. QED
  BY <1>1, <1>2

\* Nothing is in flight after these: the process's part holds again.
LEMMA BackedIdle ==
    ASSUME NEW b, op'[b] = None, FitsLog(table'[b], head'[b]),
           LogRight(head'[b]), seq'[b] = Len(head'[b])
    PROVE  Backed(b)'
BY DEF Backed, CallBacked, LogRight

\* The caller is yet to be told: so does it.
LEMMA BackedLogged ==
    ASSUME NEW b, At(b, "answer")', running'[b], FitsLog(table'[b], head'[b]),
           LogRight(head'[b]), seq'[b] = Len(head'[b])
    PROVE  Backed(b)'
BY DEF Backed, CallBacked, LogRight

\* A step of one process that leaves the others' memory and calls alone.
LEMMA SharedStep ==
    ASSUME SharedInv, NEW b \in Broker, LogRight(ref)', Backed(b)',
           \A c \in Broker \ {b} :
               /\ head'[c] = head[c] /\ seq'[c] = seq[c]
               /\ table'[c] = table[c] /\ op'[c] = op[c]
               /\ running'[c] = running[c]
    PROVE  SharedInv'
<1>1. \A c \in Broker \ {b} : Backed(c)'
  BY SharedParts, BackedFrame
<1>2. \A c \in Broker : Backed(c)'
  BY <1>1
<1>3. QED
  BY <1>2 DEF SharedInv, MemoryNoWeakerThanLog, LogSound, VerifyHolds,
              CallsBacked, SeqIsLength, Backed, LogRight

\* Memory and log are as they were.
LEMMA SharedFrame ==
    ASSUME SharedInv, UNCHANGED <<ref, memory, op, running>>
    PROVE  SharedInv'
BY DEF SharedInv, MemoryNoWeakerThanLog, LogSound, VerifyHolds, CallsBacked,
       CallBacked, At, SeqIsLength, memory

LEMMA RebuildShared ==
    ASSUME TypeOK, SharedInv, NEW b \in Broker, Rebuild(b, ref), ref' = ref,
           op' = op, op[b] = None,
           \A c \in Broker \ {b} : running'[c] = running[c]
    PROVE  SharedInv'
<1>1. ref \in Seq(Entry)
  BY DEF TypeOK
<1>2. FitsLog(Replay(ref), ref)
  BY <1>1, FitsReplay
<1>3. LogRight(ref)
  BY SharedParts
<1>4. head'[b] = ref /\ seq'[b] = Len(ref) /\ table'[b] = Replay(ref)
  BY DEF Rebuild, TypeOK
<1>5. Backed(b)'
  BY <1>2, <1>3, <1>4, BackedIdle
<1>6. \A c \in Broker \ {b} : /\ head'[c] = head[c] /\ seq'[c] = seq[c]
                              /\ table'[c] = table[c]
  BY DEF Rebuild, TypeOK
<1>7. QED
  BY <1>3, <1>5, <1>6, SharedStep

LEMMA StopShared ==
    ASSUME TypeOK, SharedInv, NEW b \in Broker, Stop(b)
    PROVE  SharedInv'
<1>1. /\ head'[b] = << >> /\ seq'[b] = 0 /\ table'[b] = EmptyTable
      /\ op'[b] = None
  BY DEF Stop, TypeOK
<1>2. FitsLog(EmptyTable, << >>)
  BY ReplayEmpty DEF FitsLog, EmptyTable
<1>3. LogRight(<< >>) /\ Len(<< >>) = 0
  BY EmptyChain DEF LogRight
<1>4. Backed(b)'
  BY <1>1, <1>2, <1>3, BackedIdle
<1>5. LogRight(ref)'
  BY SharedParts DEF Stop, LogRight
<1>6. QED
  BY <1>4, <1>5, SharedStep DEF Stop, TypeOK

\* A call whose event promises nothing about memory.
LEMMA LogShared ==
    ASSUME TypeOK, SharedInv, NEW b \in Broker, NEW e \in Event, NEW m \in Nat,
           e.kind # "use", e.kind # "revoke", running[b],
           Log(b, e, m), UNCHANGED <<ref, memory, running>>
    PROVE  SharedInv'
<1>1. op'[b].event = e
  BY DEF Log, TypeOK
<1>2. Backed(b)
  BY SharedParts
<1>3. Backed(b)'
  BY <1>1, <1>2 DEF Backed, CallBacked, memory
<1>4. LogRight(ref)'
  BY SharedParts DEF LogRight
<1>5. \A c \in Broker \ {b} : op'[c] = op[c]
  BY DEF Log, TypeOK
<1>6. QED
  BY <1>3, <1>4, <1>5, SharedStep DEF memory

\* An operation that makes memory stricter about one grant before its call.
LEMMA StricterShared ==
    ASSUME TypeOK, SharedInv, NEW b \in Broker, NEW g \in GrantId,
           NEW new \in GrantState, table[b][g] # None, Stricter(new, table[b][g]),
           table' = [table EXCEPT ![b] = [table[b] EXCEPT ![g] = new]],
           UNCHANGED <<ref, head, seq, running>>,
           \A c \in Broker \ {b} : op'[c] = op[c],
           CallBacked(b)'
    PROVE  SharedInv'
<1>1. head[b] \in Seq(Entry) /\ table[b] \in [GrantId -> GrantState \cup {None}]
  BY DEF TypeOK
<1>2. Backed(b)
  BY SharedParts
<1>3. FitsLog([table[b] EXCEPT ![g] = new], head[b])
  BY <1>1, <1>2, FitsStricter DEF Backed
<1>4. table'[b] = [table[b] EXCEPT ![g] = new]
  BY DEF TypeOK
<1>5. Backed(b)'
  BY <1>2, <1>3, <1>4 DEF Backed
<1>6. \A c \in Broker \ {b} : table'[c] = table[c]
  BY DEF TypeOK
<1>7. LogRight(ref)'
  BY SharedParts DEF LogRight
<1>8. QED
  BY <1>5, <1>6, <1>7, SharedStep

\* What memory allows, the stricter of the two, the log allows.
LEMMA AllowedByLog ==
    ASSUME NEW chain \in Seq(Entry),
           NEW t \in [GrantId -> GrantState \cup {None}], NEW g \in GrantId,
           NEW a, FitsLog(t, chain), t[g] # None, Allows(t[g], a)
    PROVE  /\ Replay(chain)[g] # None
           /\ Allows(Replay(chain)[g], a)
           /\ t[g].uses >= Replay(chain)[g].uses
           /\ Replay(chain)[g].uses \in Nat
           /\ t[g].terms = Replay(chain)[g].terms
<1> DEFINE inLog == Replay(chain)[g]
<1>1. inLog # None /\ NoWeaker(t[g], inLog)
  BY DEF FitsLog
<1>2. inLog \in LoggedState
  BY <1>1, ReplayType
<1>3. t[g] \in GrantState
  OBVIOUS
<1> HIDE DEF inLog
<1>4. inLog.uses \in Nat /\ t[g].uses \in Nat
  BY <1>2, <1>3 DEF LoggedState, GrantState
<1>5. inLog.terms = t[g].terms /\ t[g].terms \in Terms
  BY <1>1, <1>3 DEF NoWeaker, GrantState
<1>6. t[g].terms.maxUses \in Nat \cup {None}
  BY <1>5 DEF Terms
<1>7. ~ inLog.revoked
  BY <1>1 DEF NoWeaker, Allows
<1>8. inLog.terms.maxUses # None => inLog.uses < inLog.terms.maxUses
  <2>1. t[g].terms.maxUses # None => t[g].uses < t[g].terms.maxUses
    BY DEF Allows
  <2>2. t[g].uses >= inLog.uses
    BY <1>1 DEF NoWeaker
  <2>3. t[g].terms.maxUses # None => t[g].terms.maxUses \in Nat
    BY <1>6
  <2>4. QED
    BY <1>4, <1>5, <2>1, <2>2, <2>3
<1>9. Allows(inLog, a)
  BY <1>5, <1>7, <1>8 DEF Allows
<1>10. QED
  BY <1>1, <1>4, <1>5, <1>9 DEF NoWeaker, inLog

LEMMA AccessShared ==
    ASSUME TypeOK, SharedInv, NEW b \in Broker, NEW cap \in caps[b],
           NEW a \in Asks, AccessCap(b, cap, a)
    PROVE  SharedInv'
<1> DEFINE g == cap.grant
           state == table[b][g]
           new == [state EXCEPT !.uses = @ + 1]
<1>1. g \in GrantId /\ a \in Access
  BY WeaveBrokerAssumption DEF TypeOK, Capability
<1>2. running[b] /\ head[b] \in Seq(Entry)
      /\ table[b] \in [GrantId -> GrantState \cup {None}]
  BY DEF AccessCap, Idle, TypeOK
<1>3. CASE ~ Check(b, cap, a)
  <2>1. Log(b, DenyEvent, 0) /\ UNCHANGED table
    BY <1>3 DEF AccessCap
  <2>2. DenyEvent.kind # "use" /\ DenyEvent.kind # "revoke"
    BY DEF DenyEvent
  <2>3. QED
    BY <1>2, <2>1, <2>2, EventTypes, LogShared DEF AccessCap, memory
<1>4. CASE Check(b, cap, a)
  <2>1. /\ state # None /\ Allows(state, a)
        /\ table' = [table EXCEPT ![b][g].uses = @ + 1]
        /\ Log(b, UseEvent(g, a), 0)
    BY <1>4 DEF AccessCap, Check
  <2>2. state \in GrantState
    BY <1>1, <1>2, <2>1
  <2>3. new \in GrantState /\ Stricter(new, state) /\ new.uses = state.uses + 1
    <3>1. state.uses \in Nat
      BY <2>2 DEF GrantState
    <3>2. new \in GrantState
      BY <2>2, <3>1 DEF GrantState
    <3>3. /\ new.uses = state.uses + 1 /\ new.terms = state.terms
          /\ new.revoked = state.revoked
      BY <2>2 DEF GrantState
    <3>4. new # None
      BY <3>2, WeaveLogAssumption
    <3>5. QED
      BY <3>1, <3>2, <3>3, <3>4 DEF Stricter
  <2>4. table' = [table EXCEPT ![b] = [table[b] EXCEPT ![g] = new]]
    BY <2>1
  <2>5. op'[b].event = UseEvent(g, a)
    BY <2>1 DEF Log, TypeOK
  <2>6. FitsLog(table[b], head[b])
    BY SharedParts DEF Backed
  <2>7. /\ Replay(head[b])[g] # None
        /\ Allows(Replay(head[b])[g], a)
    BY <1>1, <1>2, <2>1, <2>6, AllowedByLog
  <2>8. state.uses >= Replay(head[b])[g].uses /\ Replay(head[b])[g].uses \in Nat
    BY <1>1, <1>2, <2>1, <2>6, AllowedByLog
  <2>9. table'[b][g] = new
    BY <1>1, <2>4 DEF TypeOK
  <2>10. new.uses > Replay(head[b])[g].uses
    BY <2>2, <2>3, <2>8 DEF GrantState
  <2>11. UNCHANGED <<ref, head, seq, running>>
    BY DEF AccessCap
  <2>12. CallBacked(b)'
    <3>1. op'[b].event.kind = "use" /\ op'[b].event.grant = g
          /\ op'[b].event.arg = a
      BY <2>5 DEF UseEvent
    <3>2. QED
      BY <1>2, <2>7, <2>9, <2>10, <2>11, <3>1 DEF CallBacked
  <2>13. \A c \in Broker \ {b} : op'[c] = op[c]
    BY <2>1 DEF Log, TypeOK
  <2> HIDE DEF new, state, g
  <2>14. QED
    BY <1>1, <2>1, <2>3, <2>4, <2>11, <2>12, <2>13, StricterShared DEF state
<1>5. QED
  BY <1>3, <1>4

LEMMA RevokeShared ==
    ASSUME TypeOK, SharedInv, NEW b \in Broker, NEW g \in GrantId, Revoke(b, g)
    PROVE  SharedInv'
<1> DEFINE state == table[b][g]
           new == [state EXCEPT !.revoked = TRUE]
<1>1. running[b] /\ op[b] = None /\ state # None
  BY DEF Revoke, Idle
<1>2. CASE UNCHANGED <<table, op>>
  BY <1>2, SharedFrame DEF Revoke, memory
<1>3. CASE /\ table' = [table EXCEPT ![b][g].revoked = TRUE]
           /\ Log(b, RevokeEvent(g), 0)
  <2>1. state \in GrantState
    BY <1>1 DEF TypeOK
  <2>2. new \in GrantState
    BY <2>1 DEF GrantState
  <2>3. new.revoked /\ new.terms = state.terms /\ new.uses = state.uses
    BY <2>1 DEF GrantState
  <2>4. Stricter(new, state)
    <3>1. new # None
      BY <2>2, WeaveLogAssumption
    <3>2. state.uses \in Nat
      BY <2>1 DEF GrantState
    <3> HIDE DEF new, state
    <3>3. QED
      BY <2>3, <3>1, <3>2 DEF Stricter
  <2>5. table' = [table EXCEPT ![b] = [table[b] EXCEPT ![g] = new]]
    BY <1>3
  <2>6. op'[b].event = RevokeEvent(g)
    BY <1>3 DEF Log, TypeOK
  <2>7. table'[b][g] = new
    BY <2>5 DEF TypeOK
  <2>8. UNCHANGED <<ref, head, seq, running>>
    BY DEF Revoke
  <2>9. CallBacked(b)'
    <3>1. op'[b].event.kind = "revoke" /\ op'[b].event.grant = g
      BY <2>6 DEF RevokeEvent
    <3>2. new # None
      BY <2>2, WeaveLogAssumption
    <3>3. QED
      BY <1>1, <2>3, <2>7, <2>8, <3>1, <3>2 DEF CallBacked
  <2>10. \A c \in Broker \ {b} : op'[c] = op[c]
    BY <1>3 DEF Log, TypeOK
  <2> HIDE DEF new, state
  <2>11. QED
    BY <1>1, <2>2, <2>4, <2>5, <2>8, <2>9, <2>10, StricterShared DEF state
<1>4. QED
  BY <1>2, <1>3 DEF Revoke

LEMMA ReissueShared ==
    ASSUME TypeOK, SharedInv, NEW b \in Broker, NEW g \in GrantId, Reissue(b, g)
    PROVE  SharedInv'
<1> DEFINE state == table[b][g]
           new == [state EXCEPT !.secret = mints + 1]
<1>1. op[b] = None /\ state # None /\ mints + 1 \in Nat
  BY DEF Reissue, Idle, TypeOK
<1>2. state \in GrantState
  BY <1>1 DEF TypeOK
<1>3. new \in GrantState
  BY <1>1, <1>2 DEF GrantState
<1>4. /\ new.revoked = state.revoked /\ new.terms = state.terms
      /\ new.uses = state.uses
  BY <1>2 DEF GrantState
<1>5. Stricter(new, state)
  BY <1>2, <1>3, <1>4, WeaveLogAssumption DEF Stricter, GrantState
<1>6. table' = [table EXCEPT ![b] = [table[b] EXCEPT ![g] = new]]
  BY DEF Reissue
<1>7. UNCHANGED <<ref, head, seq, op, running>>
  BY DEF Reissue
<1>8. CallBacked(b)'
  BY <1>1, <1>7 DEF CallBacked
<1> HIDE DEF new, state
<1>9. QED
  BY <1>1, <1>3, <1>5, <1>6, <1>7, <1>8, StricterShared DEF state

LEMMA GrantShared ==
    ASSUME TypeOK, SharedInv, NEW b \in Broker, NEW terms \in Terms,
           Grant(b, terms)
    PROVE  SharedInv'
<1>1. mints + 1 \in Nat /\ running[b]
  BY DEF Grant, Idle, TypeOK
<1>2. PICK g \in GrantId : Log(b, GrantEvent(g, terms), mints + 1)
  BY DEF Grant
<1>3. GrantEvent(g, terms).kind = "grant"
  BY DEF GrantEvent
<1>4. GrantEvent(g, terms) \in Event
  BY EventTypes
<1>5. QED
  BY <1>1, <1>2, <1>3, <1>4, LogShared DEF Grant, memory

LEMMA RequestShared ==
    ASSUME TypeOK, SharedInv, NEW b \in Broker, NEW p \in Principal,
           NEW a \in Asks, Request(b, p, a)
    PROVE  SharedInv'
<1>1. CASE Decide(p, a) # None /\ Grant(b, Decide(p, a))
  BY <1>1, DecideType, GrantShared
<1>2. CASE /\ Idle(b) /\ Log(b, DenyEvent, 0)
           /\ UNCHANGED <<ref, memory, running>>
  <2>1. DenyEvent.kind # "use" /\ DenyEvent.kind # "revoke"
    BY DEF DenyEvent
  <2>2. QED
    BY <1>2, <2>1, EventTypes, LogShared DEF Idle
<1>3. QED
  BY <1>1, <1>2 DEF Request

\* A call that ends with an error, or goes on, with no change to memory.
LEMMA DropShared ==
    ASSUME TypeOK, SharedInv, NEW b \in Broker,
           op'[b] = None \/ (op'[b] # None /\ op[b] # None
                               /\ op'[b].event = op[b].event
                               /\ ~ At(b, "answer")),
           \A c \in Broker \ {b} : op'[c] = op[c],
           UNCHANGED <<memory, running>>, LogRight(ref)'
    PROVE  SharedInv'
<1>1. Backed(b)
  BY SharedParts
<1>2. Backed(b)'
  BY <1>1 DEF Backed, CallBacked, memory
<1>3. QED
  BY <1>2, SharedStep DEF memory

LEMMA StartShared ==
    ASSUME TypeOK, SharedInv, NEW b \in Broker, StartRefWrite(b)
    PROVE  SharedInv'
<1>1. LogRight(ref)'
  BY EmptyChain DEF StartRefWrite, LogRight
<1>2. QED
  BY <1>1, CallGoesOn, DropShared DEF StartRefWrite

LEMMA FailShared ==
    ASSUME TypeOK, SharedInv, NEW b \in Broker,
           AppendFails(b) \/ RefWriteFails(b) \/ Answer(b)
    PROVE  SharedInv'
<1>1. op'[b] = None /\ \A c \in Broker \ {b} : op'[c] = op[c]
  BY DEF AppendFails, RefWriteFails, Answer, TypeOK
<1>2. LogRight(ref)' /\ UNCHANGED <<memory, running>>
  BY SharedParts DEF AppendFails, RefWriteFails, Answer, LogRight
<1>3. QED
  BY <1>1, <1>2, DropShared

\* The table after a call is written fits the chain with its entry.
LEMMA FitsGrant ==
    ASSUME NEW chain \in Seq(Entry), NEW n \in Nat, NEW e \in Event,
           NEW t, NEW u, NEW m \in Nat,
           t \in [GrantId -> GrantState \cup {None}],
           FitsLog(t, chain), e.kind = "grant",
           u = [t EXCEPT ![e.grant] = [terms |-> e.arg, revoked |-> FALSE,
                                       uses |-> 0, secret |-> m]]
    PROVE  FitsLog(u, Extend(chain, n, e))
<1> DEFINE fresh == [terms |-> e.arg, revoked |-> FALSE, uses |-> 0,
                     secret |-> m]
           longer == Extend(chain, n, e)
<1>1. \A g \in GrantId : Replay(longer)[g] = Apply(Replay(chain)[g], g, e)
  BY ReplayExtend
<1> HIDE DEF longer
<1> SUFFICES ASSUME NEW g \in GrantId
             PROVE  IF Replay(longer)[g] = None THEN u[g] = None
                    ELSE NoWeaker(u[g], Replay(longer)[g])
  BY DEF FitsLog, longer
<1>2. CASE g # e.grant
  <2>1. Replay(longer)[g] = Replay(chain)[g]
    BY <1>1, <1>2 DEF Apply
  <2>2. u[g] = t[g]
    BY <1>2
  <2>3. QED
    BY <2>1, <2>2 DEF FitsLog
<1>3. CASE g = e.grant
  <2>1. Replay(longer)[g] = [terms |-> e.arg, revoked |-> FALSE, uses |-> 0,
                             secret |-> None]
    BY <1>1, <1>3 DEF Apply
  <2>2. u[g] = fresh
    BY <1>3
  <2>3. e.arg \in Terms
    BY EventParts
  <2>4. fresh \in GrantState
    BY <2>3 DEF GrantState
  <2> DEFINE inLog == Replay(longer)[g]
  <2>5. inLog.terms = e.arg /\ inLog.uses = 0 /\ ~ inLog.revoked
    BY <2>1
  <2>6. inLog \in LoggedState
    BY <2>1, <2>3 DEF LoggedState
  <2>7. inLog \in GrantState
    BY <2>6 DEF LoggedState, GrantState
  <2>8. fresh.terms = e.arg /\ fresh.uses = 0 /\ fresh # None
    BY <2>4, WeaveLogAssumption
  <2> HIDE DEF inLog, fresh
  <2>9. NoWeaker(fresh, inLog)
    BY <2>5, <2>8 DEF NoWeaker
  <2>10. QED
    BY <2>2, <2>7, <2>9, WeaveLogAssumption DEF inLog
<1>4. QED
  BY <1>2, <1>3

LEMMA FitsOther ==
    ASSUME NEW chain \in Seq(Entry), NEW n \in Nat, NEW e \in Event,
           NEW t \in [GrantId -> GrantState \cup {None}],
           FitsLog(t, chain), e.kind # "grant",
           e.kind = "use" => /\ Replay(chain)[e.grant] # None
                             /\ t[e.grant].uses > Replay(chain)[e.grant].uses,
           e.kind = "revoke" => t[e.grant] # None /\ t[e.grant].revoked
    PROVE  FitsLog(t, Extend(chain, n, e))
<1> DEFINE longer == Extend(chain, n, e)
<1>1. \A g \in GrantId : Replay(longer)[g] = Apply(Replay(chain)[g], g, e)
  BY ReplayExtend
<1> HIDE DEF longer
<1> SUFFICES ASSUME NEW g \in GrantId
             PROVE  IF Replay(longer)[g] = None THEN t[g] = None
                    ELSE NoWeaker(t[g], Replay(longer)[g])
  BY DEF FitsLog, longer
<1> DEFINE old == Replay(chain)[g]
           now2 == Replay(longer)[g]
<1>2. now2 = Apply(old, g, e)
  BY <1>1
<1>3. IF old = None THEN t[g] = None ELSE NoWeaker(t[g], old)
  BY DEF FitsLog
<1>4. old \in LoggedState \cup {None}
  BY ReplayType
<1>5. t[g] \in GrantState \cup {None}
  OBVIOUS
<1>6. CASE e.grant # g \/ e.kind = "deny" \/ old = None
  <2>1. now2 = old
    BY <1>2, <1>6 DEF Apply
  <2>2. QED
    BY <1>3, <2>1
<1>7. CASE e.grant = g /\ e.kind = "use" /\ old # None
  <2>1. now2 = [old EXCEPT !.uses = @ + 1]
    BY <1>2, <1>7 DEF Apply
  <2>2. old \in LoggedState /\ NoWeaker(t[g], old) /\ t[g].uses > old.uses
    BY <1>3, <1>4, <1>7
  <2>3. /\ now2.uses = old.uses + 1 /\ now2.terms = old.terms
        /\ now2.revoked = old.revoked
    BY <2>1, <2>2 DEF LoggedState
  <2>4. old.uses \in Nat /\ t[g].uses \in Nat
    BY <1>5, <2>2 DEF LoggedState, NoWeaker, GrantState
  <2>5. NoWeaker(t[g], now2) /\ t[g] # None
    BY <2>2, <2>3, <2>4 DEF NoWeaker
  <2>6. now2 \in LoggedState
    BY <2>1, <2>2, <2>4 DEF LoggedState
  <2>7. now2 # None
    BY <2>6, WeaveLogAssumption DEF LoggedState, GrantState
  <2>8. QED
    BY <2>5, <2>7
<1>8. CASE e.grant = g /\ e.kind = "revoke" /\ old # None
  <2>1. now2 = [old EXCEPT !.revoked = TRUE]
    BY <1>2, <1>8 DEF Apply
  <2>2. old \in LoggedState /\ NoWeaker(t[g], old) /\ t[g].revoked
    BY <1>3, <1>4, <1>8
  <2>3. now2.uses = old.uses /\ now2.terms = old.terms
    BY <2>1, <2>2 DEF LoggedState
  <2>4. NoWeaker(t[g], now2)
    BY <2>2, <2>3 DEF NoWeaker
  <2>5. now2 \in LoggedState
    BY <2>1, <2>2 DEF LoggedState
  <2>6. now2 # None
    BY <2>5, WeaveLogAssumption DEF LoggedState, GrantState
  <2>7. QED
    BY <2>4, <2>6
<1>9. e.kind \in {"use", "revoke", "deny"}
  BY EventParts
<1>10. QED
  BY <1>6, <1>7, <1>8, <1>9

LEMMA FinishShared ==
    ASSUME TypeOK, SharedInv, NEW b \in Broker, WriteRef(b)
    PROVE  SharedInv'
<1> DEFINE e == op[b].event
           chain == Extend(head[b], seq[b], e)
<1>1. e \in Event /\ op[b].mint \in Nat /\ op[b] # None /\ ~ At(b, "answer")
  BY CallType, CallGoesOn
<1>2. /\ head[b] \in Seq(Entry) /\ seq[b] \in Nat
      /\ table[b] \in [GrantId -> GrantState \cup {None}]
  BY DEF TypeOK
<1>3. /\ FitsLog(table[b], head[b]) /\ Sound(head[b]) /\ Contiguous(head[b])
      /\ CallBacked(b) /\ seq[b] = Len(head[b])
  BY SharedParts DEF Backed
<1>4. /\ e.kind = "use" =>
            /\ Replay(head[b])[e.grant] # None
            /\ Allows(Replay(head[b])[e.grant], e.arg)
            /\ table[b][e.grant].uses > Replay(head[b])[e.grant].uses
      /\ e.kind = "revoke" => table[b][e.grant] # None /\ table[b][e.grant].revoked
  BY <1>1, <1>3 DEF CallBacked
<1>5. /\ ref' = chain /\ head' = [head EXCEPT ![b] = chain]
      /\ table' = IF e.kind = "grant"
                  THEN [table EXCEPT ![b][e.grant] =
                           [terms |-> e.arg, revoked |-> FALSE, uses |-> 0,
                            secret |-> op[b].mint]]
                  ELSE table
      /\ seq' = [seq EXCEPT ![b] = @ + 1]
      /\ running' = running /\ running[b]
  BY <1>1, <1>3 DEF WriteRef, CallBacked
<1> HIDE DEF e
<1>6. Sound(chain)
  <2>1. UseAllowed(head[b], [seq |-> seq[b], event |-> e])
    BY <1>4 DEF UseAllowed
  <2>2. QED
    BY <1>1, <1>2, <1>3, <2>1, SoundExtend
<1>7. Contiguous(chain)
  BY <1>1, <1>2, <1>3, ContiguousExtend
<1>8. Len(chain) = seq[b] + 1
  <2>1. \A c \in Seq(Entry), n \in Nat, x \in Event :
           Len(Extend(c, n, x)) = Len(c) + 1
    BY ExtendChain
  <2>2. QED
    BY <1>1, <1>2, <1>3, <2>1
<1>9. FitsLog(table'[b], chain)
  <2>1. CASE e.kind = "grant"
    <3>1. table'[b] = [table[b] EXCEPT ![e.grant] =
              [terms |-> e.arg, revoked |-> FALSE, uses |-> 0,
               secret |-> op[b].mint]]
      BY <1>2, <1>5, <2>1 DEF TypeOK
    <3>2. QED
      BY <1>1, <1>2, <1>3, <2>1, <3>1, FitsGrant
  <2>2. CASE e.kind # "grant"
    <3>1. table'[b] = table[b]
      BY <1>5, <2>2
    <3>2. FitsLog(table[b], chain)
      BY <1>1, <1>2, <1>3, <1>4, <2>2, FitsOther
    <3>3. QED
      BY <3>1, <3>2
  <2>3. QED
    BY <2>1, <2>2
<1> HIDE DEF chain
<1>10. head'[b] = chain /\ seq'[b] = Len(chain) /\ At(b, "answer")'
  BY <1>5, <1>8, CallGoesOn DEF TypeOK
<1>11. Backed(b)' /\ LogRight(ref)'
  BY <1>5, <1>6, <1>7, <1>9, <1>10, BackedLogged DEF LogRight
<1>12. \A c \in Broker \ {b} :
          /\ head'[c] = head[c] /\ seq'[c] = seq[c]
          /\ table'[c] = table[c] /\ op'[c] = op[c] /\ running'[c] = running[c]
  <2>1. \A c \in Broker \ {b} : table'[c] = table[c]
    BY <1>5 DEF TypeOK
  <2>2. \A c \in Broker \ {b} : op'[c] = op[c]
    BY CallGoesOn
  <2>3. QED
    BY <1>5, <2>1, <2>2 DEF TypeOK
<1>13. QED
  BY <1>11, <1>12, SharedStep

LEMMA SharedInductive ==
    ASSUME TypeOK, SharedInv, [Next]_vars
    PROVE  SharedInv'
<1>1. ASSUME NEW b \in Broker, Open(b)
      PROVE  SharedInv'
  <2>1. op[b] = None
    BY <1>1 DEF Open, SharedInv, CallsBacked, CallBacked
  <2>2. QED
    BY <1>1, <2>1, RebuildShared DEF Open, TypeOK
<1>2. ASSUME NEW b \in Broker, Reload(b)
      PROVE  SharedInv'
  BY <1>2, RebuildShared DEF Reload, Idle
<1>3. ASSUME NEW b \in Broker, Operate(b)
      PROVE  SharedInv'
  <2>1. \A terms \in Offers : Grant(b, terms) => SharedInv'
    BY GrantShared, WeaveBrokerAssumption
  <2>2. QED
    BY <1>3, <2>1, RequestShared, AccessShared, RevokeShared, ReissueShared
       DEF Operate
<1>4. ASSUME NEW b \in Broker, LogStep(b)
      PROVE  SharedInv'
  BY <1>4, FailShared, StartShared, FinishShared DEF LogStep
<1>5. ASSUME NEW b \in Broker, Stop(b)
      PROVE  SharedInv'
  BY <1>5, StopShared
<1>6. CASE Tick
  BY <1>6, SharedFrame DEF Tick
<1>7. CASE UNCHANGED vars
  BY <1>7, SharedFrame DEF vars
<1>8. QED
  BY <1>1, <1>2, <1>3, <1>4, <1>5, <1>6, <1>7 DEF Next

LEMMA SharedInit == Init => SharedInv
<1> SUFFICES ASSUME Init PROVE SharedInv
  OBVIOUS
<1>1. FitsLog(EmptyTable, << >>)
  BY ReplayEmpty DEF FitsLog, EmptyTable
<1>2. LogRight(<< >>) /\ Len(<< >>) = 0
  BY EmptyChain DEF LogRight
<1>3. \A b \in Broker : Backed(b)
  BY <1>1, <1>2 DEF Init, Backed, CallBacked, LogRight
<1>4. QED
  BY <1>2, <1>3, SharedParts DEF Init

\* However many processes share the store, and whatever fails or crashes
\* between the steps of Broker::log, a process's memory never permits more
\* than the chain it is at, no chain records a use that what it records before
\* forbids, and Broker::verify holds.
THEOREM SharedCorrect == Spec => []SharedInv
<1>1. Init => SharedInv
  BY SharedInit
<1>2. TypeOK /\ SharedInv /\ [Next]_vars => SharedInv'
  BY SharedInductive
<1>3. QED
  BY <1>1, <1>2, TypeCorrect, PTL DEF Spec

\* The parts of it that users of the log rely on.
THEOREM LogStaysSound == Spec => [](MemoryNoWeakerThanLog /\ LogSound /\ VerifyHolds)
<1>1. SharedInv => MemoryNoWeakerThanLog /\ LogSound /\ VerifyHolds
  BY DEF SharedInv
<1>2. QED
  BY <1>1, SharedCorrect, PTL

-----------------------------------------------------------------------------
(* Decisions.                                                              *)

\* The property of one process and one step.
Justified(b) ==
    UseDecided(b) =>
        LET state == Replay(head[b])[op'[b].event.grant]
        IN  /\ state # None
            /\ InTime(state, now)
            /\ Allows(state, op'[b].event.arg)

LEMMA AccessJustified ==
    ASSUME TypeOK, SharedInv, NEW b \in Broker, NEW cap \in caps[b],
           NEW a \in Asks, AccessCap(b, cap, a)
    PROVE  Justified(b)
<1> DEFINE g == cap.grant
           state == table[b][g]
<1>1. g \in GrantId
  BY DEF TypeOK, Capability
<1>2. CASE ~ Check(b, cap, a)
  <2>1. Log(b, DenyEvent, 0)
    BY <1>2 DEF AccessCap
  <2>2. op'[b].event.kind = "deny"
    BY <2>1 DEF Log, TypeOK, DenyEvent
  <2>3. QED
    BY <2>2 DEF Justified, UseDecided
<1>3. CASE Check(b, cap, a)
  <2>1. /\ state # None /\ Allows(state, a) /\ InTime(state, now)
        /\ Log(b, UseEvent(g, a), 0)
    BY <1>3 DEF AccessCap, Check
  <2>2. op'[b].event.grant = g /\ op'[b].event.arg = a
    BY <2>1 DEF Log, TypeOK, UseEvent
  <2>3. FitsLog(table[b], head[b])
    BY SharedParts DEF Backed
  <2>4. head[b] \in Seq(Entry) /\ table[b] \in [GrantId -> GrantState \cup {None}]
    BY DEF TypeOK
  <2>5. Replay(head[b])[g] # None /\ Allows(Replay(head[b])[g], a)
    BY <1>1, <2>1, <2>3, <2>4, AllowedByLog
  <2>6. state.terms = Replay(head[b])[g].terms
    BY <1>1, <2>1, <2>3, <2>4, AllowedByLog
  <2>7. InTime(Replay(head[b])[g], now)
    BY <2>1, <2>6 DEF InTime
  <2>8. QED
    BY <2>2, <2>5, <2>7 DEF Justified
<1>4. QED
  BY <1>2, <1>3

\* An event of another kind decides no use.
LEMMA OtherEvent ==
    ASSUME TypeOK, NEW b \in Broker, NEW e, NEW m, Log(b, e, m), e.kind # "use"
    PROVE  ~ UseDecided(b)
BY DEF Log, UseDecided, TypeOK

LEMMA OperateJustified ==
    ASSUME TypeOK, SharedInv, NEW b \in Broker, Operate(b)
    PROVE  Justified(b)
<1>1. \A terms : Grant(b, terms) => ~ UseDecided(b)
  <2> SUFFICES ASSUME NEW terms, Grant(b, terms) PROVE ~ UseDecided(b)
    OBVIOUS
  <2>1. PICK g : Log(b, GrantEvent(g, terms), mints + 1)
    BY DEF Grant
  <2>2. GrantEvent(g, terms).kind # "use"
    BY DEF GrantEvent
  <2>3. QED
    BY <2>1, <2>2, OtherEvent
<1>2. Log(b, DenyEvent, 0) => ~ UseDecided(b)
  <2>1. DenyEvent.kind # "use"
    BY DEF DenyEvent
  <2>2. QED
    BY <2>1, OtherEvent
<1>3. \A g \in GrantId : Revoke(b, g) => ~ UseDecided(b)
  <2>1. \A g : RevokeEvent(g).kind # "use"
    BY DEF RevokeEvent
  <2>2. QED
    BY <2>1, OtherEvent DEF Revoke, UseDecided
<1>4. \A g \in GrantId : Reissue(b, g) => ~ UseDecided(b)
  BY DEF Reissue, UseDecided
<1>5. QED
  BY <1>1, <1>2, <1>3, <1>4, AccessJustified DEF Operate, Request, Justified

LEMMA StepJustified ==
    ASSUME TypeOK, SharedInv, [Next]_vars, NEW c \in Broker
    PROVE  Justified(c)
<1>1. ASSUME NEW b \in Broker, Operate(b), b # c
      PROVE  op'[c] = op[c]
  <2>1. \A e, m : Log(b, e, m) => op'[c] = op[c]
    BY <1>1 DEF Log, TypeOK
  <2>2. \A terms : Grant(b, terms) => op'[c] = op[c]
    BY <2>1 DEF Grant
  <2>3. QED
    BY <1>1, <2>1, <2>2 DEF Operate, Request, AccessCap, Revoke, Reissue
<1>2. ASSUME NEW b \in Broker, LogStep(b)
      PROVE  ~ UseDecided(c)
  <2>1. op[b] # None /\ \A d \in Broker \ {b} : op'[d] = op[d]
    BY <1>2 DEF LogStep, AppendFails, StartRefWrite, RefWriteFails,
                WriteRef, Answer, Writing, At, TypeOK
  <2>2. QED
    BY <2>1 DEF UseDecided
<1>3. ASSUME NEW b \in Broker, Open(b) \/ Reload(b) \/ Stop(b)
      PROVE  ~ UseDecided(c)
  BY <1>3 DEF Open, Reload, Stop, UseDecided, TypeOK
<1>4. (Tick \/ UNCHANGED vars) => ~ UseDecided(c)
  BY DEF Tick, vars, UseDecided
<1>5. QED
  BY <1>1, <1>2, <1>3, <1>4, OperateJustified DEF Next, Justified, UseDecided

\* A use is decided only if it is in time and the log the process is at
\* allows it, on any number of processes and after any failure.
THEOREM DecisionsFollowTheLog == Spec => DecidedByTheLog
<1>1. TypeOK /\ SharedInv /\ [Next]_vars => \A b \in Broker : Justified(b)
  BY StepJustified
<1>2. Spec => [][\A b \in Broker : Justified(b)]_vars
  BY <1>1, TypeCorrect, SharedCorrect, PTL DEF Spec
<1>3. QED
  BY <1>2 DEF DecidedByTheLog, Justified

-----------------------------------------------------------------------------
(* While one process at a time holds a Broker.                              *)

\* Reading the store, crashing, an error: the history does not change, and a
\* chain is kept, emptied or taken over from the store.
LEMMA SoleFrame ==
    ASSUME TypeOK, SoleInv, NEW b, Broker = {b}, logged' = logged,
           drawn' = drawn, ref' \in {ref, << >>},
           head'[b] \in {head[b], ref, << >>},
           \/ op'[b] = None
           \/ /\ op'[b] # None /\ op[b] # None
              /\ op'[b].event = op[b].event /\ ~ At(b, "answer")
           \/ op'[b] # None /\ op'[b].event.kind # "grant"
    PROVE  SoleInv'
<1>1. TrueTo(<< >>, logged)
  BY ReplayEmpty DEF TrueTo, EmptyTable
<1>2. TrueTo(ref, logged)' /\ TrueTo(head[b], logged)'
  BY <1>1 DEF SoleInv, TrueTo
<1>3. FreshIds'
  BY DEF SoleInv, FreshIds
<1>4. Sound(logged)'
  BY DEF SoleInv
<1>5. QED
  BY <1>2, <1>3, <1>4 DEF SoleInv

\* A grant's id is new to the history.
LEMMA SoleGrant ==
    ASSUME TypeOK, SoleInv, NEW b, Broker = {b}, NEW terms, Grant(b, terms)
    PROVE  SoleInv'
<1>1. PICK g \in GrantId \ drawn :
          drawn' = drawn \cup {g} /\ Log(b, GrantEvent(g, terms), mints + 1)
  BY DEF Grant
<1>2. op'[b].event = GrantEvent(g, terms) /\ GrantEvent(g, terms).grant = g
  BY <1>1 DEF Log, TypeOK, GrantEvent
<1>3. UNCHANGED <<ref, head, logged>>
  BY DEF Grant, memory
<1>4. Replay(logged)[g] = None
  BY <1>1 DEF SoleInv, FreshIds
<1>5. FreshIds'
  BY <1>1, <1>2, <1>3, <1>4 DEF SoleInv, FreshIds
<1>6. QED
  BY <1>3, <1>5 DEF SoleInv, TrueTo

\* A logged call adds the same entry to the chain and to the history.
LEMMA TrueToExtend ==
    ASSUME NEW chain \in Seq(Entry), NEW history \in Seq(Entry),
           NEW n \in Nat, NEW e \in Event, TrueTo(chain, history),
           e.kind = "use" => Replay(chain)[e.grant] # None,
           e.kind = "revoke" => Replay(chain)[e.grant] # None
    PROVE  TrueTo(Extend(chain, n, e), Extend(history, n, e))
<1>1. \A g \in GrantId :
         Replay(Extend(chain, n, e))[g] = Apply(Replay(chain)[g], g, e)
  BY ReplayExtend
<1>2. \A g \in GrantId :
         Replay(Extend(history, n, e))[g] = Apply(Replay(history)[g], g, e)
  BY ReplayExtend
<1> SUFFICES ASSUME NEW g \in GrantId,
                    Apply(Replay(chain)[g], g, e) # None
             PROVE  Apply(Replay(chain)[g], g, e)
                      = Apply(Replay(history)[g], g, e)
  BY <1>1, <1>2 DEF TrueTo
<1>3. CASE Replay(chain)[g] # None
  BY <1>3 DEF TrueTo
<1>4. CASE Replay(chain)[g] = None
  <2>1. e.grant = g /\ e.kind = "grant"
    <3>1. e.kind \in {"grant", "use", "revoke", "deny"}
      BY EventParts
    <3>2. e.grant # g => Apply(None, g, e) = None
      BY DEF Apply
    <3>3. e.grant = g /\ e.kind # "grant" => Apply(None, g, e) = None
      BY DEF Apply
    <3>4. QED
      BY <1>4, <3>2, <3>3
  <2>2. \A s : Apply(s, g, e) = [terms |-> e.arg, revoked |-> FALSE,
                                 uses |-> 0, secret |-> None]
    BY <2>1 DEF Apply
  <2>3. QED
    BY <2>2
<1>5. QED
  BY <1>3, <1>4

\* What WriteRef logs, with the facts about it the theorems need.
LEMMA CallLogged ==
    ASSUME TypeOK, SharedInv, SoleInv, NEW b, Broker = {b}, WriteRef(b)
    PROVE  /\ op[b] # None /\ ~ At(b, "answer") /\ At(b, "answer")'
           /\ op[b].event \in Event
           /\ head[b] \in Seq(Entry) /\ seq[b] \in Nat
           /\ ref' = Extend(head[b], seq[b], op[b].event)
           /\ head'[b] = Extend(head[b], seq[b], op[b].event)
           /\ logged' = Extend(logged, seq[b], op[b].event)
           /\ drawn' = drawn
<1> DEFINE e == op[b].event
           chain == Extend(head[b], seq[b], e)
<1>1. e \in Event /\ op[b] # None /\ ~ At(b, "answer") /\ At(b, "answer")'
  BY CallType, CallGoesOn
<1>2. head[b] \in Seq(Entry) /\ seq[b] \in Nat /\ Len(head[b]) \in Nat
  BY DEF TypeOK
<1>3. /\ ref' = chain /\ head'[b] = chain
      /\ logged' = Append(logged, chain[Len(chain)]) /\ drawn' = drawn
  BY DEF WriteRef, TypeOK, draws
<1>4. chain[Len(chain)] = [seq |-> seq[b], event |-> e]
  <2>1. chain = Append(head[b], [seq |-> seq[b], event |-> e])
    BY DEF Extend
  <2> HIDE DEF chain, e
  <2>2. QED
    BY <1>2, <2>1
<1>5. logged' = Extend(logged, seq[b], e)
  BY <1>3, <1>4 DEF Extend
<1>6. QED
  BY <1>1, <1>2, <1>3, <1>5

\* A call not yet logged stands on the history too.
LEMMA CallStands ==
    ASSUME TypeOK, SharedInv, SoleInv, NEW b \in Broker, op[b] # None,
           ~ At(b, "answer")
    PROVE  LET e == op[b].event
           IN  /\ e.kind = "grant" => e.grant \in drawn /\ Replay(logged)[e.grant] = None
               /\ e.kind = "use" =>
                     /\ Replay(head[b])[e.grant] # None
                     /\ Replay(logged)[e.grant] = Replay(head[b])[e.grant]
                     /\ Allows(Replay(logged)[e.grant], e.arg)
               /\ e.kind = "revoke" =>
                     /\ Replay(head[b])[e.grant] # None
                     /\ Replay(logged)[e.grant] = Replay(head[b])[e.grant]
<1> DEFINE e == op[b].event
<1>1. e \in Event
  BY CallType
<1>2. FitsLog(table[b], head[b]) /\ CallBacked(b)
  BY SharedParts DEF Backed
<1>3. TrueTo(head[b], logged)
  BY DEF SoleInv
<1>4. ASSUME e.kind = "grant"
      PROVE  e.grant \in drawn /\ Replay(logged)[e.grant] = None
  BY <1>4 DEF SoleInv, FreshIds
<1>5. ASSUME e.kind = "use"
      PROVE  /\ Replay(head[b])[e.grant] # None
             /\ Replay(logged)[e.grant] = Replay(head[b])[e.grant]
             /\ Allows(Replay(logged)[e.grant], e.arg)
  <2>1. e.grant \in GrantId
    BY <1>1, <1>5, EventParts
  <2>2. Replay(head[b])[e.grant] # None /\ Allows(Replay(head[b])[e.grant], e.arg)
    BY <1>2, <1>5 DEF CallBacked
  <2>3. Replay(logged)[e.grant] = Replay(head[b])[e.grant]
    BY <1>3, <2>1, <2>2 DEF TrueTo
  <2>4. QED
    BY <2>2, <2>3
<1>6. ASSUME e.kind = "revoke"
      PROVE  /\ Replay(head[b])[e.grant] # None
             /\ Replay(logged)[e.grant] = Replay(head[b])[e.grant]
  <2>1. e.grant \in GrantId
    BY <1>1, <1>6, EventParts
  <2>2. table[b][e.grant] # None
    BY <1>2, <1>6 DEF CallBacked
  <2>3. Replay(head[b])[e.grant] # None
    BY <1>2, <2>1, <2>2 DEF FitsLog
  <2>4. QED
    BY <1>3, <2>1, <2>3 DEF TrueTo
<1>7. QED
  BY <1>4, <1>5, <1>6

LEMMA SoleFinish ==
    ASSUME TypeOK, SharedInv, SoleInv, NEW b, Broker = {b}, WriteRef(b)
    PROVE  SoleInv'
<1> DEFINE e == op[b].event
           n == seq[b]
<1>1. /\ e \in Event /\ n \in Nat /\ head[b] \in Seq(Entry) /\ At(b, "answer")'
      /\ ref' = Extend(head[b], n, e) /\ head'[b] = Extend(head[b], n, e)
      /\ logged' = Extend(logged, n, e) /\ drawn' = drawn
      /\ logged \in Seq(Entry)
  BY CallLogged DEF TypeOK
<1>2. /\ e.kind = "grant" => e.grant \in drawn /\ Replay(logged)[e.grant] = None
      /\ e.kind = "use" =>
            /\ Replay(head[b])[e.grant] # None
            /\ Allows(Replay(logged)[e.grant], e.arg)
            /\ Replay(logged)[e.grant] # None
      /\ e.kind = "revoke" =>
            /\ Replay(head[b])[e.grant] # None
            /\ Replay(logged)[e.grant] # None
  BY CallLogged, CallStands
<1> HIDE DEF e, n
<1>3. TrueTo(head[b], logged)
  BY DEF SoleInv
<1>4. TrueTo(Extend(head[b], n, e), Extend(logged, n, e))
  BY <1>1, <1>2, <1>3, TrueToExtend
<1>5. \A g \in GrantId : Replay(logged')[g] = Apply(Replay(logged)[g], g, e)
  BY <1>1, ReplayExtend
<1>6. ASSUME NEW g \in GrantId, Replay(logged')[g] # None
      PROVE  g \in drawn
  <2>1. CASE Replay(logged)[g] # None
    BY <2>1 DEF SoleInv, FreshIds
  <2>2. CASE Replay(logged)[g] = None
    <3>1. e.grant = g
      BY <1>5, <1>6, <2>2 DEF Apply
    <3>2. e.kind = "grant"
      BY <1>5, <1>6, <2>2, <3>1 DEF Apply
    <3>3. QED
      BY <1>2, <3>1, <3>2
  <2>3. QED
    BY <2>1, <2>2
<1>7. FreshIds'
  BY <1>1, <1>6 DEF FreshIds
<1>8. Sound(logged')
  <2>1. UseAllowed(logged, [seq |-> n, event |-> e])
    BY <1>2 DEF UseAllowed
  <2>2. QED
    BY <1>1, <2>1, SoundExtend DEF SoleInv
<1>9. QED
  BY <1>1, <1>4, <1>7, <1>8 DEF SoleInv

LEMMA SoleInductive ==
    ASSUME TypeOK, SharedInv, SoleInv, [Next]_vars, NEW b, Broker = {b}
    PROVE  SoleInv'
<1>1. CASE Open(b) \/ Reload(b)
  BY <1>1, SoleFrame DEF Open, Reload, Idle, Rebuild, draws, TypeOK,
                         SharedInv, CallsBacked, CallBacked
<1>2. CASE Operate(b)
  <2>1. ASSUME NEW e, NEW m, Log(b, e, m), e.kind # "grant",
               UNCHANGED <<ref, head, logged, drawn>>
        PROVE  SoleInv'
    <3>1. op'[b].event = e
      BY <2>1 DEF Log, TypeOK
    <3>2. QED
      BY <2>1, <3>1, SoleFrame
  <2>2. \A p, a : Request(b, p, a) => SoleInv'
    BY <2>1, SoleGrant DEF Request, DenyEvent, memory, draws
  <2>3. \A cap, a : AccessCap(b, cap, a) => SoleInv'
    BY <2>1 DEF AccessCap, DenyEvent, UseEvent, draws
  <2>4. \A g : Revoke(b, g) => SoleInv'
    <3>1. \A g : RevokeEvent(g).kind # "grant"
      BY DEF RevokeEvent
    <3>2. QED
      BY <2>1, <3>1, SoleFrame DEF Revoke, Idle, draws
  <2>5. \A g : Reissue(b, g) => SoleInv'
    BY SoleFrame DEF Reissue, Idle
  <2>6. QED
    BY <1>2, <2>2, <2>3, <2>4, <2>5, SoleGrant DEF Operate
<1>3. CASE AppendFails(b) \/ RefWriteFails(b) \/ Answer(b) \/ Stop(b)
  BY <1>3, SoleFrame DEF AppendFails, RefWriteFails, Answer, Stop, memory, draws, TypeOK
<1>4. CASE StartRefWrite(b)
  BY <1>4, CallGoesOn, SoleFrame DEF StartRefWrite, memory, draws
<1>5. CASE WriteRef(b)
  BY <1>5, SoleFinish
<1>6. CASE Tick \/ UNCHANGED vars
  BY <1>6 DEF Tick, vars, memory, draws, SoleInv, TrueTo, FreshIds, At
<1>7. QED
  BY <1>1, <1>2, <1>3, <1>4, <1>5, <1>6 DEF Next, LogStep

LEMMA SoleInit == Init => SoleInv
<1> SUFFICES ASSUME Init PROVE SoleInv
  OBVIOUS
<1>1. \A g \in GrantId : Replay(<< >>)[g] = None
  BY ReplayEmpty DEF EmptyTable
<1>2. QED
  BY <1>1, EmptyChain DEF Init, SoleInv, TrueTo, FreshIds

\* While one process at a time holds a Broker, whatever was logged, with its
\* caller answered or killed before, is a sound history: torn refs, failed
\* appends and restarts never let a grant be used beyond its scope, its budget
\* or a recorded revocation.
THEOREM HistoryStaysSound ==
    ASSUME NEW b, Broker = {b}
    PROVE  Spec => [](SoleInv /\ HistorySound)
<1>1. Init => SoleInv
  BY SoleInit
<1>2. TypeOK /\ SharedInv /\ SoleInv /\ [Next]_vars => SoleInv'
  BY SoleInductive
<1>3. SoleInv => HistorySound
  BY DEF SoleInv, HistorySound
<1>4. QED
  BY <1>1, <1>2, <1>3, TypeCorrect, SharedCorrect, PTL DEF Spec

-----------------------------------------------------------------------------
(* The broker implements CapabilityFabric.  A call is a step of the fabric *)
(* when the ref takes its entry.                                           *)

Uses(chain) ==
    {<<chain[i].event.grant, chain[i].event.arg>> :
        i \in {j \in DOMAIN chain : chain[j].event.kind = "use"}}

LEMMA UsesExtend ==
    ASSUME NEW chain \in Seq(Entry), NEW n \in Nat, NEW e \in Event
    PROVE  Uses(Extend(chain, n, e)) =
             IF e.kind = "use" THEN Uses(chain) \cup {<<e.grant, e.arg>>}
                               ELSE Uses(chain)
<1> DEFINE longer == Extend(chain, n, e)
<1>1. \A i \in DOMAIN chain : longer[i] = chain[i]
  BY ExtendChain, ZenonT(30)
<1>2. longer[Len(chain) + 1].event = e
  BY ExtendChain
<1>3. DOMAIN longer = DOMAIN chain \cup {Len(chain) + 1}
  BY ExtendChain
<1> HIDE DEF longer
<1>4. QED
  BY <1>1, <1>2, <1>3 DEF Uses, longer

LEMMA StandingType ==
    ASSUME NEW state \in LoggedState
    PROVE  /\ state # None
           /\ Standing(state) = [terms |-> state.terms,
                                 revoked |-> state.revoked,
                                 uses |-> state.uses]
           /\ Standing(state) # None
<1>1. state # None
  BY WeaveLogAssumption DEF LoggedState, GrantState
<1>2. Standing(state) = [terms |-> state.terms, revoked |-> state.revoked,
                         uses |-> state.uses]
  BY <1>1 DEF Standing
<1>3. Standing(state) \in [terms : Terms, revoked : BOOLEAN, uses : Nat]
  BY <1>2 DEF LoggedState
<1>4. QED
  BY <1>1, <1>2, <1>3, WeaveBrokerAssumption

\* The call's entry, as a step of the fabric.
LEMMA LoggedRefines ==
    ASSUME TypeOK, SharedInv, SoleInv, NEW b, Broker = {b}, WriteRef(b)
    PROVE  Fabric!FNext \/ UNCHANGED <<FabricGrants, FabricReached>>
<1> DEFINE e == op[b].event
           n == seq[b]
           g == e.grant
           old == Replay(logged)[g]
<1>1. e \in Event /\ n \in Nat /\ logged \in Seq(Entry)
      /\ logged' = Extend(logged, n, e)
  BY CallLogged DEF TypeOK
<1>2. /\ e.kind = "grant" => old = None
      /\ e.kind = "use" => old # None /\ Allows(old, e.arg)
      /\ e.kind = "revoke" => old # None
  BY CallLogged, CallStands
<1> HIDE DEF e, n
<1>3. \A h \in GrantId : Replay(logged')[h] = Apply(Replay(logged)[h], h, e)
  BY <1>1, ReplayExtend
<1>4. Uses(logged') = IF e.kind = "use" THEN Uses(logged) \cup {<<g, e.arg>>}
                                       ELSE Uses(logged)
  BY <1>1, UsesExtend
<1>5. FabricReached = Uses(logged) /\ FabricReached' = Uses(logged')
  BY DEF FabricReached, Uses
<1>6. \A h \in GrantId : h # g => FabricGrants'[h] = FabricGrants[h]
  BY <1>3 DEF Apply, FabricGrants
<1>7. \A h \in GrantId : FabricGrants[h] = Standing(Replay(logged)[h])
                         /\ FabricGrants'[h] = Standing(Replay(logged')[h])
  BY DEF FabricGrants
<1>8. FabricGrants = [h \in GrantId |-> FabricGrants[h]]
      /\ FabricGrants' = [h \in GrantId |-> FabricGrants'[h]]
  BY DEF FabricGrants
<1>9. CASE e.kind = "deny"
  <2>1. \A h \in GrantId : Replay(logged')[h] = Replay(logged)[h]
    BY <1>3, <1>9 DEF Apply
  <2>2. FabricGrants' = FabricGrants
    BY <2>1 DEF FabricGrants
  <2>3. FabricReached' = FabricReached
    BY <1>4, <1>5, <1>9
  <2>4. QED
    BY <2>2, <2>3
<1>10. CASE e.kind = "grant"
  <2>1. g \in GrantId /\ e.arg \in Terms
    BY <1>1, <1>10, EventParts
  <2>2. Replay(logged')[g] = [terms |-> e.arg, revoked |-> FALSE, uses |-> 0,
                             secret |-> None]
    BY <1>3, <1>10, <2>1 DEF Apply
  <2>3. Replay(logged')[g] \in LoggedState
    BY <2>1, <2>2 DEF LoggedState
  <2>4. FabricGrants'[g] = [terms |-> e.arg, revoked |-> FALSE, uses |-> 0]
    BY <1>7, <2>1, <2>2, <2>3, StandingType
  <2>5. FabricGrants'[g] \in Fabric!NewGrant
    BY <2>1, <2>4 DEF Fabric!NewGrant, Fabric!Terms, Terms
  <2>6. FabricGrants[g] = None
    BY <1>2, <1>7, <1>10, <2>1 DEF Standing
  <2>7. FabricGrants' = [FabricGrants EXCEPT ![g] = FabricGrants'[g]]
    BY <1>6, <1>8, <2>1
  <2>8. FabricReached' = FabricReached
    BY <1>4, <1>5, <1>10
  <2>9. Fabric!Issue(g)
    BY <2>5, <2>6, <2>7, <2>8 DEF Fabric!Issue
  <2>10. QED
    BY <2>1, <2>9 DEF Fabric!FNext
<1>11. CASE e.kind = "use"
  <2>1. g \in GrantId /\ e.arg \in Access
    BY <1>1, <1>11, EventParts
  <2>2. old \in LoggedState /\ Allows(old, e.arg)
    BY <1>1, <1>2, <1>11, <2>1, ReplayType
  <2>3. Replay(logged')[g] = [old EXCEPT !.uses = @ + 1]
    BY <1>2, <1>3, <1>11, <2>1 DEF Apply
  <2>4. old.uses + 1 \in Nat
    BY <2>2 DEF LoggedState
  <2>5. Replay(logged')[g] \in LoggedState
    BY <2>2, <2>3, <2>4 DEF LoggedState
  <2>6. FabricGrants[g] = [terms |-> old.terms, revoked |-> old.revoked,
                           uses |-> old.uses] /\ FabricGrants[g] # None
    BY <1>7, <2>1, <2>2, StandingType
  <2>7. FabricGrants'[g] = [terms |-> Replay(logged')[g].terms,
                            revoked |-> Replay(logged')[g].revoked,
                            uses |-> Replay(logged')[g].uses]
    BY <1>7, <2>1, <2>5, StandingType
  <2>8. /\ Replay(logged')[g].terms = old.terms
        /\ Replay(logged')[g].revoked = old.revoked
        /\ Replay(logged')[g].uses = old.uses + 1
    BY <2>2, <2>3 DEF LoggedState
  <2> HIDE DEF old, g
  <2>9. FabricGrants'[g] = [FabricGrants[g] EXCEPT !.uses = @ + 1]
    BY <2>6, <2>7, <2>8
  <2>10. FabricGrants' = [FabricGrants EXCEPT ![g].uses = @ + 1]
    BY <1>6, <1>8, <2>1, <2>9
  <2>11. FabricReached' = FabricReached \cup {<<g, e.arg>>}
    BY <1>4, <1>5, <1>11
  <2>12. Fabric!Exercise(g, e.arg)
    BY <2>2, <2>6, <2>10, <2>11 DEF Fabric!Exercise, Fabric!InScope,
                                    Fabric!Covers, Allows, Covers
  <2>13. QED
    BY <2>1, <2>12 DEF Fabric!FNext, Fabric!Access, Access
<1>12. CASE e.kind = "revoke"
  <2>1. g \in GrantId
    BY <1>1, <1>12, EventParts
  <2>2. old \in LoggedState
    BY <1>1, <1>2, <1>12, <2>1, ReplayType
  <2>3. Replay(logged')[g] = [old EXCEPT !.revoked = TRUE]
    BY <1>2, <1>3, <1>12, <2>1 DEF Apply
  <2>4. Replay(logged')[g] \in LoggedState
    BY <2>2, <2>3 DEF LoggedState
  <2>5. FabricGrants[g] = [terms |-> old.terms, revoked |-> old.revoked,
                           uses |-> old.uses] /\ FabricGrants[g] # None
    BY <1>7, <2>1, <2>2, StandingType
  <2>6. FabricGrants'[g] = [terms |-> Replay(logged')[g].terms,
                            revoked |-> Replay(logged')[g].revoked,
                            uses |-> Replay(logged')[g].uses]
    BY <1>7, <2>1, <2>4, StandingType
  <2>7. /\ Replay(logged')[g].terms = old.terms
        /\ Replay(logged')[g].uses = old.uses
    BY <2>2, <2>3 DEF LoggedState
  <2>8. Replay(logged')[g].revoked = TRUE
    BY <2>2, <2>3, <2>4 DEF LoggedState
  <2> HIDE DEF old, g
  <2>9. PICK v : v = TRUE
    OBVIOUS
  <2>10. FabricGrants'[g] = [FabricGrants[g] EXCEPT !.revoked = v]
    <3>1. Replay(logged')[g].revoked = v
      BY <2>8, <2>9
    <3>2. QED
      BY <2>5, <2>6, <2>7, <3>1
  <2>11. FabricGrants' = [FabricGrants EXCEPT ![g].revoked = v]
    BY <1>6, <1>8, <2>1, <2>10
  <2>12. FabricGrants' = [FabricGrants EXCEPT ![g].revoked = TRUE]
    BY <2>9, <2>11, Zenon
  <2>13. FabricReached' = FabricReached
    BY <1>4, <1>5, <1>12
  <2>14. Fabric!Withdraw(g)
    BY <2>5, <2>12, <2>13 DEF Fabric!Withdraw
  <2>15. QED
    BY <2>1, <2>14 DEF Fabric!FNext
<1>13. QED
  BY <1>1, <1>9, <1>10, <1>11, <1>12, EventParts

LEMMA StepRefines ==
    ASSUME TypeOK, SharedInv, SoleInv, [Next]_vars, NEW b, Broker = {b}
    PROVE  [Fabric!FNext]_<<FabricGrants, FabricReached>>
<1>1. CASE WriteRef(b)
  BY <1>1, LoggedRefines
<1>2. CASE logged' = logged
  BY <1>2 DEF FabricGrants, FabricReached
<1>3. WriteRef(b) \/ logged' = logged
  BY DEF Next, Open, Reload, Operate, Grant, Request, AccessCap, Revoke,
         Reissue, LogStep, AppendFails, StartRefWrite, RefWriteFails, Answer,
         Stop, Tick, vars
<1>4. QED
  BY <1>1, <1>2, <1>3

LEMMA InitRefines == Init => Fabric!FInit
<1> SUFFICES ASSUME Init PROVE Fabric!FInit
  OBVIOUS
<1>1. \A g \in GrantId : Replay(logged)[g] = None
  BY ReplayEmpty DEF Init, EmptyTable
<1>2. FabricGrants = [g \in GrantId |-> None]
  BY <1>1 DEF FabricGrants, Standing
<1>3. FabricReached = {}
  BY DEF Init, FabricReached
<1>4. QED
  BY <1>2, <1>3 DEF Fabric!FInit

\* While one process at a time holds a Broker, the broker implements the
\* capability fabric: each call the ref takes is one step of it, between the
\* call and its answer, also when the process dies before it answers, and one
\* that fails, is torn or is forgotten is none.
THEOREM BrokerImplementsFabric ==
    ASSUME NEW b, Broker = {b}
    PROVE  Spec => FabricSpec
<1>1. Init => Fabric!FInit
  BY InitRefines
<1>2. TypeOK /\ SharedInv /\ SoleInv /\ [Next]_vars
        => [Fabric!FNext]_<<FabricGrants, FabricReached>>
  BY StepRefines
<1>3. Spec => [](TypeOK /\ SharedInv /\ SoleInv)
  <2>1. Spec => [](SoleInv /\ HistorySound)
    BY HistoryStaysSound
  <2>2. QED
    BY <2>1, TypeCorrect, SharedCorrect, PTL
<1>4. QED
  BY <1>1, <1>2, <1>3, PTL DEF Spec, FabricSpec, Fabric!FSpec

-----------------------------------------------------------------------------
(* The audit log, and what a revoke that was answered Ok is worth, while    *)
(* one process at a time holds a Broker.                                    *)

\* The process and the ref are at the history, but for a ref being written,
\* and what was answered or is about to be is in it.
AuditInv(b) ==
    /\ running[b] => head[b] = logged
    /\ ~ Writing(b) => ref = logged
    /\ answered \subseteq DOMAIN logged
    /\ At(b, "answer") => op[b].place \in DOMAIN logged

LEMMA AuditStep ==
    ASSUME TypeOK, SharedInv, SoleInv, NEW b, Broker = {b}, AuditInv(b), [Next]_vars,
           {"write_fails", "crash_in_write"} \cap Faults = {}
    PROVE  AuditInv(b)'
<1>1. op[b] # None => running[b]
  BY SharedParts DEF Backed, CallBacked
<1>2. ASSUME NEW e, NEW m, Log(b, e, m), Idle(b),
             UNCHANGED <<ref, head, running, logged, answered>>
      PROVE  AuditInv(b)'
  <2>1. op'[b].stage = "put"
    BY <1>2 DEF Log, TypeOK
  <2>2. ~ Writing(b) /\ ~ Writing(b)' /\ ~ At(b, "answer")'
    BY <1>2, <2>1 DEF Writing, At, Idle
  <2>3. QED
    BY <1>2, <2>2 DEF AuditInv
<1>3. ASSUME UNCHANGED <<ref, head, running, logged, answered, op>>
      PROVE  AuditInv(b)'
  BY <1>3 DEF AuditInv, Writing, At
<1>4. CASE Open(b)
  <2>1. op[b] = None /\ ~ Writing(b) /\ op' = op
    BY <1>1, <1>4 DEF Open, Writing, At
  <2>2. ref = logged /\ ref' = ref /\ logged' = logged /\ head'[b] = ref
        /\ answered' = answered
    BY <1>4, <2>1 DEF AuditInv, Open, Rebuild, TypeOK, told
  <2>3. QED
    BY <2>1, <2>2 DEF AuditInv, At
<1>5. CASE Reload(b)
  BY <1>5 DEF Reload, Idle, AuditInv, Writing, At
<1>6. CASE Operate(b)
  <2>1. ASSUME NEW terms, Grant(b, terms) PROVE AuditInv(b)'
    BY <1>2, <2>1 DEF Grant, memory, told
  <2>2. ASSUME NEW p, NEW a, Request(b, p, a) PROVE AuditInv(b)'
    BY <1>2, <2>1, <2>2 DEF Request, memory, told
  <2>3. ASSUME NEW cap, NEW a, AccessCap(b, cap, a) PROVE AuditInv(b)'
    BY <1>2, <2>3 DEF AccessCap, told
  <2>4. ASSUME NEW g, Revoke(b, g) PROVE AuditInv(b)'
    BY <1>2, <1>3, <2>4 DEF Revoke
  <2>5. ASSUME NEW g, Reissue(b, g) PROVE AuditInv(b)'
    BY <1>3, <2>5 DEF Reissue, told
  <2>6. QED
    BY <1>6, <2>1, <2>2, <2>3, <2>4, <2>5 DEF Operate
<1>7. CASE AppendFails(b)
  BY <1>7 DEF AppendFails, AuditInv, At, Writing, TypeOK, memory, told
<1>8. CASE StartRefWrite(b)
  <2>1. Writing(b)' /\ ~ At(b, "answer")'
    BY <1>8, CallGoesOn DEF Writing, At
  <2>2. QED
    BY <1>8, <2>1 DEF StartRefWrite, AuditInv, memory, told
<1>9. CASE WriteRef(b)
  <2>1. /\ ref' = Extend(head[b], seq[b], op[b].event) /\ head'[b] = ref'
        /\ logged' = Extend(logged, seq[b], op[b].event) /\ op[b] # None
        /\ op[b].event \in Event /\ seq[b] \in Nat
    BY <1>9, CallLogged
  <2>2. head[b] = logged
    BY <1>1, <2>1 DEF AuditInv
  <2>3. DOMAIN logged' = DOMAIN logged \cup {Len(logged) + 1}
    <3>1. \A c \in Seq(Entry), n \in Nat, x \in Event :
             DOMAIN Extend(c, n, x) = DOMAIN c \cup {Len(c) + 1}
      BY ExtendChain
    <3>2. QED
      BY <2>1, <3>1 DEF TypeOK
  <2>4. op'[b].place = Len(logged) + 1 /\ answered' = answered
    BY <1>9, CallGoesOn DEF WriteRef, told
  <2>5. QED
    BY <2>1, <2>2, <2>3, <2>4 DEF AuditInv
<1>10. CASE Answer(b)
  <2>1. op'[b] = None /\ answered' = answered \cup {op[b].place}
        /\ op[b].place \in DOMAIN logged
    BY <1>10 DEF Answer, AuditInv, TypeOK
  <2>2. ~ Writing(b) /\ UNCHANGED <<ref, head, running, logged>>
    BY <1>10 DEF Answer, At, Writing, memory
  <2>3. QED
    BY <2>1, <2>2 DEF AuditInv, At
<1>11. CASE Stop(b)
  <2>1. ~ Writing(b) /\ ref = logged
    BY <1>11 DEF Stop, AuditInv
  <2>2. ~ running'[b] /\ op'[b] = None /\ UNCHANGED <<ref, logged, answered>>
    BY <1>11 DEF Stop, TypeOK, told
  <2>3. QED
    BY <2>1, <2>2 DEF AuditInv, At
<1>12. CASE Tick \/ UNCHANGED vars
  BY <1>3, <1>12 DEF Tick, vars, memory, told
<1>13. ~ RefWriteFails(b)
  BY DEF RefWriteFails
<1>14. QED
  BY <1>4, <1>5, <1>6, <1>7, <1>8, <1>9, <1>10, <1>11, <1>12, <1>13 DEF Next, LogStep

\* While one process at a time holds a Broker and no write of the ref is cut
\* short, the log a reader finds is every operation the ref ever took, in
\* their order: each that was answered is in it, and one whose process was
\* killed after the write and before the answer stays in it for good, whatever
\* else fails and whenever the process ends.  With two processes even the
\* answered part fails (AnsweredIsLogged, run weave_lost_entry).
THEOREM LogIsWhatWasLogged ==
    ASSUME NEW b, Broker = {b}, {"write_fails", "crash_in_write"} \cap Faults = {}
    PROVE  Spec => [](AuditComplete /\ AnsweredIsLogged)
<1>1. Init => AuditInv(b)
  BY DEF Init, AuditInv, At
<1>2. TypeOK /\ SharedInv /\ SoleInv /\ AuditInv(b) /\ [Next]_vars => AuditInv(b)'
  BY AuditStep
<1>3. AuditInv(b) => AuditComplete /\ AnsweredIsLogged
  BY DEF AuditInv, AuditComplete, AnsweredIsLogged
<1>4. Spec => [](SoleInv /\ HistorySound)
  BY HistoryStaysSound
<1>5. QED
  BY <1>1, <1>2, <1>3, <1>4, TypeCorrect, SharedCorrect, PTL DEF Spec

\* A revocation stays in a chain, and is in it once its entry is.
LEMMA SeveredExtend ==
    ASSUME NEW chain \in Seq(Entry), NEW n \in Nat, NEW e \in Event, NEW g \in GrantId
    PROVE  /\ Severed(chain, g) /\ ~ (e.kind = "grant" /\ e.grant = g)
                => Severed(Extend(chain, n, e), g)
           /\ Replay(chain)[g] # None /\ e.kind = "revoke" /\ e.grant = g
                => Severed(Extend(chain, n, e), g)
<1> DEFINE old == Replay(chain)[g]
<1>1. Replay(Extend(chain, n, e))[g] = Apply(old, g, e)
  BY ReplayExtend
<1>2. old \in LoggedState \cup {None}
  BY ReplayType
<1> HIDE DEF old
<1>3. ASSUME old # None, e.grant # g \/ e.kind # "grant"
      PROVE  /\ Apply(old, g, e) # None
             /\ old.revoked \/ (e.kind = "revoke" /\ e.grant = g)
                    => Apply(old, g, e).revoked
  <2>1. old \in LoggedState
    BY <1>2, <1>3
  <2>2. None \notin LoggedState
    BY WeaveLogAssumption DEF LoggedState, GrantState
  <2>3. CASE e.grant # g \/ e.kind = "deny"
    <3>1. Apply(old, g, e) = old
      BY <2>3 DEF Apply
    <3>2. QED
      BY <1>3, <2>3, <3>1
  <2>4. CASE e.grant = g /\ e.kind = "use"
    <3>1. Apply(old, g, e) = [old EXCEPT !.uses = @ + 1]
      BY <1>3, <2>4 DEF Apply
    <3>2. Apply(old, g, e) \in LoggedState /\ (old.revoked => Apply(old, g, e).revoked)
      BY <2>1, <3>1 DEF LoggedState
    <3>3. QED
      BY <2>2, <2>4, <3>2
  <2>5. CASE e.grant = g /\ e.kind = "revoke"
    <3>1. Apply(old, g, e) = [old EXCEPT !.revoked = TRUE]
      BY <1>3, <2>5 DEF Apply
    <3>2. Apply(old, g, e) \in LoggedState /\ Apply(old, g, e).revoked
      BY <2>1, <3>1 DEF LoggedState
    <3>3. QED
      BY <2>2, <3>2
  <2>6. QED
    BY <1>3, <2>3, <2>4, <2>5, EventParts
<1>4. QED
  BY <1>1, <1>3 DEF Severed, SeveredIn, old

\* What memory has revoked the chain has, but for the revoke being logged; what
\* revoke answered Ok for, or is about to, is revoked in the history.
RevokedInv(b) ==
    /\ \A g \in GrantId :
          SeveredIn(table[b], g) =>
              \/ Severed(head[b], g)
              \/ /\ op[b] # None /\ ~ At(b, "answer")
                 /\ Is([event |-> op[b].event], "revoke", g)
    /\ \A g \in revokedOk : Severed(logged, g)
    /\ At(b, "answer") => \A g \in GrantId :
          Is([event |-> op[b].event], "revoke", g) => Severed(logged, g)

LEMMA RevokedStep ==
    ASSUME TypeOK, SharedInv, SoleInv, NEW b, Broker = {b}, RevokedInv(b), [Next]_vars,
           {"append_fails", "write_fails"} \cap Faults = {}
    PROVE  RevokedInv(b)'
<1>1. ASSUME UNCHANGED <<head, logged, revokedOk>>, op[b] = None,
             \A g \in GrantId : SeveredIn(table[b], g)' =>
                 SeveredIn(table[b], g)
                 \/ (op'[b] # None /\ Is([event |-> op'[b].event], "revoke", g)),
             ~ At(b, "answer")'
      PROVE  RevokedInv(b)'
  BY <1>1 DEF RevokedInv, Severed
<1>2. ASSUME NEW e, NEW m, Log(b, e, m), Idle(b), UNCHANGED <<head, logged, revokedOk, table>>
      PROVE  RevokedInv(b)'
  <2>1. ~ At(b, "answer")'
    BY <1>2, LogPuts
  <2>2. QED
    BY <1>1, <1>2, <2>1 DEF Idle, SeveredIn
<1>3. ASSUME UNCHANGED <<head, logged, revokedOk, table, op>>
      PROVE  RevokedInv(b)'
  BY <1>3 DEF RevokedInv, Severed, SeveredIn, At
<1>4. ASSUME head'[b] = ref, table'[b] = Replay(ref), UNCHANGED <<logged, revokedOk>>,
             ~ At(b, "answer")'
      PROVE  RevokedInv(b)'
  BY <1>4 DEF RevokedInv, Severed, SeveredIn
<1>5. CASE Open(b) \/ Reload(b)
  <2>1. head'[b] = ref /\ table'[b] = Replay(ref) /\ UNCHANGED <<logged, revokedOk>>
    BY <1>5 DEF Open, Reload, Rebuild, TypeOK, told
  <2>2. ~ At(b, "answer")'
    BY <1>5, SharedParts DEF Open, Reload, Idle, At, Backed, CallBacked
  <2>3. QED
    BY <1>4, <2>1, <2>2
<1>6. CASE Operate(b)
  <2>1. ASSUME NEW terms, Grant(b, terms) PROVE RevokedInv(b)'
    BY <1>2, <2>1 DEF Grant, memory, told
  <2>2. ASSUME NEW p, NEW a, Request(b, p, a) PROVE RevokedInv(b)'
    BY <1>2, <2>1, <2>2 DEF Request, memory, told
  <2>3. ASSUME NEW cap \in caps[b], NEW a, AccessCap(b, cap, a) PROVE RevokedInv(b)'
    <3>1. CASE UNCHANGED table /\ Log(b, DenyEvent, 0)
      BY <1>2, <2>3, <3>1 DEF AccessCap, told
    <3>2. CASE /\ Check(b, cap, a)
               /\ table' = [table EXCEPT ![b][cap.grant].uses = @ + 1]
      <4>1. cap.grant \in GrantId /\ table[b][cap.grant] \in GrantState
        BY <3>2 DEF Check, TypeOK, Capability
      <4>2. PICK h \in GrantId : h = cap.grant
        BY <4>1
      <4>3. table'[b] = [table[b] EXCEPT ![h] = [table[b][h] EXCEPT !.uses = @ + 1]]
        BY <3>2, <4>2 DEF TypeOK
      <4>4. ASSUME NEW g \in GrantId, SeveredIn(table[b], g)'
            PROVE  SeveredIn(table[b], g)
        <5>1. table[b] \in [GrantId -> GrantState \cup {None}]
          BY DEF TypeOK
        <5>2. None \notin GrantState
          BY WeaveLogAssumption
        <5>3. table[b][h] \in GrantState
          BY <4>1, <4>2
        <5>4. g # h => table'[b][g] = table[b][g]
          BY <4>3, <5>1
        <5>5. table'[b][h] = [table[b][h] EXCEPT !.uses = @ + 1]
          BY <4>3, <5>1
        <5>6. table'[b][h].revoked = table[b][h].revoked
          BY <5>3, <5>5 DEF GrantState
        <5>7. QED
          BY <4>4, <5>2, <5>3, <5>4, <5>6 DEF SeveredIn
      <4>5. QED
        BY <1>1, <2>3, <3>2, <4>4, LogPuts DEF AccessCap, Idle, told
    <3>3. QED
      BY <2>3, <3>1, <3>2 DEF AccessCap
  <2>4. ASSUME NEW g \in GrantId, Revoke(b, g) PROVE RevokedInv(b)'
    <3>1. table[b][g] # None /\ op[b] = None /\ UNCHANGED <<head, logged>>
      BY <2>4 DEF Revoke, Idle
    <3>2. CASE table[b][g].revoked /\ revokedOk' = revokedOk \cup {g}
               /\ UNCHANGED <<table, op>>
      <4>1. Severed(head[b], g)
        BY <3>1, <3>2 DEF RevokedInv, SeveredIn
      <4>2. Severed(logged, g)
        BY <4>1 DEF SoleInv, TrueTo, Severed, SeveredIn
      <4>3. QED
        BY <3>1, <3>2, <4>2 DEF RevokedInv, Severed, SeveredIn, At
    <3>3. CASE /\ table' = [table EXCEPT ![b][g].revoked = TRUE]
               /\ Log(b, RevokeEvent(g), 0) /\ UNCHANGED revokedOk
      <4>1. op'[b] = [event |-> RevokeEvent(g), mint |-> 0, stage |-> "put",
                      place |-> 0]
        BY <3>3 DEF Log, TypeOK
      <4>2. op'[b] \in Call /\ op'[b].event = RevokeEvent(g)
        BY <4>1, EventTypes DEF Call
      <4>3. op'[b] # None /\ Is([event |-> op'[b].event], "revoke", g)
        BY <4>2, WeaveBrokerAssumption DEF Is, RevokeEvent
      <4>4. \A h \in GrantId : h # g => table'[b][h] = table[b][h]
        BY <3>3 DEF TypeOK
      <4>5. \A h \in GrantId : h # g => (SeveredIn(table[b], h)' => SeveredIn(table[b], h))
        BY <4>4 DEF SeveredIn
      <4>6. QED
        BY <1>1, <3>1, <3>3, <4>3, <4>5, LogPuts
    <3>4. QED
      BY <2>4, <3>2, <3>3 DEF Revoke
  <2>5. ASSUME NEW g \in GrantId, Reissue(b, g) PROVE RevokedInv(b)'
    <3>1. table'[b] = [table[b] EXCEPT ![g] = [table[b][g] EXCEPT !.secret = mints + 1]]
      BY <2>5 DEF Reissue, TypeOK
    <3>2. table[b] \in [GrantId -> GrantState \cup {None}] /\ table[b][g] \in GrantState
      BY <2>5 DEF Reissue, TypeOK
    <3>3. table'[b][g] = [table[b][g] EXCEPT !.secret = mints + 1]
          /\ \A h \in GrantId : h # g => table'[b][h] = table[b][h]
      BY <3>1, <3>2
    <3>4. table'[b][g].revoked = table[b][g].revoked /\ table[b][g] # None
      BY <2>5, <3>2, <3>3 DEF GrantState, Reissue
    <3>5. \A h \in GrantId : SeveredIn(table[b], h)' => SeveredIn(table[b], h)
      BY <3>3, <3>4 DEF SeveredIn
    <3>6. QED
      BY <1>1, <2>5, <3>5 DEF Reissue, Idle, At, told
  <2>6. QED
    BY <1>6, <2>1, <2>2, <2>3, <2>4, <2>5 DEF Operate
<1>7. CASE StartRefWrite(b)
  <2>1. /\ op[b] # None /\ op'[b] # None /\ op'[b].event = op[b].event
        /\ ~ At(b, "answer") /\ ~ At(b, "answer")'
    BY <1>7, CallGoesOn DEF At, Writing
  <2>2. QED
    BY <1>7, <2>1 DEF StartRefWrite, RevokedInv, memory, told, Severed, SeveredIn
<1>8. CASE WriteRef(b)
  <2> DEFINE e == op[b].event
             n == seq[b]
  <2>1. /\ e \in Event /\ n \in Nat /\ head[b] \in Seq(Entry) /\ logged \in Seq(Entry)
        /\ head'[b] = Extend(head[b], n, e) /\ logged' = Extend(logged, n, e)
        /\ op[b] # None /\ ~ At(b, "answer") /\ op'[b].event = e
    BY <1>8, CallLogged, CallGoesOn DEF TypeOK
  <2>2. /\ e.kind = "grant" => Replay(logged)[e.grant] = None
        /\ e.kind = "revoke" => /\ Replay(head[b])[e.grant] # None
                                /\ Replay(logged)[e.grant] = Replay(head[b])[e.grant]
    BY <2>1, CallStands
  <2>3. /\ e.kind = "grant" => table' = [table EXCEPT ![b][e.grant] =
                                  [terms |-> e.arg, revoked |-> FALSE, uses |-> 0,
                                   secret |-> op[b].mint]]
        /\ e.kind # "grant" => UNCHANGED table
        /\ revokedOk' = revokedOk
    BY <1>8 DEF WriteRef, told
  <2> HIDE DEF e, n
  <2>4. ASSUME NEW g \in GrantId, SeveredIn(table[b], g)'
        PROVE  Severed(head[b], g)'
    <3>1. ~ (e.kind = "grant" /\ e.grant = g)
      <4>1. SUFFICES ASSUME e.kind = "grant", e.grant = g PROVE FALSE
        OBVIOUS
      <4>2. PICK entry : entry = [terms |-> e.arg, revoked |-> FALSE, uses |-> 0,
                                  secret |-> op[b].mint]
        OBVIOUS
      <4>3. table' = [table EXCEPT ![b][g] = entry]
        BY <2>3, <4>1, <4>2
      <4>4. table'[b][g] = entry
        BY <4>3 DEF TypeOK
      <4>5. ~ entry.revoked
        BY <4>2
      <4>6. QED
        BY <2>4, <4>4, <4>5 DEF SeveredIn
    <3>2. table'[b][g] = table[b][g]
      <4>1. CASE e.kind # "grant"
        BY <2>3, <4>1
      <4>2. CASE e.kind = "grant"
        <5>1. PICK h : h = e.grant
          OBVIOUS
        <5>2. table'[b] = [table[b] EXCEPT ![h] = [terms |-> e.arg, revoked |-> FALSE,
                                      uses |-> 0, secret |-> op[b].mint]] /\ h # g
          BY <2>3, <3>1, <4>2, <5>1 DEF TypeOK
        <5>3. table[b] \in [GrantId -> GrantState \cup {None}]
          BY DEF TypeOK
        <5>4. QED
          BY <5>2, <5>3
      <4>3. QED
        BY <4>1, <4>2
    <3>3. SeveredIn(table[b], g)
      BY <2>4, <3>2 DEF SeveredIn
    <3>4. Severed(head[b], g) \/ (e.kind = "revoke" /\ e.grant = g)
      BY <3>3 DEF RevokedInv, Is, e
    <3>5. Severed(Extend(head[b], n, e), g)
      BY <2>1, <2>2, <3>1, <3>4, SeveredExtend
    <3>6. QED
      BY <2>1, <3>5 DEF Severed, SeveredIn
  <2>5. ASSUME NEW g \in revokedOk'
        PROVE  Severed(logged, g)'
    <3>1. g \in GrantId /\ g \in revokedOk
      BY <2>3 DEF TypeOK
    <3>2. Severed(logged, g) /\ ~ (e.kind = "grant" /\ e.grant = g)
      BY <2>2, <3>1 DEF RevokedInv, Severed, SeveredIn
    <3>3. Severed(Extend(logged, n, e), g)
      BY <2>1, <3>1, <3>2, SeveredExtend
    <3>4. QED
      BY <2>1, <3>3 DEF Severed, SeveredIn
  <2>6. ASSUME NEW g \in GrantId, Is([event |-> op[b].event], "revoke", g)'
        PROVE  Severed(logged, g)'
    <3>1. e.kind = "revoke" /\ e.grant = g
      BY <2>1, <2>6 DEF Is
    <3>2. Severed(Extend(logged, n, e), g)
      BY <2>1, <2>2, <3>1, SeveredExtend
    <3>3. QED
      BY <2>1, <3>2 DEF Severed, SeveredIn
  <2>7. QED
    BY <2>4, <2>5, <2>6 DEF RevokedInv
<1>9. CASE Answer(b)
  <2> DEFINE e == op[b].event
  <2>1. /\ revokedOk' = IF e.kind = "revoke" THEN revokedOk \cup {e.grant}
                                             ELSE revokedOk
        /\ op'[b] = None /\ At(b, "answer") /\ UNCHANGED <<head, table, logged>>
    BY <1>9 DEF Answer, TypeOK, memory
  <2>2. ASSUME NEW g \in revokedOk' PROVE Severed(logged, g)
    <3>1. CASE g \in revokedOk
      BY <3>1 DEF RevokedInv
    <3>2. CASE e.kind = "revoke" /\ e.grant = g
      <4>1. op[b] # None
        BY <2>1 DEF At
      <4>2. e.grant \in GrantId
        BY <3>2, <4>1, CallType, EventParts
      <4>3. QED
        BY <2>1, <3>2, <4>2 DEF RevokedInv, Is
    <3>3. QED
      BY <2>1, <2>2, <3>1, <3>2
  <2>3. QED
    BY <2>1, <2>2 DEF RevokedInv, Severed, SeveredIn, At
<1>10. CASE Stop(b)
  <2>1. table'[b] = EmptyTable /\ op'[b] = None /\ UNCHANGED <<logged, revokedOk>>
    BY <1>10 DEF Stop, TypeOK, told
  <2>2. QED
    BY <2>1 DEF RevokedInv, EmptyTable, Severed, SeveredIn, At
<1>11. CASE Tick \/ UNCHANGED vars
  BY <1>3, <1>11 DEF Tick, vars, memory, told
<1>12. ~ AppendFails(b) /\ ~ RefWriteFails(b)
  BY DEF AppendFails, RefWriteFails
<1>13. QED
  BY <1>5, <1>6, <1>7, <1>8, <1>9, <1>10, <1>11, <1>12 DEF Next, LogStep

\* One step logs no use of a grant whose revoke was answered.
RefusesRevoked ==
    \A g \in revokedOk : \A i \in DOMAIN logged' \ DOMAIN logged : ~ Is(logged'[i], "use", g)

LEMMA StepRefusesRevoked ==
    ASSUME TypeOK, SharedInv, SoleInv, NEW b, Broker = {b}, RevokedInv(b), [Next]_vars
    PROVE  RefusesRevoked
<1>1. CASE WriteRef(b)
  <2> DEFINE e == op[b].event
  <2>1. /\ e \in Event /\ seq[b] \in Nat /\ logged \in Seq(Entry)
        /\ logged' = Extend(logged, seq[b], e) /\ op[b] # None /\ ~ At(b, "answer")
    BY <1>1, CallLogged DEF TypeOK
  <2>2. e.kind = "use" => Allows(Replay(logged)[e.grant], e.arg)
    BY <2>1, CallStands
  <2> HIDE DEF e
  <2>3. /\ logged'[Len(logged) + 1].event = e
        /\ DOMAIN logged' = DOMAIN logged \cup {Len(logged) + 1}
    <3>1. ASSUME NEW chain \in Seq(Entry), NEW n \in Nat, NEW x \in Event
          PROVE  /\ Extend(chain, n, x)[Len(chain) + 1].event = x
                 /\ DOMAIN Extend(chain, n, x) = DOMAIN chain \cup {Len(chain) + 1}
      BY ExtendChain
    <3>2. QED
      BY <2>1, <3>1
  <2>4. e.kind = "use" => ~ Severed(logged, e.grant)
    BY <2>2 DEF Allows, Severed, SeveredIn
  <2>5. QED
    BY <2>3, <2>4 DEF RefusesRevoked, RevokedInv, Is
<1>2. CASE logged' = logged
  BY <1>2 DEF RefusesRevoked
<1>3. WriteRef(b) \/ logged' = logged
  BY DEF Next, Open, Reload, Operate, Grant, Request, AccessCap, Revoke,
         Reissue, LogStep, AppendFails, StartRefWrite, RefWriteFails, Answer,
         Stop, Tick, vars
<1>4. QED
  BY <1>1, <1>2, <1>3

\* While one process at a time holds a Broker and no log call returns an error,
\* no use of a grant is logged after its revoke was answered Ok, the process being
\* killed at any moment, in the middle of a write of the ref included.
THEOREM RevokedIsRefused ==
    ASSUME NEW b, Broker = {b}, {"append_fails", "write_fails"} \cap Faults = {}
    PROVE  Spec => NoUseAfterRevokeOk
<1>1. Init => RevokedInv(b)
  BY DEF Init, RevokedInv, EmptyTable, SeveredIn, At
<1>2. TypeOK /\ SharedInv /\ SoleInv /\ RevokedInv(b) /\ [Next]_vars => RevokedInv(b)'
  BY RevokedStep
<1>3. TypeOK /\ SharedInv /\ SoleInv /\ RevokedInv(b) /\ [Next]_vars => RefusesRevoked
  BY StepRefusesRevoked
<1>4. Spec => [](SoleInv /\ HistorySound)
  BY HistoryStaysSound
<1>5. Spec => [][RefusesRevoked]_vars
  BY <1>1, <1>2, <1>3, <1>4, TypeCorrect, SharedCorrect, PTL DEF Spec
<1>6. QED
  BY <1>5 DEF NoUseAfterRevokeOk, RefusesRevoked

=============================================================================
