-------------------------- MODULE PropertiesProofs ---------------------------
(***************************************************************************)
(* Proofs about Properties for every set of editors and of property keys   *)
(* and any number of requests: the cache follows the table, a deleted key  *)
(* is in no bag and a record has one bag, but for the overlaps and the     *)
(* unchecked writers that the properties name.                             *)
(***************************************************************************)
EXTENDS Properties, TLAPS

Definition == [key : Props, type : Types]

(* A request, by the statement it is at.                                   *)
Resting == [pc : {"idle", "invalidating"}]
Loading == [pc : {"loading"}, data : SUBSET Props, defs : SUBSET Definition]
Writing == [pc : {"writing"}, data : SUBSET Props, asked : SUBSET Props, late : SUBSET Props]
Deleted == [pc : {"deleted"}, data : SUBSET Props, asked : SUBSET Props, late : SUBSET Props,
            seen : SUBSET Nat, raced : BOOLEAN]
Stripped == [pc : {"stripped"}, key : Props, seen : SUBSET Nat]
Request == Resting \cup Loading \cup Writing \cup Deleted \cup Stripped

Bag == [n : Nat, keys : SUBSET Props, late : SUBSET Props, raced : BOOLEAN]

TypeOK ==
  /\ definitions \subseteq Definition
  /\ entry \subseteq [defs : SUBSET Definition, late : BOOLEAN, behind : BOOLEAN]
  /\ bags \subseteq Bag /\ bagNo \in Nat
  /\ edits \in [Editors -> Request]
  /\ editsLeft \in Nat

-----------------------------------------------------------------------------
(* The inductive invariant *)

(* A key that a writer puts in a bag was defined when the writer asked, or  *)
(* the writer got through by a late entry or a late bag.                    *)
WritersAsked ==
  \A e \in Editors : edits[e].pc \in {"writing", "deleted"} =>
    edits[e].data \ edits[e].asked \subseteq edits[e].late

(* A deletion under way sees every bag with its key, but for one that was   *)
(* inserted meanwhile, which then says so.                                  *)
StrippersSee ==
  \A e \in Editors : edits[e].pc = "stripped" =>
    \A b \in bags : edits[e].key \in b.keys => b.n \in edits[e].seen \/ edits[e].key \in b.late

(* A writer that nobody raced deletes every bag there is.                   *)
UnracedSeeAll ==
  \A e \in Editors : edits[e].pc = "deleted" /\ ~edits[e].raced =>
    \A b \in bags : b.n \in edits[e].seen

BagInv ==
  CacheFollowsTheTable /\ WritersAsked /\ StrippersSee /\ UnracedSeeAll
  /\ DeletedIsStripped /\ OneBag

-----------------------------------------------------------------------------
(* Type correctness *)

LEMMA RequestFields ==
  ASSUME TypeOK, NEW e \in Editors
  PROVE  /\ edits[e].pc \in {"idle", "invalidating", "loading", "writing", "deleted", "stripped"}
         /\ edits[e].pc = "loading" => edits[e] \in Loading
         /\ edits[e].pc = "writing" => edits[e] \in Writing
         /\ edits[e].pc = "deleted" => edits[e] \in Deleted
         /\ edits[e].pc = "stripped" => edits[e] \in Stripped
  BY DEF TypeOK, Request, Resting, Loading, Writing, Deleted, Stripped

LEMMA InitTypeOK == PropertiesInit => TypeOK
  BY PropsAssumption DEF PropertiesInit, TypeOK, Still, Request, Resting

LEMMA KeysType == ASSUME TypeOK PROVE KeysOf(definitions) \in SUBSET Props
  BY DEF TypeOK, KeysOf, Definition

LEMMA DefinedType ==
  ASSUME TypeOK, NEW k \in Props, NEW type \in Types
  PROVE  /\ Defined(k, type) \subseteq Definition
         /\ KeysOf(definitions) \subseteq KeysOf(Defined(k, type))
<1>1. [key |-> k, type |-> type] \in Definition
  BY DEF Definition
<1>2. Defined(k, type) \subseteq Definition
  BY <1>1 DEF Defined, TypeOK
<1>3. ASSUME NEW d \in definitions PROVE \E x \in Defined(k, type) : x.key = d.key
  <2>1. CASE d.key = k
    <3>1. [key |-> k, type |-> type] \in Defined(k, type) BY DEF Defined
    <3>2. QED BY <2>1, <3>1
  <2>2. CASE d.key # k
    BY <2>2 DEF Defined
  <2>3. QED BY <2>1, <2>2
<1>4. KeysOf(definitions) \subseteq KeysOf(Defined(k, type))
  BY <1>3 DEF KeysOf
<1>5. QED BY <1>2, <1>4

LEMMA ValidatedType ==
  ASSUME TypeOK, NEW e \in Editors, NEW data \in SUBSET Props, NEW defs, NEW stale \in BOOLEAN,
         Validated(e, data, defs, stale)
  PROVE  edits' \in [Editors -> Request]
<1>1. Still \in Request
  BY DEF Still, Request, Resting
<1>2. [pc |-> "writing", data |-> data, asked |-> KeysOf(definitions),
       late |-> IF stale THEN data ELSE {}] \in Request
  BY KeysType DEF Request, Writing
<1>3. QED
  BY <1>1, <1>2 DEF Validated, Does, Closes, TypeOK

(* What Strip changes: the keys, and only to take the deleted one away.     *)
LEMMA StripTakesTheKey ==
  ASSUME NEW b \in Bag, NEW q \in Stripped
  PROVE  /\ Strip(b, q) \in Bag
         /\ Strip(b, q).n = b.n /\ Strip(b, q).late = b.late /\ Strip(b, q).raced = b.raced
         /\ Strip(b, q).keys \subseteq b.keys
         /\ b.n \in q.seen => q.key \notin Strip(b, q).keys
         /\ b.keys \ Strip(b, q).keys \subseteq {q.key}
  BY DEF Strip, Bag, Stripped

LEMMA NextTypeOK == TypeOK /\ [PropertiesNext]_propertyVars => TypeOK'
<1> SUFFICES ASSUME TypeOK, [PropertiesNext]_propertyVars PROVE TypeOK'
  OBVIOUS
<1> USE DEF Opens, Works, Does, Closes
<1>0. Still \in Request /\ Seen \subseteq Nat
  BY DEF Still, Request, Resting, Seen, TypeOK, Bag
<1>1. CASE Expires
  BY <1>1 DEF Expires, TypeOK
<1>2. ASSUME NEW e \in Editors, loadDefs(e) PROVE TypeOK'
  <2>1. UNCHANGED <<definitions, entry, bags, bagNo>> /\ editsLeft' \in Nat
    BY <1>2 DEF loadDefs, TypeOK
  <2>2. PICK data \in SUBSET Props :
          \/ \E x \in entry : Validated(e, data, x.defs, x.late \/ Uninvalidated)
          \/ Does(e, [pc |-> "loading", data |-> data, defs |-> definitions])
    BY <1>2 DEF loadDefs
  <2>3. CASE \E x \in entry : Validated(e, data, x.defs, x.late \/ Uninvalidated)
    <3>1. PICK x \in entry : Validated(e, data, x.defs, x.late \/ Uninvalidated)
      BY <2>3
    <3>2. (x.late \/ Uninvalidated) \in BOOLEAN
      OBVIOUS
    <3>3. edits' \in [Editors -> Request]
      BY <3>1, <3>2, ValidatedType
    <3>4. QED
      BY <2>1, <3>3 DEF TypeOK
  <2>4. CASE Does(e, [pc |-> "loading", data |-> data, defs |-> definitions])
    <3>1. [pc |-> "loading", data |-> data, defs |-> definitions] \in Request
      BY DEF TypeOK, Request, Loading
    <3>2. QED
      BY <2>1, <2>4, <3>1 DEF TypeOK
  <2>5. QED
    BY <2>2, <2>3, <2>4
<1>3. ASSUME NEW e \in Editors, put(e) PROVE TypeOK'
  <2>1. edits[e] \in Loading
    BY <1>3, RequestFields DEF put
  <2>2. edits' \in [Editors -> Request]
    BY <1>3, <2>1, ValidatedType DEF put, Loading
  <2>3. QED
    BY <1>3, <2>1, <2>2 DEF put, Loading, TypeOK
<1>4. ASSUME NEW e \in Editors, MergeCustomProps(e) PROVE TypeOK'
  <2>1. PICK old \in IF bags = {} THEN {NoBag} ELSE bags, added \in (SUBSET Props) \ {{}} :
          Does(e, [pc |-> "writing", data |-> old.keys \cup added, asked |-> KeysOf(definitions),
                   late |-> old.late \cup (added \ KeysOf(definitions))])
    BY <1>4 DEF MergeCustomProps
  <2>2. old.keys \subseteq Props /\ old.late \subseteq Props
    BY DEF NoBag, TypeOK, Bag
  <2>3. [pc |-> "writing", data |-> old.keys \cup added, asked |-> KeysOf(definitions),
         late |-> old.late \cup (added \ KeysOf(definitions))] \in Request
    BY <2>2, KeysType DEF Request, Writing
  <2>4. UNCHANGED <<definitions, entry, bags, bagNo>> /\ editsLeft' \in Nat
    BY <1>4 DEF MergeCustomProps, TypeOK
  <2>5. edits' \in [Editors -> Request]
    BY <2>1, <2>3 DEF TypeOK
  <2>6. QED
    BY <2>4, <2>5 DEF TypeOK
<1>5. ASSUME NEW e \in Editors, DeleteBag(e) PROVE TypeOK'
  <2>1. edits[e] \in Writing
    BY <1>5, RequestFields DEF DeleteBag
  <2>2. [pc |-> "deleted", data |-> edits[e].data, asked |-> edits[e].asked,
         late |-> edits[e].late, seen |-> Seen,
         raced |-> \E o \in Editors : edits[o].pc = "deleted"] \in Request
    BY <1>0, <2>1 DEF Writing, Request, Deleted
  <2>3. QED
    BY <1>5, <2>2 DEF DeleteBag, TypeOK
<1>6. ASSUME NEW e \in Editors, InsertBag(e) PROVE TypeOK'
  <2>1. edits[e] \in Deleted
    BY <1>6, RequestFields DEF InsertBag
  <2>2. bags' \subseteq Bag /\ bagNo' \in Nat
    BY <1>6, <2>1 DEF InsertBag, Deleted, Bag, TypeOK
  <2>3. \A o \in Editors : edits[o].pc = "deleted" => [edits[o] EXCEPT !.raced = TRUE] \in Request
    BY RequestFields DEF Deleted, Request
  <2>4. edits' \in [Editors -> Request]
    BY <1>0, <1>6, <2>3 DEF InsertBag, TypeOK
  <2>5. QED
    BY <1>6, <2>2, <2>4 DEF InsertBag, TypeOK
<1>7. ASSUME NEW e \in Editors, CreateDefinition(e) PROVE TypeOK'
  <2>1. [pc |-> "invalidating"] \in Request
    BY DEF Request, Resting
  <2>2. definitions' \subseteq Definition
    BY <1>7, DefinedType DEF CreateDefinition, TypeOK
  <2>3. QED
    BY <1>0, <1>7, <2>1, <2>2 DEF CreateDefinition, TypeOK
<1>8. ASSUME NEW e \in Editors, invalidate(e) PROVE TypeOK'
  BY <1>0, <1>8 DEF invalidate, TypeOK
<1>9. ASSUME NEW e \in Editors, DeleteDefinition(e) PROVE TypeOK'
  <2>1. \A k \in KeysOf(definitions) : [pc |-> "stripped", key |-> k, seen |-> Seen] \in Request
    BY <1>0, KeysType DEF Request, Stripped
  <2>2. QED
    BY <1>9, <2>1 DEF DeleteDefinition, TypeOK
<1>10. ASSUME NEW e \in Editors, CommitDeletion(e) PROVE TypeOK'
  <2>1. edits[e] \in Stripped
    BY <1>10, RequestFields DEF CommitDeletion
  <2>2. bags' \subseteq Bag
    BY <1>10, <2>1, StripTakesTheKey DEF CommitDeletion, TypeOK
  <2>3. [pc |-> "invalidating"] \in Request
    BY DEF Request, Resting
  <2>4. QED
    BY <1>10, <2>2, <2>3 DEF CommitDeletion, TypeOK
<1>11. CASE UNCHANGED propertyVars
  BY <1>11 DEF propertyVars, TypeOK
<1>12. CASE provisionCustomProperties
  <2>1. definitions' \subseteq Definition
    BY <1>12, DefinedType DEF provisionCustomProperties
  <2>2. entry' \subseteq [defs : SUBSET Definition, late : BOOLEAN, behind : BOOLEAN]
    BY <1>12 DEF provisionCustomProperties, TypeOK
  <2>3. QED
    BY <1>12, <2>1, <2>2 DEF provisionCustomProperties, TypeOK
<1>13. QED
  BY <1>1, <1>2, <1>3, <1>4, <1>5, <1>6, <1>7, <1>8, <1>9, <1>10, <1>11, <1>12 DEF PropertiesNext

(* The types of a state and everything written and read in it are types of  *)
(* every reachable state.                                                   *)
THEOREM TypeCorrect == PropertiesSpec => []TypeOK
<1>1. QED
  BY InitTypeOK, NextTypeOK, PTL DEF PropertiesSpec

-----------------------------------------------------------------------------
(* The invariant *)

LEMMA InitInv == PropertiesInit => BagInv
  BY DEF PropertiesInit, BagInv, CacheFollowsTheTable, WritersAsked, StrippersSee,
         UnracedSeeAll, DeletedIsStripped, OneBag, Still

(* A request that is let through has asked.                                 *)
LEMMA ValidatedAsked ==
  ASSUME TypeOK, WritersAsked, NEW e \in Editors, NEW data \in SUBSET Props,
         NEW defs, NEW stale \in BOOLEAN, KeysOf(defs) \subseteq KeysOf(definitions) \/ stale,
         Validated(e, data, defs, stale)
  PROVE  /\ WritersAsked'
         /\ \A o \in Editors : edits'[o] = edits[o] \/ edits'[o].pc \in {"idle", "writing"}
         /\ \A o \in Editors : edits'[o].pc = "invalidating" \/ o = e \/ edits'[o] = edits[o]
  BY DEF Validated, Does, Closes, Still, WritersAsked, TypeOK

(* What a step of one request leaves of the others, when it neither writes  *)
(* bags nor definitions.                                                    *)
LEMMA OthersWait ==
  ASSUME BagInv, UNCHANGED <<definitions, bags>>, NEW e \in Editors,
         \A o \in Editors : o = e \/ edits'[o] = edits[o],
         edits'[e].pc \notin {"deleted", "stripped"}
  PROVE  StrippersSee' /\ UnracedSeeAll' /\ DeletedIsStripped' /\ OneBag'
  BY DEF BagInv, StrippersSee, UnracedSeeAll, DeletedIsStripped, OneBag

(* The cache while no request begins or ends to invalidate it.              *)
LEMMA CacheWaits ==
  ASSUME CacheFollowsTheTable, UNCHANGED <<definitions, entry>>,
         \A o \in Editors : edits[o].pc = "invalidating" => edits'[o].pc = "invalidating"
  PROVE  CacheFollowsTheTable'
  BY DEF CacheFollowsTheTable, Uninvalidated

LEMMA LoadKeepsInv ==
  ASSUME TypeOK, BagInv, NEW e \in Editors, loadDefs(e) PROVE BagInv'
<1>1. UNCHANGED <<definitions, entry, bags, bagNo>> /\ edits[e].pc = "idle"
  BY DEF loadDefs, Opens
<1>2. PICK data \in SUBSET Props :
        \/ \E x \in entry : Validated(e, data, x.defs, x.late \/ Uninvalidated)
        \/ Does(e, [pc |-> "loading", data |-> data, defs |-> definitions])
  BY DEF loadDefs
<1>3. WritersAsked' /\ edits'[e].pc \notin {"deleted", "stripped"}
        /\ \A o \in Editors : o = e \/ edits'[o] = edits[o]
  <2>1. CASE \E x \in entry : Validated(e, data, x.defs, x.late \/ Uninvalidated)
    <3>1. PICK x \in entry : Validated(e, data, x.defs, x.late \/ Uninvalidated)
      BY <2>1
    <3>2. /\ (x.late \/ Uninvalidated) \in BOOLEAN
          /\ KeysOf(x.defs) \subseteq KeysOf(definitions) \/ (x.late \/ Uninvalidated)
      BY DEF BagInv, CacheFollowsTheTable
    <3>3. WritersAsked'
      BY <3>1, <3>2, ValidatedAsked DEF BagInv
    <3>4. QED
      BY <3>1, <3>3 DEF Validated, Does, Closes, Still, TypeOK
  <2>2. CASE Does(e, [pc |-> "loading", data |-> data, defs |-> definitions])
    BY <2>2 DEF Does, TypeOK, BagInv, WritersAsked
  <2>3. QED
    BY <1>2, <2>1, <2>2
<1>4. CacheFollowsTheTable'
  BY <1>1, <1>3, CacheWaits DEF BagInv
<1>5. QED
  BY <1>1, <1>3, <1>4, OthersWait DEF BagInv

LEMMA PutKeepsInv ==
  ASSUME TypeOK, BagInv, NEW e \in Editors, put(e) PROVE BagInv'
<1>1. edits[e] \in Loading /\ UNCHANGED <<definitions, bags, bagNo>>
  BY RequestFields DEF put, Works
<1>2. (edits[e].defs # definitions) \in BOOLEAN
        /\ Validated(e, edits[e].data, edits[e].defs, edits[e].defs # definitions)
  BY DEF put
<1>3. WritersAsked'
  BY <1>1, <1>2, ValidatedAsked DEF BagInv, Loading
<1>4. edits'[e].pc \notin {"deleted", "stripped"} /\ \A o \in Editors : o = e \/ edits'[o] = edits[o]
  BY <1>2 DEF Validated, Does, Closes, Still, TypeOK
<1>5. CacheFollowsTheTable'
  <2>1. \A x \in entry' : x.defs = edits[e].defs /\ x.late = (edits[e].defs # definitions)
    BY DEF put
  <2>2. \A x \in entry' : x.defs = definitions \/ x.late
    BY <2>1
  <2>3. QED
    BY <1>1, <2>2 DEF CacheFollowsTheTable
<1>6. QED
  BY <1>1, <1>3, <1>4, <1>5, OthersWait DEF BagInv

LEMMA MergeKeepsInv ==
  ASSUME TypeOK, BagInv, NEW e \in Editors, MergeCustomProps(e) PROVE BagInv'
<1>1. UNCHANGED <<definitions, entry, bags, bagNo>> /\ edits[e].pc = "idle"
  BY DEF MergeCustomProps, Opens
<1>2. PICK old \in IF bags = {} THEN {NoBag} ELSE bags, added \in (SUBSET Props) \ {{}} :
        Does(e, [pc |-> "writing", data |-> old.keys \cup added, asked |-> KeysOf(definitions),
                 late |-> old.late \cup (added \ KeysOf(definitions))])
  BY DEF MergeCustomProps
<1>3. old.keys \ KeysOf(definitions) \subseteq old.late
  BY DEF NoBag, BagInv, DeletedIsStripped
<1>4. (old.keys \cup added) \ KeysOf(definitions)
        \subseteq old.late \cup (added \ KeysOf(definitions))
  BY <1>3
<1>5. WritersAsked'
  BY <1>2, <1>4 DEF Does, TypeOK, BagInv, WritersAsked
<1>6. edits'[e].pc \notin {"deleted", "stripped"} /\ \A o \in Editors : o = e \/ edits'[o] = edits[o]
  BY <1>2 DEF Does, TypeOK
<1>7. CacheFollowsTheTable'
  BY <1>1, <1>6, CacheWaits DEF BagInv
<1>8. QED
  BY <1>1, <1>5, <1>6, <1>7, OthersWait DEF BagInv

LEMMA DeleteBagKeepsInv ==
  ASSUME TypeOK, BagInv, NEW e \in Editors, DeleteBag(e) PROVE BagInv'
<1>1. UNCHANGED <<definitions, entry, bags, bagNo>> /\ edits[e].pc = "writing"
  BY DEF DeleteBag, Works
<1>2. /\ edits'[e].pc = "deleted" /\ edits'[e].seen = Seen /\ edits'[e].data = edits[e].data
      /\ edits'[e].asked = edits[e].asked /\ edits'[e].late = edits[e].late
      /\ \A o \in Editors : o = e \/ edits'[o] = edits[o]
  BY DEF DeleteBag, Does, TypeOK
<1>3. WritersAsked'
  BY <1>1, <1>2 DEF BagInv, WritersAsked
<1>4. UnracedSeeAll'
  BY <1>1, <1>2 DEF BagInv, UnracedSeeAll, Seen
<1>5. CacheFollowsTheTable'
  BY <1>1, <1>2, CacheWaits DEF BagInv
<1>6. StrippersSee' /\ DeletedIsStripped' /\ OneBag'
  BY <1>1, <1>2 DEF BagInv, StrippersSee, DeletedIsStripped, OneBag
<1>7. QED
  BY <1>3, <1>4, <1>5, <1>6 DEF BagInv

LEMMA InsertKeepsInv ==
  ASSUME TypeOK, BagInv, NEW e \in Editors, InsertBag(e) PROVE BagInv'
<1> DEFINE q == edits[e]
           overlapped == {k \in q.asked : k \notin KeysOf(definitions) \/ Stripping(k)}
           row == [n |-> bagNo + 1, keys |-> q.data,
                   late |-> q.late \cup (q.data \cap overlapped), raced |-> q.raced]
<1>1. q \in Deleted /\ q.pc = "deleted"
  BY RequestFields DEF InsertBag, Works
<1>2. UNCHANGED <<definitions, entry>> /\ bags' = {b \in bags : b.n \notin q.seen} \cup {row}
  BY DEF InsertBag
<1>3. q.data \ q.asked \subseteq q.late
  BY <1>1 DEF BagInv, WritersAsked
<1>4. edits'[e].pc = "idle" /\ \A o \in Editors \ {e} :
        /\ edits[o].pc # "deleted" => edits'[o] = edits[o]
        /\ edits[o].pc = "deleted" =>
             /\ edits'[o].pc = "deleted" /\ edits'[o].raced
             /\ edits'[o].data = edits[o].data /\ edits'[o].asked = edits[o].asked
             /\ edits'[o].late = edits[o].late
  <2>1. \A o \in Editors : edits[o].pc = "deleted" => edits[o] \in Deleted
    BY RequestFields
  <2>2. \A r \in Deleted : LET x == [r EXCEPT !.raced = TRUE]
                           IN x.pc = r.pc /\ x.raced /\ x.data = r.data /\ x.asked = r.asked
                                /\ x.late = r.late
    BY DEF Deleted
  <2>3. edits' = [o \in Editors |->
                 IF o = e THEN Still
                 ELSE IF edits[o].pc = "deleted" THEN [edits[o] EXCEPT !.raced = TRUE] ELSE edits[o]]
    BY DEF InsertBag
  <2>4. QED
    BY <2>1, <2>2, <2>3 DEF Still
<1>5. CacheFollowsTheTable'
  BY <1>1, <1>2, <1>4, CacheWaits DEF BagInv
<1>6. WritersAsked'
  BY <1>4 DEF BagInv, WritersAsked
<1>7. StrippersSee'
  <2> SUFFICES ASSUME NEW o \in Editors, edits'[o].pc = "stripped",
                      NEW b \in bags', edits'[o].key \in b.keys
               PROVE  b.n \in edits'[o].seen \/ edits'[o].key \in b.late
    BY DEF StrippersSee
  <2>1. edits'[o] = edits[o] /\ edits[o].pc = "stripped" /\ edits[o] \in Stripped
    BY <1>4, RequestFields
  <2>2. CASE b = row
    <3>1. Stripping(edits[o].key) /\ edits[o].key \in Props
      BY <2>1 DEF Stripping, Stripped
    <3>2. edits[o].key \in q.data
      BY <2>1, <2>2
    <3>3. QED
      BY <1>3, <2>1, <2>2, <3>1, <3>2
  <2>3. CASE b \in bags
    BY <2>1, <2>3 DEF BagInv, StrippersSee
  <2>4. QED
    BY <1>2, <2>2, <2>3
<1>8. UnracedSeeAll'
  BY <1>4 DEF UnracedSeeAll
<1>9. DeletedIsStripped'
  <2>1. row.keys \ KeysOf(definitions) \subseteq row.late
    BY <1>3
  <2>2. KeysOf(definitions)' = KeysOf(definitions)
    BY <1>2 DEF KeysOf
  <2>3. QED
    BY <1>2, <2>1, <2>2 DEF BagInv, DeletedIsStripped
<1>10. OneBag'
  <2>1. \A b \in bags : b.n \notin q.seen => q.raced
    BY <1>1 DEF BagInv, UnracedSeeAll
  <2>2. row.raced = q.raced
    OBVIOUS
  <2> HIDE DEF row, q
  <2>3. \A a, b \in bags' : a # b =>
          \/ a \in bags /\ b \in bags
          \/ a = row /\ b \in bags /\ b.n \notin q.seen
          \/ b = row /\ a \in bags /\ a.n \notin q.seen
    BY <1>2
  <2>4. \A a, b \in bags : a # b => a.raced \/ b.raced
    BY DEF BagInv, OneBag
  <2>5. \A a, b \in bags' : a # b => a.raced \/ b.raced
    BY <2>1, <2>2, <2>3, <2>4
  <2>6. QED
    BY <2>5 DEF OneBag
<1>11. QED
  BY <1>5, <1>6, <1>7, <1>8, <1>9, <1>10 DEF BagInv

LEMMA CreateKeepsInv ==
  ASSUME TypeOK, BagInv, NEW e \in Editors, CreateDefinition(e) PROVE BagInv'
<1>1. UNCHANGED <<entry, bags, bagNo>> /\ edits[e].pc = "idle"
  BY DEF CreateDefinition, Opens
<1>2. /\ KeysOf(definitions) \subseteq KeysOf(definitions')
      /\ \A o \in Editors : o = e \/ edits'[o] = edits[o]
  BY DefinedType DEF CreateDefinition, Does, Closes, TypeOK
<1>3. \/ edits'[e].pc = "invalidating"
      \/ edits'[e].pc = "idle" /\ UNCHANGED definitions
  BY DEF CreateDefinition, Does, Closes, Still, TypeOK
<1>4. CacheFollowsTheTable'
  BY <1>1, <1>2, <1>3 DEF BagInv, CacheFollowsTheTable, Uninvalidated
<1>5. WritersAsked' /\ StrippersSee' /\ UnracedSeeAll' /\ DeletedIsStripped' /\ OneBag'
  BY <1>1, <1>2, <1>3 DEF BagInv, WritersAsked, StrippersSee, UnracedSeeAll, DeletedIsStripped, OneBag
<1>6. QED
  BY <1>4, <1>5 DEF BagInv

LEMMA ProvisionKeepsInv ==
  ASSUME TypeOK, BagInv, provisionCustomProperties PROVE BagInv'
<1>1. UNCHANGED <<bags, bagNo, edits>> /\ KeysOf(definitions) \subseteq KeysOf(definitions')
  BY DefinedType DEF provisionCustomProperties
<1>2. \A y \in entry' : \E x \in entry : y.defs = x.defs /\ y.late = x.late /\ y.behind
  BY DEF provisionCustomProperties, TypeOK
<1>3. CacheFollowsTheTable'
  BY <1>1, <1>2 DEF BagInv, CacheFollowsTheTable, Uninvalidated
<1>4. WritersAsked' /\ StrippersSee' /\ UnracedSeeAll' /\ DeletedIsStripped' /\ OneBag'
  BY <1>1 DEF BagInv, WritersAsked, StrippersSee, UnracedSeeAll, DeletedIsStripped, OneBag
<1>5. QED
  BY <1>3, <1>4 DEF BagInv

LEMMA InvalidateKeepsInv ==
  ASSUME TypeOK, BagInv, NEW e \in Editors, invalidate(e) PROVE BagInv'
<1>1. /\ UNCHANGED <<definitions, bags, bagNo>> /\ entry' = {} /\ edits'[e].pc = "idle"
      /\ \A o \in Editors : o = e \/ edits'[o] = edits[o]
  BY DEF invalidate, Closes, Does, Still, TypeOK
<1>2. QED
  BY <1>1, OthersWait DEF BagInv, CacheFollowsTheTable, WritersAsked

LEMMA DeleteKeepsInv ==
  ASSUME TypeOK, BagInv, NEW e \in Editors, DeleteDefinition(e) PROVE BagInv'
<1>1. UNCHANGED <<definitions, entry, bags, bagNo>> /\ edits[e].pc = "idle"
  BY DEF DeleteDefinition, Opens
<1>2. /\ edits'[e].pc = "stripped" /\ edits'[e].seen = Seen
      /\ \A o \in Editors : o = e \/ edits'[o] = edits[o]
  BY DEF DeleteDefinition, Does, TypeOK
<1>3. CacheFollowsTheTable'
  BY <1>1, <1>2, CacheWaits DEF BagInv
<1>4. StrippersSee'
  BY <1>1, <1>2 DEF BagInv, StrippersSee, Seen
<1>5. WritersAsked' /\ UnracedSeeAll' /\ DeletedIsStripped' /\ OneBag'
  BY <1>1, <1>2 DEF BagInv, WritersAsked, UnracedSeeAll, DeletedIsStripped, OneBag
<1>6. QED
  BY <1>3, <1>4, <1>5 DEF BagInv

LEMMA CommitKeepsInv ==
  ASSUME TypeOK, BagInv, NEW e \in Editors, CommitDeletion(e) PROVE BagInv'
<1> DEFINE q == edits[e]
<1>1. q \in Stripped /\ q.pc = "stripped"
  BY RequestFields DEF CommitDeletion, Works
<1>2. /\ entry' = entry /\ KeysOf(definitions') = KeysOf(definitions) \ {q.key}
      /\ bags' = {Strip(b, q) : b \in bags}
      /\ edits'[e].pc = "invalidating" /\ \A o \in Editors : o = e \/ edits'[o] = edits[o]
  BY DEF CommitDeletion, Does, TypeOK, KeysOf
<1> HIDE DEF q
<1>3. \A x \in bags' : \E b \in bags :
        /\ x = Strip(b, q) /\ b \in Bag
        /\ x.n = b.n /\ x.late = b.late /\ x.raced = b.raced /\ x.keys \subseteq b.keys
        /\ b.n \in q.seen => q.key \notin x.keys
  BY <1>1, <1>2, StripTakesTheKey DEF TypeOK
<1>4. CacheFollowsTheTable'
  BY <1>2 DEF CacheFollowsTheTable, Uninvalidated
<1>5. WritersAsked' /\ UnracedSeeAll'
  BY <1>2, <1>3 DEF BagInv, WritersAsked, UnracedSeeAll
<1>6. StrippersSee'
  BY <1>2, <1>3 DEF BagInv, StrippersSee
<1>7. DeletedIsStripped'
  <2> SUFFICES ASSUME NEW x \in bags', NEW k \in x.keys, k \notin KeysOf(definitions')
               PROVE  k \in x.late
    BY DEF DeletedIsStripped
  <2>1. PICK b \in bags :
          /\ x.n = b.n /\ x.late = b.late /\ x.keys \subseteq b.keys
          /\ b.n \in q.seen => q.key \notin x.keys
    BY <1>3
  <2>2. CASE k = q.key
    BY <1>1, <2>1, <2>2 DEF BagInv, StrippersSee, q
  <2>3. CASE k # q.key
    BY <1>2, <2>1, <2>3 DEF BagInv, DeletedIsStripped
  <2>4. QED
    BY <2>2, <2>3
<1>8. OneBag'
  <2> SUFFICES ASSUME NEW x \in bags', NEW y \in bags', x # y PROVE x.raced \/ y.raced
    BY DEF OneBag
  <2>1. PICK a \in bags : x = Strip(a, q) /\ x.raced = a.raced
    BY <1>3
  <2>2. PICK b \in bags : y = Strip(b, q) /\ y.raced = b.raced
    BY <1>3
  <2>3. a # b
    BY <2>1, <2>2
  <2>4. a.raced \/ b.raced
    BY <2>3 DEF BagInv, OneBag
  <2>5. QED
    BY <2>1, <2>2, <2>4
<1>9. QED
  BY <1>4, <1>5, <1>6, <1>7, <1>8 DEF BagInv

LEMMA NextInv == TypeOK /\ BagInv /\ [PropertiesNext]_propertyVars => BagInv'
<1> SUFFICES ASSUME TypeOK, BagInv, [PropertiesNext]_propertyVars PROVE BagInv'
  OBVIOUS
<1>1. CASE Expires
  BY <1>1 DEF Expires, BagInv, CacheFollowsTheTable, WritersAsked, StrippersSee, UnracedSeeAll,
              DeletedIsStripped, OneBag
<1>2. CASE UNCHANGED propertyVars
  BY <1>2 DEF propertyVars, BagInv, CacheFollowsTheTable, Uninvalidated, WritersAsked,
              StrippersSee, UnracedSeeAll, DeletedIsStripped, OneBag
<1>3. QED
  BY <1>1, <1>2, LoadKeepsInv, PutKeepsInv, MergeKeepsInv, DeleteBagKeepsInv, InsertKeepsInv,
     CreateKeepsInv, ProvisionKeepsInv, InvalidateKeepsInv, DeleteKeepsInv, CommitKeepsInv DEF PropertiesNext

LEMMA Invariant == PropertiesSpec => [](TypeOK /\ BagInv)
<1>1. TypeOK /\ BagInv /\ [PropertiesNext]_propertyVars => TypeOK' /\ BagInv'
  BY NextTypeOK, NextInv
<1>2. QED
  BY InitTypeOK, InitInv, <1>1, PTL DEF PropertiesSpec

(* CacheFollowsTheTable: what Set validates with is what the table holds,   *)
(* but for the two windows that the property names and for what a config    *)
(* command of lecrm-admin wrote (cache.go 84-127, provision.go 23-46).      *)
THEOREM TheCacheFollowsTheTable == PropertiesSpec => []CacheFollowsTheTable
<1>1. TypeOK /\ BagInv => CacheFollowsTheTable
  BY DEF BagInv
<1>2. QED
  BY Invariant, <1>1, PTL

(* DeletedIsStripped: a deletion leaves its key in no bag, but those whose  *)
(* writers overlapped it, got through late or merged it undefined           *)
(* (definitions.go 131-175, capability.go 377-400).                         *)
THEOREM TheDeletedIsStripped == PropertiesSpec => []DeletedIsStripped
<1>1. TypeOK /\ BagInv => DeletedIsStripped
  BY DEF BagInv
<1>2. QED
  BY Invariant, <1>1, PTL

(* OneBag: a record has one bag unless two writers had deleted before       *)
(* either inserted (set.go 119-153).                                        *)
THEOREM TheRecordHasOneBag == PropertiesSpec => []OneBag
<1>1. TypeOK /\ BagInv => OneBag
  BY DEF BagInv
<1>2. QED
  BY Invariant, <1>1, PTL
=============================================================================
