----------------------------- MODULE Properties ------------------------------
(* Custom properties (internal/metadata): the definitions of one record     *)
(* type, the cache of them in the API process, and the bag of one record,   *)
(* which is a row without a unique index.  lecrm-admin writes definitions   *)
(* too, from a process of its own.  A caller is split at its queries: what  *)
(* a statement sees is what was committed when it began, and a row another  *)
(* transaction deleted meanwhile is gone when it gets to it.                *)
EXTENDS Integers, FiniteSets

CONSTANTS
  Editors,     \* requests at work at once
  Props,       \* property keys
  Types,       \* what a definition says of its key: type, values, required
  MaxEdits     \* requests in a behaviour

ASSUME PropsAssumption == MaxEdits \in Nat

VARIABLES
  definitions, \* custom_property_definitions: [key, type]
  entry,       \* defCache for the type: {}, or {[defs, late, behind]}; late
               \* and behind are ghosts
  bags,        \* the rows of the record: [n, keys], and the ghosts late, raced
  bagNo,       \* the row inserted last
  edits,       \* editor -> its request
  editsLeft

propertyVars == <<definitions, entry, bags, bagNo, edits, editsLeft>>

Still == [pc |-> "idle"]

PropertiesInit ==
  /\ definitions = {} /\ entry = {} /\ bags = {} /\ bagNo = 0
  /\ edits = [e \in Editors |-> Still]
  /\ editsLeft \in 0..MaxEdits

Opens(e) == edits[e].pc = "idle" /\ editsLeft > 0 /\ editsLeft' = editsLeft - 1
Works(e, pc) == edits[e].pc = pc /\ UNCHANGED editsLeft
Does(e, req) == edits' = [edits EXCEPT ![e] = req]
Closes(e) == Does(e, Still)

KeysOf(defs) == {d.key : d \in defs}

(* Deleters that have stripped the bags, and changes whose handler has not  *)
(* invalidated the entry yet.                                               *)
Stripping(k) == \E e \in Editors : edits[e].pc = "stripped" /\ edits[e].key = k
Uninvalidated == \E e \in Editors : edits[e].pc = "invalidating"

-----------------------------------------------------------------------------
(* Set: the definitions from the cache or from the table, then a DELETE and *)
(* an INSERT in one transaction.                                            *)

(* An undefined key is refused; so is a value that does not fit, and data   *)
(* without a required key.                                                  *)
Validated(e, data, defs, stale) ==
  \/ /\ data \subseteq KeysOf(defs)
     /\ Does(e, [pc |-> "writing", data |-> data, asked |-> KeysOf(definitions),
                 late |-> IF stale THEN data ELSE {}])
  \/ Closes(e)

loadDefs(e) ==
  /\ Opens(e)
  /\ \E data \in SUBSET Props :
       \/ \E x \in entry : Validated(e, data, x.defs, x.late \/ Uninvalidated)
       \/ entry = {} /\ Does(e, [pc |-> "loading", data |-> data, defs |-> definitions])
  /\ UNCHANGED <<definitions, entry, bags, bagNo>>

put(e) ==
  /\ Works(e, "loading")
  /\ LET q == edits[e] IN
       /\ entry' = {[defs |-> q.defs, late |-> q.defs # definitions, behind |-> FALSE]}
       /\ Validated(e, q.data, q.defs, q.defs # definitions)
  /\ UNCHANGED <<definitions, bags, bagNo>>

(* The TTL, or the eviction of the oldest of cacheMaxSize entries.          *)
Expires ==
  /\ entry # {} /\ entry' = {}
  /\ UNCHANGED <<definitions, bags, bagNo, edits, editsLeft>>

(* MergeCustomProps reads the bag (one of them, if there are two) and puts  *)
(* it back with what it adds, which no caller looks up: an enrichment's     *)
(* score, cms, geo and category, follow_up, an intake's source, the columns *)
(* of an import.  The keys it adds undefined are noted with the late ones.  *)
NoBag == [keys |-> {}, late |-> {}]
MergeCustomProps(e) ==
  /\ Opens(e)
  /\ \E old \in IF bags = {} THEN {NoBag} ELSE bags, added \in (SUBSET Props) \ {{}} :
       Does(e, [pc |-> "writing", data |-> old.keys \cup added, asked |-> KeysOf(definitions),
                late |-> old.late \cup (added \ KeysOf(definitions))])
  /\ UNCHANGED <<definitions, entry, bags, bagNo>>

(* The DELETE of either.  It waits for the rows another writer deletes,     *)
(* which orders the two commits and nothing else.                           *)
(* Faulty variant: the bag is inserted beside the one that is there.        *)
SeenNone == {}
Seen == {b.n : b \in bags}
DeleteBag(e) ==
  /\ Works(e, "writing")
  /\ Does(e, [pc |-> "deleted", data |-> edits[e].data, asked |-> edits[e].asked,
              late |-> edits[e].late, seen |-> Seen,
              raced |-> \E o \in Editors : edits[o].pc = "deleted"])
  /\ UNCHANGED <<definitions, entry, bags, bagNo>>

(* The INSERT, the audit row and the commit.                                *)
InsertBag(e) ==
  /\ Works(e, "deleted")
  /\ LET q == edits[e]
         overlapped == {k \in q.asked : k \notin KeysOf(definitions) \/ Stripping(k)}
         row == [n |-> bagNo + 1,
                 keys |-> q.data,
                 late |-> q.late \cup (q.data \cap overlapped),
                 raced |-> q.raced]
     IN bags' = {b \in bags : b.n \notin q.seen} \cup {row}
  /\ bagNo' = bagNo + 1
  /\ edits' = [o \in Editors |->
                 IF o = e THEN Still
                 ELSE IF edits[o].pc = "deleted" THEN [edits[o] EXCEPT !.raced = TRUE] ELSE edits[o]]
  /\ UNCHANGED <<definitions, entry>>

-----------------------------------------------------------------------------
(* Definitions                                                              *)

Defined(k, type) == {d \in definitions : d.key # k} \cup {[key |-> k, type |-> type]}

(* An insertion of a key, or a second deletion, waits for a deletion of it  *)
(* that is under way.                                                       *)
CreateDefinition(e) ==
  /\ Opens(e)
  /\ \E k \in Props, type \in Types :
       /\ ~Stripping(k)
       /\ IF k \in KeysOf(definitions)         \* UNIQUE (parent_type, property_key)
          THEN Closes(e) /\ UNCHANGED definitions
          ELSE definitions' = Defined(k, type) /\ Does(e, [pc |-> "invalidating"])
  /\ UNCHANGED <<entry, bags, bagNo>>

(* One upsert of lecrm-admin's config apply or config replay: the cache is  *)
(* in another process, and nothing tells it.                                *)
provisionCustomProperties ==
  /\ editsLeft > 0 /\ editsLeft' = editsLeft - 1
  /\ \E k \in Props, type \in Types : ~Stripping(k) /\ definitions' = Defined(k, type)
  /\ entry' = {[x EXCEPT !.behind = TRUE] : x \in entry}
  /\ UNCHANGED <<bags, bagNo, edits>>

(* Faulty variant: the entry is left to its TTL.                            *)
invalidateNothing(e) == Works(e, "invalidating") /\ Closes(e) /\ UNCHANGED <<definitions, entry, bags, bagNo>>
invalidate(e) ==
  /\ Works(e, "invalidating") /\ Closes(e)
  /\ entry' = {}
  /\ UNCHANGED <<definitions, bags, bagNo>>

(* DeleteDefinition's transaction: what the strip sees, and its commit.     *)
DeleteDefinition(e) ==
  /\ Opens(e)
  /\ \E k \in KeysOf(definitions) :
       ~Stripping(k) /\ Does(e, [pc |-> "stripped", key |-> k, seen |-> Seen])
  /\ UNCHANGED <<definitions, entry, bags, bagNo>>
(* Faulty variant: the strip is forgotten.                                  *)
StripNothing(b, q) == b
Strip(b, q) == IF b.n \in q.seen THEN [b EXCEPT !.keys = @ \ {q.key}] ELSE b
CommitDeletion(e) ==
  /\ Works(e, "stripped")
  /\ LET q == edits[e] IN
       /\ definitions' = {d \in definitions : d.key # q.key}
       /\ bags' = {Strip(b, q) : b \in bags}
  /\ Does(e, [pc |-> "invalidating"])
  /\ UNCHANGED <<entry, bagNo>>

PropertiesNext ==
  \/ Expires \/ provisionCustomProperties
  \/ \E e \in Editors :
       \/ loadDefs(e) \/ put(e) \/ MergeCustomProps(e) \/ DeleteBag(e) \/ InsertBag(e)
       \/ CreateDefinition(e) \/ invalidate(e) \/ DeleteDefinition(e) \/ CommitDeletion(e)

PropertiesSpec == PropertiesInit /\ [][PropertiesNext]_propertyVars

-----------------------------------------------------------------------------
(* PROPERTY the definitions a process validates with are those of the table, *)
(* unless a change is about to invalidate them or they were put by a load   *)
(* that had read them before a change and put them after (cache.go 84-127,  *)
(* definitions.go 79-175).  An exception is the code's: after a config      *)
(* apply or config replay they lack what it wrote until they expire, as     *)
(* nothing invalidates the cache of another process (provision.go 23-46);   *)
(* even then none of them is deleted.                                       *)
CacheFollowsTheTable ==
  \A x \in entry :
    \/ x.defs = definitions \/ x.late \/ Uninvalidated
    \/ x.behind /\ KeysOf(x.defs) \subseteq KeysOf(definitions)

(* PROPERTY a deleted property is in no record: "Strip the deleted key from *)
(* all object data blobs" (definitions.go 144), unless the writer of the    *)
(* record overlapped the deletion, was let through by a late entry, or is a *)
(* connector, an intake or an import, which merge keys without asking       *)
(* whether they are defined (connectors.go 273-290, 434; import.go 733;     *)
(* intentops.go 419).                                                       *)
DeletedIsStripped ==
  \A b \in bags : b.keys \ KeysOf(definitions) \subseteq b.late

(* PROPERTY a record has one bag, "upserts the entire payload" (set.go 119),*)
(* unless two writers deleted before either had inserted; then Get returns  *)
(* one of the two until somebody writes again.                              *)
OneBag == \A a, b \in bags : a # b => a.raced \/ b.raced
=============================================================================
