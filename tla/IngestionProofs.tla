--------------------------- MODULE IngestionProofs --------------------------
(***************************************************************************)
(* Theorems about Ingestion, for any bucket, any number of runs and any    *)
(* bounds: its types, that no two runs hold the same object version, that  *)
(* a marked version is indexed, and that a run that goes well leaves the   *)
(* latest contents.                                                        *)
(***************************************************************************)
EXTENDS Ingestion, FiniteSetTheorems, SequenceTheorems, TLAPS
-----------------------------------------------------------------------------
(* The inductive invariants. *)

\* A run that is at an object has it at the head of its page, only objects
\* that exist are listed, and a run adds a content it has read.
PageInv ==
  \A r \in Runs :
    /\ stage[r] = "claim" \/ Holding(r) => page[r] # <<>>
    /\ \A i \in DOMAIN page[r] : objects[page[r][i].key] # NoObject
    /\ stage[r] \in {"delete", "add"} => fetched[r] # NoObject

TypeInv == TypeOK /\ PageInv

\* What a run holds is marked.
HeldIsMarked == \A r \in Runs : Holding(r) => At(r) \in markers

ClaimInv == TypeInv /\ HeldIsMarked /\ OneRunPerVersion
-----------------------------------------------------------------------------
(* Types. *)

\* What a listed object is made of.
LEMMA ListedType ==
  ASSUME NEW x \in Listed
  PROVE  x.key \in Keys /\ x.version \in Contents
BY DEF Listed

\* The head and the tail of a page that is not empty.
LEMMA PageSplits ==
  ASSUME TypeInv, NEW r \in Runs, page[r] # <<>>
  PROVE  /\ At(r) \in Listed
         /\ objects[At(r).key] \in Contents
         /\ Tail(page[r]) \in Seq(Listed)
         /\ \A i \in DOMAIN Tail(page[r]) :
              objects[Tail(page[r])[i].key] # NoObject
<1>1. page[r] \in Seq(Listed)
  BY DEF TypeInv, TypeOK
<1>2. /\ Head(page[r]) \in Listed
      /\ Tail(page[r]) \in Seq(Listed)
      /\ Len(page[r]) \in Nat \ {0}
      /\ DOMAIN page[r] = 1..Len(page[r])
  BY <1>1, HeadTailProperties, EmptySeq, LenProperties
<1>3. Head(page[r]) = page[r][1]
  BY <1>1
<1>4. objects[At(r).key] \in Contents
  <2>1. objects[page[r][1].key] # NoObject
    BY <1>2 DEF TypeInv, PageInv
  <2> QED BY <2>1, <1>2, <1>3, ListedType DEF TypeInv, TypeOK, At
<1>5. ASSUME NEW i \in DOMAIN Tail(page[r])
      PROVE  objects[Tail(page[r])[i].key] # NoObject
  <2>1. /\ Len(Tail(page[r])) = Len(page[r]) - 1
        /\ \A j \in 1..Len(Tail(page[r])) : Tail(page[r])[j] = page[r][j + 1]
    BY <1>1, HeadTailProperties
  <2>2. DOMAIN Tail(page[r]) = 1..Len(Tail(page[r]))
    BY <1>2, LenProperties
  <2>3. i + 1 \in DOMAIN page[r] /\ Tail(page[r])[i] = page[r][i + 1]
    BY <2>1, <2>2, <1>2
  <2> QED BY <2>3 DEF TypeInv, PageInv
<1> QED BY <1>2, <1>4, <1>5 DEF At

\* A page with more than one object does not end with the first.
LEMMA TailOfMany ==
  ASSUME TypeOK, NEW r \in Runs, page[r] # <<>>, Len(page[r]) > 1
  PROVE  Tail(page[r]) # <<>>
<1>1. page[r] \in Seq(Listed)
  BY DEF TypeOK
<1>2. Len(Tail(page[r])) = Len(page[r]) - 1 /\ Len(page[r]) \in Nat
  BY <1>1, HeadTailProperties, LenProperties
<1> DEFINE m == Len(page[r])
           t == Len(Tail(page[r]))
<1>3. m \in Nat /\ m > 1 /\ t = m - 1
  BY <1>2
<1> HIDE DEF m, t
<1>4. t # 0
  BY <1>3
<1>5. Len(<<>>) = 0
  BY EmptySeq
<1> QED BY <1>4, <1>5, Zenon DEF t

\* Going on to the next object keeps the types.
LEMMA NextObjectType ==
  ASSUME TypeInv, NEW r \in Runs, page[r] # <<>>, NextObject(r),
         UNCHANGED <<objects, token>>
  PROVE  /\ stage' \in [Runs -> Stage]
         /\ page' \in [Runs -> Seq(Listed)]
         /\ fetched' \in [Runs -> Contents \cup {NoObject}]
         /\ chunk' \in [Runs -> Nat]
         /\ PageInv'
<1> USE DEF TypeInv, TypeOK
<1>1. /\ stage' \in [Runs -> Stage]
      /\ fetched' \in [Runs -> Contents \cup {NoObject}]
      /\ chunk' \in [Runs -> Nat]
  BY DEF NextObject, Goto, Stage
<1>2. page' \in [Runs -> Seq(Listed)]
  BY PageSplits DEF NextObject
<1>3. PageInv'
  <2> SUFFICES ASSUME NEW q \in Runs
               PROVE  /\ stage'[q] = "claim" \/ Holding(q)' => page'[q] # <<>>
                      /\ \A i \in DOMAIN page'[q] : objects[page'[q][i].key] # NoObject
                      /\ stage'[q] \in {"delete", "add"} => fetched'[q] # NoObject
    BY DEF PageInv
  <2>1. CASE q # r
    BY <2>1 DEF PageInv, NextObject, Goto, Holding
  <2>2. CASE q = r
    <3>1. page'[r] = Tail(page[r]) /\ stage'[r] \in {"claim", "list", "done"}
      BY DEF NextObject, Goto
    <3>2. stage'[r] = "claim" => Tail(page[r]) # <<>>
      BY TailOfMany DEF NextObject, Goto
    <3>3. \A i \in DOMAIN Tail(page[r]) : objects[Tail(page[r])[i].key] # NoObject
      BY PageSplits
    <3>4. ~ Holding(r)' /\ stage'[r] \notin {"delete", "add"}
      BY <3>1 DEF Holding
    <3>5. \A i \in DOMAIN page'[r] : objects[page'[r][i].key] # NoObject
      BY <3>1, <3>3
    <3>6. stage'[r] = "claim" \/ Holding(r)' => page'[r] # <<>>
      BY <3>1, <3>2, <3>4
    <3> QED BY <2>2, <3>4, <3>5, <3>6
  <2> QED BY <2>1, <2>2
<1> QED BY <1>1, <1>2, <1>3

\* So does ending a run.
LEMMA EndRunType ==
  ASSUME TypeInv, NEW r \in Runs, NEW s \in {"done", "failed"}, EndRun(r, s),
         UNCHANGED objects
  PROVE  /\ stage' \in [Runs -> Stage]
         /\ page' \in [Runs -> Seq(Listed)]
         /\ token' \in [Runs -> Keys \cup {NoToken}]
         /\ fetched' \in [Runs -> Contents \cup {NoObject}]
         /\ chunk' \in [Runs -> Nat]
         /\ PageInv'
<1> USE DEF TypeInv, TypeOK, EndRun, Goto
<1>1. <<>> \in Seq(Listed) /\ DOMAIN <<>> = {}
  BY EmptySeq
<1>2. /\ stage' \in [Runs -> Stage]
      /\ page' \in [Runs -> Seq(Listed)]
      /\ token' \in [Runs -> Keys \cup {NoToken}]
      /\ fetched' \in [Runs -> Contents \cup {NoObject}]
      /\ chunk' \in [Runs -> Nat]
  BY <1>1 DEF Stage
<1>3. PageInv'
  BY <1>1 DEF PageInv, Holding
<1> QED BY <1>2, <1>3

\* The keys of a page, in order, make a page.
LEMMA ListPageType ==
  ASSUME TypeInv, NEW r \in Runs, ListPage(r)
  PROVE  TypeInv'
<1> USE DEF TypeInv, TypeOK
<1>1. CASE PageKeys(r) = {} /\ Goto(r, "done") /\ UNCHANGED <<page, token>>
  BY <1>1 DEF ListPage, Goto, Stage, PageInv, Holding, storeVars, bounds
<1>2. ASSUME PageKeys(r) # {}, Goto(r, "claim"),
             NEW keys \in Ascending(PageKeys(r)),
             page' = [page EXCEPT ![r] =
                [i \in DOMAIN keys |-> [key |-> keys[i], version |-> objects[keys[i]]]]],
             token' = [token EXCEPT ![r] =
                IF PageKeys(r) = ToList(r) THEN NoToken ELSE keys[Len(keys)]]
      PROVE  TypeInv'
  <2> DEFINE n == Cardinality(PageKeys(r))
             listed == [i \in DOMAIN keys |->
                          [key |-> keys[i], version |-> objects[keys[i]]]]
  <2>1. PageKeys(r) \in SUBSET Keys
    BY DEF PageKeys, ToList
  <2>2. n \in Nat /\ n # 0
    BY <1>2, <2>1, FS_Subset, FS_CardinalityType, FS_EmptySet, StoreAssumption
  <2>3. keys \in [1..n -> PageKeys(r)]
    BY <1>2 DEF Ascending
  <2> HIDE DEF n
  <2>4. DOMAIN keys = 1..n /\ Len(keys) = n /\ keys[n] \in Keys
    BY <2>1, <2>2, <2>3
  <2>5. \A i \in 1..n : keys[i] \in Keys /\ objects[keys[i]] \in Contents
    BY <2>1, <2>3 DEF PageKeys, ToList
  <2>6. listed \in Seq(Listed) /\ listed # <<>> /\ DOMAIN listed = 1..n
        /\ \A i \in 1..n : listed[i].key = keys[i]
    <3>1. listed \in [1..n -> Listed]
      BY <2>4, <2>5 DEF Listed
    <3>2. listed \in Seq(Listed)
      BY <3>1, <2>2, SeqDef
    <3>3. Len(listed) = n
      BY <3>1, <2>2
    <3> QED BY <2>2, <2>4, <3>2, <3>3, EmptySeq
  <2>7. page' = [page EXCEPT ![r] = listed]
    BY <1>2
  <2> HIDE DEF listed
  <2>8. TypeOK'
    <3>1. page' \in [Runs -> Seq(Listed)]
      BY <2>6, <2>7
    <3>2. token' \in [Runs -> Keys \cup {NoToken}]
      BY <1>2, <2>4
    <3>3. stage' \in [Runs -> Stage]
      BY <1>2 DEF Goto, Stage
    <3>4. UNCHANGED <<objects, uploaded, markers, points, provider, fetched, chunk, failed,
                      faults, outages, met>>
      BY DEF ListPage, storeVars, bounds
    <3> QED BY <3>1, <3>2, <3>3, <3>4
  <2>9. ASSUME NEW q \in Runs
        PROVE  /\ page'[q] # <<>> \/ ~ (stage'[q] = "claim" \/ Holding(q)')
               /\ \A i \in DOMAIN page'[q] : objects'[page'[q][i].key] # NoObject
               /\ stage'[q] \in {"delete", "add"} => fetched'[q] # NoObject
    <3>1. objects' = objects /\ fetched' = fetched
      BY DEF ListPage, storeVars
    <3>2. CASE q # r
      BY <3>1, <3>2, <1>2, <2>7 DEF PageInv, Holding, Goto
    <3>3. CASE q = r
      <4>1. page'[r] = listed /\ stage'[r] = "claim"
        BY <1>2, <2>7 DEF Goto
      <4>2. \A i \in DOMAIN listed : objects[listed[i].key] # NoObject
        <5> TAKE i \in DOMAIN listed
        <5>1. i \in 1..n /\ listed[i].key = keys[i]
          BY <2>6
        <5>2. objects[keys[i]] \in Contents
          BY <5>1, <2>5
        <5> QED BY <5>1, <5>2, StoreAssumption
      <4>3. listed # <<>>
        BY <2>6
      <4>4. stage'[r] \notin {"delete", "add"}
        BY <4>1
      <4>5. \A i \in DOMAIN page'[r] : objects'[page'[r][i].key] # NoObject
        BY <3>1, <4>1, <4>2
      <4>6. page'[r] # <<>>
        BY <4>1, <4>3
      <4> QED BY <3>3, <4>4, <4>5, <4>6, Zenon
    <3> QED BY <3>2, <3>3
  <2> QED BY <2>8, <2>9 DEF PageInv
<1> QED BY <1>1, <1>2 DEF ListPage

\* The types hold at the start ...
LEMMA TypeInit == Init => TypeInv
<1> SUFFICES ASSUME Init PROVE TypeInv
  OBVIOUS
<1>1. <<>> \in Seq(Listed) /\ DOMAIN <<>> = {}
  BY EmptySeq
<1>2. TypeOK
  BY <1>1 DEF Init, TypeOK, Stage, Interference
<1>3. PageInv
  BY <1>1 DEF Init, PageInv, Holding
<1> QED BY <1>2, <1>3 DEF TypeInv

\* The steps that only move a run within an object.
LEMMA MoveType ==
  ASSUME TypeInv, NEW r \in Runs, NEW s \in Stage,
         Goto(r, s), page[r] # <<>> \/ ~ (s = "claim" \/ Holding(r)'),
         s \in {"delete", "add"} => fetched'[r] # NoObject,
         \A q \in Runs : q # r => fetched'[q] = fetched[q],
         UNCHANGED <<objects, page>>
  PROVE  stage' \in [Runs -> Stage] /\ PageInv'
<1> USE DEF TypeInv
<1>1. stage' \in [Runs -> Stage]
  BY DEF TypeOK, Goto
<1>2. ASSUME NEW q \in Runs
      PROVE  /\ stage'[q] = "claim" \/ Holding(q)' => page'[q] # <<>>
             /\ \A i \in DOMAIN page'[q] : objects'[page'[q][i].key] # NoObject
             /\ stage'[q] \in {"delete", "add"} => fetched'[q] # NoObject
  <2>1. stage'[r] = s
    BY DEF TypeOK, Goto
  <2>2. CASE q = r
    BY <2>1, <2>2 DEF PageInv, Holding
  <2>3. CASE q # r
    <3>1. stage'[q] = stage[q] /\ fetched'[q] = fetched[q]
      BY <2>3 DEF TypeOK, Goto
    <3> QED BY <3>1 DEF PageInv, Holding
  <2> QED BY <2>2, <2>3
<1> QED BY <1>1, <1>2 DEF PageInv

\* ... and every step keeps them, for each action of the program in turn.
LEMMA TypeStep == TypeInv /\ [Next]_vars => TypeInv'
<1> SUFFICES ASSUME TypeInv, [Next]_vars PROVE TypeInv'
  OBVIOUS
<1> USE DEF storeVars, bounds
<1>1. ASSUME NEW k \in Keys, NEW c \in Contents, Upload(k, c)
      PROVE  TypeInv'
  <2>1. met' \subseteq Interference
    BY <1>1 DEF TypeInv, TypeOK, Upload, Interference
  <2>2. /\ objects' \in [Keys -> Contents \cup {NoObject}]
        /\ uploaded' \subseteq Keys \X Contents
    BY <1>1 DEF TypeInv, TypeOK, Upload
  <2>3. UNCHANGED <<markers, points, runVars, bounds>>
    BY <1>1 DEF Upload
  <2>4. TypeOK'
    BY <2>1, <2>2, <2>3 DEF TypeInv, TypeOK, runVars
  <2>5. \A j : objects[j] # NoObject => objects'[j] # NoObject
    BY <1>1, StoreAssumption DEF TypeInv, TypeOK, Upload
  <2>6. PageInv'
    BY <2>3, <2>5 DEF TypeInv, PageInv, Holding, runVars
  <2> QED BY <2>4, <2>6 DEF TypeInv
<1>2. ASSUME NEW r \in Runs, StartRun(r)
      PROVE  TypeInv'
  <2>1. PageInv' /\ stage' \in [Runs -> Stage]
    BY <1>2, MoveType DEF StartRun, Holding, Stage, Goto, TypeInv, TypeOK
  <2>2. met' \subseteq Interference
    BY <1>2 DEF TypeInv, TypeOK, StartRun, Interference
  <2> QED BY <1>2, <2>1, <2>2 DEF TypeInv, TypeOK, StartRun
<1>3. ASSUME NEW r \in Runs, Claim(r)
      PROVE  TypeInv'
  <2>1. page[r] # <<>>
    BY <1>3 DEF Claim, TypeInv, PageInv
  <2>2. At(r) \in Listed
    BY <2>1, PageSplits
  <2>3. markers' \subseteq Listed
    BY <1>3, <2>2 DEF Claim, TypeInv, TypeOK
  <2>4. CASE NextObject(r)
    BY <1>3, <2>1, <2>3, <2>4, NextObjectType DEF TypeInv, TypeOK, Claim
  <2>5. CASE Goto(r, "fetch") /\ UNCHANGED <<page, fetched, chunk>>
    <3>1. PageInv' /\ stage' \in [Runs -> Stage]
      BY <1>3, <2>1, <2>5, MoveType DEF Claim, Stage
    <3> QED BY <1>3, <2>3, <2>5, <3>1 DEF TypeInv, TypeOK, Claim
  <2> QED BY <1>3, <2>4, <2>5 DEF Claim
<1>4. ASSUME NEW r \in Runs, Fetch(r)
      PROVE  TypeInv'
  <2>1. page[r] # <<>>
    BY <1>4 DEF Fetch, Holding, TypeInv, PageInv
  <2>2. objects[At(r).key] \in Contents
    BY <2>1, PageSplits
  <2>3. CASE Goto(r, "close") /\ UNCHANGED fetched
    <3>1. PageInv' /\ stage' \in [Runs -> Stage]
      BY <1>4, <2>1, <2>3, MoveType DEF Fetch, Stage
    <3> QED BY <1>4, <2>3, <3>1 DEF TypeInv, TypeOK, Fetch
  <2>4. CASE /\ fetched' = [fetched EXCEPT ![r] = objects[At(r).key]]
             /\ Goto(r, "delete")
    <3>1. /\ fetched' \in [Runs -> Contents \cup {NoObject}]
          /\ fetched'[r] # NoObject
          /\ \A q \in Runs : q # r => fetched'[q] = fetched[q]
      BY <2>2, <2>4, StoreAssumption DEF TypeInv, TypeOK
    <3>2. PageInv' /\ stage' \in [Runs -> Stage]
      BY <1>4, <2>1, <2>4, <3>1, MoveType DEF Fetch, Stage
    <3> QED BY <1>4, <3>1, <3>2 DEF TypeInv, TypeOK, Fetch
  <2> QED BY <1>4, <2>3, <2>4 DEF Fetch
<1>5. ASSUME NEW r \in Runs, RemoveOldDocuments(r)
      PROVE  TypeInv'
  <2>1. page[r] # <<>> /\ fetched[r] # NoObject
    BY <1>5 DEF RemoveOldDocuments, Holding, TypeInv, PageInv
  <2>2. PageInv' /\ stage' \in [Runs -> Stage]
    BY <1>5, <2>1, MoveType DEF RemoveOldDocuments, Stage
  <2>3. points' \subseteq Point
    BY <1>5 DEF TypeInv, TypeOK, RemoveOldDocuments
  <2> QED BY <1>5, <2>2, <2>3 DEF TypeInv, TypeOK, RemoveOldDocuments
<1>6. ASSUME NEW r \in Runs, AddChunk(r)
      PROVE  TypeInv'
  <2>1. page[r] # <<>> /\ fetched[r] # NoObject
    BY <1>6 DEF AddChunk, Holding, TypeInv, PageInv
  <2>2. At(r).key \in Keys /\ fetched[r] \in Contents /\ chunk[r] + 1 \in Nat
    BY <2>1, PageSplits, ListedType DEF TypeInv, TypeOK
  <2>3. points' \subseteq Point
    <3>1. [in |-> provider[r], source |-> At(r).key, content |-> fetched[r],
           chunk |-> chunk[r] + 1, by |-> r] \in Point
      BY <2>2 DEF Point, TypeInv, TypeOK
    <3> QED BY <1>6, <3>1 DEF AddChunk, TypeInv, TypeOK
  <2>4. PageInv' /\ stage' \in [Runs -> Stage]
    BY <1>6, <2>1, MoveType DEF AddChunk, Stage
  <2>5. chunk' \in [Runs -> Nat]
    BY <1>6 DEF AddChunk, TypeInv, TypeOK
  <2> QED BY <1>6, <2>3, <2>4, <2>5 DEF TypeInv, TypeOK, AddChunk
<1>7. ASSUME NEW r \in Runs, Close(r)
      PROVE  TypeInv'
  <2>1. page[r] # <<>>
    BY <1>7 DEF Close, Holding, TypeInv, PageInv
  <2> QED BY <1>7, <2>1, NextObjectType DEF TypeInv, TypeOK, Close
<1>8. ASSUME NEW r \in Runs, Unclaim(r)
      PROVE  TypeInv'
  <2>1. page[r] # <<>>
    BY <1>8 DEF Unclaim, Holding, TypeInv, PageInv
  <2> QED BY <1>8, <2>1, NextObjectType DEF TypeInv, TypeOK, Unclaim
<1>9. ASSUME NEW r \in Runs, UnclaimAndAbort(r)
      PROVE  TypeInv'
  BY <1>9, EndRunType DEF TypeInv, TypeOK, UnclaimAndAbort
<1>10. ASSUME NEW r \in Runs, ProcessFails(r) \/ StepFails(r)
       PROVE  TypeInv'
  <2>1. page[r] # <<>> /\ faults' \in Nat /\ outages' \in Nat
    BY <1>10 DEF ProcessFails, StepFails, Holding, Fault, TypeInv, PageInv, TypeOK
  <2>2. PageInv' /\ stage' \in [Runs -> Stage]
    BY <1>10, <2>1, MoveType DEF ProcessFails, StepFails, Stage
  <2> QED BY <1>10, <2>1, <2>2 DEF TypeInv, TypeOK, ProcessFails, StepFails
<1>11. ASSUME NEW r \in Runs, ListOrClaimFails(r) \/ UnclaimFails(r)
       PROVE  TypeInv'
  <2>1. faults' \in Nat /\ outages' \in Nat
    BY <1>11 DEF ListOrClaimFails, UnclaimFails, Fault, Outage, TypeInv, TypeOK
  <2> QED BY <1>11, <2>1, EndRunType DEF TypeInv, TypeOK, ListOrClaimFails, UnclaimFails
<1>12. CASE Crash
  <2>1. <<>> \in Seq(Listed) /\ DOMAIN <<>> = {}
    BY EmptySeq
  <2>2. stage' \in [Runs -> Stage] /\ \A r \in Runs : ~ Holding(r)' /\ stage'[r] \notin {"claim", "delete", "add"}
    BY <1>12 DEF Crash, TypeInv, TypeOK, Stage, Active, Holding
  <2>3. TypeOK'
    BY <1>12, <2>1, <2>2 DEF Crash, TypeInv, TypeOK, Outage
  <2>4. PageInv'
    BY <1>12, <2>1, <2>2 DEF Crash, PageInv
  <2> QED BY <2>3, <2>4 DEF TypeInv
<1>13. CASE UNCHANGED vars
  BY <1>13 DEF TypeInv, TypeOK, PageInv, Holding, vars, runVars
<1> QED
  BY <1>1, <1>2, <1>3, <1>4, <1>5, <1>6, <1>7, <1>8, <1>9, <1>10, <1>11, <1>12, <1>13,
     ListPageType DEF Next, RunStep, Finished

\* Every state of every run has the declared types.
THEOREM IngestionTypeCorrect == Spec => []TypeOK
<1>1. TypeInv => TypeOK
  BY DEF TypeInv
<1> QED BY <1>1, TypeInit, TypeStep, PTL DEF Spec
-----------------------------------------------------------------------------
(* Who holds what. *)

\* Nothing is held at the start.
LEMMA ClaimInit == Init => HeldIsMarked /\ OneRunPerVersion
BY DEF Init, HeldIsMarked, OneRunPerVersion, Holding

\* A step of one run keeps what is held marked, and held once, when the run
\* lets go of its object, goes on with it, or takes one that nobody had.
LEMMA OneRunMoves ==
  ASSUME HeldIsMarked, OneRunPerVersion, NEW r \in Runs,
         \A q \in Runs : q # r => stage'[q] = stage[q] /\ page'[q] = page[q],
         \/ ~ Holding(r)' /\ markers' = markers
         \/ ~ Holding(r)' /\ Holding(r) /\ markers' = markers \ {At(r)}
         \/ Holding(r) /\ page'[r] = page[r] /\ markers' = markers
         \/ At(r) \notin markers /\ page'[r] = page[r] /\ markers' = markers \cup {At(r)}
  PROVE  HeldIsMarked' /\ OneRunPerVersion'
<1>1. ASSUME NEW q \in Runs, q # r
      PROVE  (Holding(q)' <=> Holding(q)) /\ At(q)' = At(q)
  BY <1>1 DEF Holding, At
<1>2. CASE ~ Holding(r)' /\ markers' = markers
  BY <1>1, <1>2 DEF HeldIsMarked, OneRunPerVersion
<1>3. CASE ~ Holding(r)' /\ Holding(r) /\ markers' = markers \ {At(r)}
  <2>1. ASSUME NEW q \in Runs, Holding(q)'
        PROVE  At(q)' \in markers' /\ q # r
    <3>1. q # r /\ Holding(q) /\ At(q)' = At(q)
      BY <1>1, <1>3, <2>1
    <3>2. At(q) # At(r) /\ At(q) \in markers
      BY <1>3, <3>1 DEF HeldIsMarked, OneRunPerVersion
    <3> QED BY <1>3, <3>1, <3>2
  <2> QED BY <1>1, <2>1 DEF HeldIsMarked, OneRunPerVersion
<1>4. CASE Holding(r) /\ page'[r] = page[r] /\ markers' = markers
  <2>1. At(r)' = At(r)
    BY <1>4 DEF At
  <2> QED BY <1>1, <1>4, <2>1 DEF HeldIsMarked, OneRunPerVersion
<1>5. CASE At(r) \notin markers /\ page'[r] = page[r] /\ markers' = markers \cup {At(r)}
  <2>1. At(r)' = At(r)
    BY <1>5 DEF At
  <2>2. ASSUME NEW q \in Runs, q # r, Holding(q)'
        PROVE  At(q)' \in markers /\ At(q)' # At(r)'
    <3>1. Holding(q) /\ At(q)' = At(q)
      BY <1>1, <2>2
    <3>2. At(q) \in markers
      BY <3>1 DEF HeldIsMarked
    <3> QED BY <1>5, <2>1, <3>1, <3>2
  <2>3. HeldIsMarked'
    <3> SUFFICES ASSUME NEW q \in Runs, Holding(q)'
                 PROVE  At(q)' \in markers'
      BY DEF HeldIsMarked
    <3> QED BY <1>5, <2>1, <2>2
  <2>4. OneRunPerVersion'
    <3> SUFFICES ASSUME NEW p \in Runs, NEW q \in Runs,
                        Holding(p)', Holding(q)', At(p)' = At(q)', p # q
                 PROVE  FALSE
      BY DEF OneRunPerVersion
    <3>1. CASE p = r \/ q = r
      BY <2>2, <3>1
    <3>2. CASE p # r /\ q # r
      BY <1>1, <3>2 DEF OneRunPerVersion
    <3> QED BY <3>1, <3>2
  <2> QED BY <2>3, <2>4
<1> QED BY <1>2, <1>3, <1>4, <1>5

\* The run's own part in each way out of an object.
LEMMA LettingGo ==
  ASSUME TypeOK, NEW r \in Runs,
         NextObject(r) \/ EndRun(r, "failed") \/ EndRun(r, "done")
  PROVE  /\ ~ Holding(r)'
         /\ \A q \in Runs : q # r => stage'[q] = stage[q] /\ page'[q] = page[q]
BY DEF TypeOK, NextObject, EndRun, Goto, Holding

\* Moving on within an object leaves the stages of the other runs alone.
LEMMA Going ==
  ASSUME TypeOK, NEW r \in Runs, NEW s, Goto(r, s)
  PROVE  stage'[r] = s /\ \A q \in Runs : q # r => stage'[q] = stage[q]
BY DEF TypeOK, Goto

\* Every action keeps what is held marked, and held by one run.
LEMMA ClaimStep == ClaimInv /\ [Next]_vars => ClaimInv'
<1> SUFFICES ASSUME ClaimInv, [Next]_vars PROVE HeldIsMarked' /\ OneRunPerVersion'
  BY TypeStep DEF ClaimInv
<1> USE DEF ClaimInv
<1>0. TypeOK
  BY DEF TypeInv
<1>1. ASSUME UNCHANGED <<stage, page, markers>>
      PROVE  HeldIsMarked' /\ OneRunPerVersion'
  BY <1>1 DEF HeldIsMarked, OneRunPerVersion, Holding, At
<1>2. ASSUME NEW r \in Runs, StartRun(r)
      PROVE  HeldIsMarked' /\ OneRunPerVersion'
  BY <1>0, <1>2, Going, OneRunMoves DEF StartRun, Holding
<1>3. ASSUME NEW r \in Runs, ListPage(r)
      PROVE  HeldIsMarked' /\ OneRunPerVersion'
  <2>1. ~ Holding(r)' /\ \A q \in Runs : q # r => stage'[q] = stage[q]
    BY <1>0, <1>3, Going DEF ListPage, Holding
  <2>2. \A q \in Runs : q # r => page'[q] = page[q]
    BY <1>0, <1>3 DEF ListPage, TypeOK
  <2> QED BY <1>3, <2>1, <2>2, OneRunMoves DEF ListPage
<1>4. ASSUME NEW r \in Runs, Claim(r)
      PROVE  HeldIsMarked' /\ OneRunPerVersion'
  <2>1. CASE NextObject(r) /\ UNCHANGED markers
    BY <1>0, <2>1, LettingGo, OneRunMoves
  <2>2. CASE /\ At(r) \notin markers
             /\ markers' = markers \cup {At(r)}
             /\ Goto(r, "fetch")
             /\ UNCHANGED page
    BY <1>0, <2>2, Going, OneRunMoves
  <2> QED BY <1>4, <2>1, <2>2 DEF Claim
<1>5. ASSUME NEW r \in Runs, NEW s, Holding(r), Goto(r, s), UNCHANGED <<page, markers>>
      PROVE  HeldIsMarked' /\ OneRunPerVersion'
  BY <1>0, <1>5, Going, OneRunMoves
<1>6. ASSUME NEW r \in Runs,
             \/ Fetch(r) \/ RemoveOldDocuments(r) \/ AddChunk(r)
             \/ ProcessFails(r) \/ StepFails(r)
      PROVE  HeldIsMarked' /\ OneRunPerVersion'
  BY <1>5, <1>6 DEF Fetch, RemoveOldDocuments, AddChunk, ProcessFails, StepFails, Holding
<1>7. ASSUME NEW r \in Runs, Close(r) \/ ListOrClaimFails(r) \/ UnclaimFails(r)
      PROVE  HeldIsMarked' /\ OneRunPerVersion'
  BY <1>0, <1>7, LettingGo, OneRunMoves DEF Close, ListOrClaimFails, UnclaimFails
<1>8. ASSUME NEW r \in Runs, Unclaim(r) \/ UnclaimAndAbort(r)
      PROVE  HeldIsMarked' /\ OneRunPerVersion'
  <2>1. Holding(r) /\ markers' = markers \ {At(r)}
    BY <1>8 DEF Unclaim, UnclaimAndAbort, Holding
  <2>2. NextObject(r) \/ EndRun(r, "failed")
    BY <1>8 DEF Unclaim, UnclaimAndAbort
  <2> QED BY <1>0, <2>1, <2>2, LettingGo, OneRunMoves
<1>9. CASE Crash
  <2>1. \A r \in Runs : ~ Holding(r)'
    BY <1>0, <1>9 DEF Crash, TypeOK, Active, Holding
  <2> QED BY <2>1 DEF HeldIsMarked, OneRunPerVersion
<1>10. ASSUME NEW k \in Keys, NEW c \in Contents, Upload(k, c)
       PROVE  HeldIsMarked' /\ OneRunPerVersion'
  BY <1>1, <1>10 DEF Upload, runVars
<1>11. CASE UNCHANGED vars
  BY <1>1, <1>11 DEF vars, runVars
<1> QED
  BY <1>2, <1>3, <1>4, <1>6, <1>7, <1>8, <1>9, <1>10, <1>11
  DEF Next, RunStep, Finished

\* However many runs overlap, fail, are cut off by a crash or are retried, no
\* two of them are at work on the same version of the same object: the claim
\* by putIfAbsent is exclusive until its run lets go.
THEOREM ClaimsAreExclusive == Spec => []OneRunPerVersion
<1>1. Init => ClaimInv
  BY TypeInit, ClaimInit DEF ClaimInv
<1>2. ClaimInv => OneRunPerVersion
  BY DEF ClaimInv
<1> QED BY <1>1, <1>2, ClaimStep, PTL DEF Spec
-----------------------------------------------------------------------------
(* What the marked versions and the collections have to do with each other: *)
(* the inductive invariants.                                                *)

\* The objects a run has still to look at.
OnPage(r) == Range(page[r])

\* A run that is not under way or about to list has no page, one that was never
\* started has no token, and none has added a chunk before it is at it; only a
\* counted failure takes a run to "unclaim".
AtRest(r) ==
  /\ stage[r] = "list" \/ r \notin Active => page[r] = <<>>
  /\ stage[r] = "new" => token[r] = NoToken
  /\ stage[r] \in {"new", "list", "claim", "fetch", "delete"} => chunk[r] = 0
  /\ stage[r] = "unclaim" => failed[r]
RestInv == \A r \in Runs : AtRest(r)

\* Only uploaded versions are in the bucket, on a page, or marked.
SeenInv ==
  /\ \A k \in Keys : objects[k] # NoObject => <<k, objects[k]>> \in uploaded
  /\ \A r \in Runs : \A x \in OnPage(r) : <<x.key, x.version>> \in uploaded
  /\ \A x \in markers : <<x.key, x.version>> \in uploaded

\* What is on the page of a run is what the bucket holds.
Current(r) == \A x \in OnPage(r) : x.version = objects[x.key]
CurrentInv == Undisturbed => \A r \in Runs : Current(r)

OfKey(p, k) == {x \in points : x.in = p /\ x.source = k}
\* The first n chunks of content c as run r adds them.
Pieces(p, k, c, r, n) ==
  {[in |-> p, source |-> k, content |-> c, chunk |-> i, by |-> r] : i \in 1..n}
AddedBy(r, n) == Pieces(provider[r], At(r).key, fetched[r], r, n)

\* A run that is adding has read the current content, has some of it to add,
\* and its collection holds of that key what it has added so far.
Adding(r) ==
  /\ stage[r] \in {"delete", "add"} =>
       fetched[r] = objects[At(r).key] /\ chunk[r] < ChunkCount[fetched[r]]
  /\ stage[r] = "add" => OfKey(provider[r], At(r).key) = AddedBy(r, chunk[r])
AddingInv == Undisturbed => \A r \in Runs : Adding(r)

\* A marked version with text is being worked on, or is in the collection of a
\* run that was started.
Working(k) == \E r \in Runs : Holding(r) /\ At(r).key = k /\ stage[r] # "close"
Indexed(k) == \E r \in Runs : stage[r] # "new" /\ HoldsExactly(provider[r], k, objects[k])
IndexInv ==
  Undisturbed => \A k \in Keys : HasText(k) /\ Marked(k) => Working(k) \/ Indexed(k)

MarkInv == ClaimInv /\ RestInv /\ SeenInv /\ CurrentInv /\ AddingInv /\ IndexInv
-----------------------------------------------------------------------------
(* Pages. *)

\* The first of a sequence and the rest make up all of it.
LEMMA HeadAndRest ==
  ASSUME NEW S, NEW s \in Seq(S), s # <<>>
  PROVE  /\ Range(s) = {Head(s)} \cup Range(Tail(s))
         /\ ~ Len(s) > 1 => Tail(s) = <<>>
<1>1. /\ Len(s) \in Nat \ {0} /\ DOMAIN s = 1..Len(s)
      /\ Tail(s) \in Seq(S) /\ Len(Tail(s)) = Len(s) - 1
      /\ \A i \in 1..Len(Tail(s)) : Tail(s)[i] = s[i + 1]
  BY HeadTailProperties, EmptySeq, LenProperties
<1>2. DOMAIN Tail(s) = 1..Len(Tail(s)) /\ Head(s) = s[1]
  BY <1>1, LenProperties
<1> DEFINE n == Len(s)
           t == Tail(s)
<1>3. /\ n \in Nat \ {0} /\ DOMAIN s = 1..n /\ DOMAIN t = 1..(n - 1)
      /\ \A i \in 1..(n - 1) : t[i] = s[i + 1]
  BY <1>1, <1>2
<1>4. ASSUME ~ n > 1
      PROVE  t = <<>>
  <2>1. Len(t) = 0
    BY <1>1, <1>3, <1>4
  <2> QED BY <1>1, <2>1, EmptySeq
<1> HIDE DEF n, t
<1>5. ASSUME NEW x \in Range(s)
      PROVE  x \in {s[1]} \cup Range(t)
  <2>1. PICK i \in 1..n : x = s[i]
    BY <1>3 DEF Range
  <2>2. CASE i # 1
    <3>1. i - 1 \in 1..(n - 1) /\ t[i - 1] = s[(i - 1) + 1]
      BY <1>3, <2>2
    <3>2. (i - 1) + 1 = i
      BY <1>3
    <3> QED BY <1>3, <2>1, <3>1, <3>2 DEF Range
  <2> QED BY <2>1, <2>2
<1>6. ASSUME NEW x \in {s[1]} \cup Range(t)
      PROVE  x \in Range(s)
  <2>1. CASE x = s[1]
    BY <1>3, <2>1 DEF Range
  <2>2. ASSUME NEW i \in 1..(n - 1), x = t[i]
        PROVE  x \in Range(s)
    <3>1. i + 1 \in 1..n /\ t[i] = s[i + 1]
      BY <1>3
    <3> QED BY <1>3, <2>2, <3>1 DEF Range
  <2> QED BY <1>3, <2>1, <2>2 DEF Range
<1> QED BY <1>2, <1>4, <1>5, <1>6 DEF n, t

\* Nothing is on an empty page.
LEMMA EmptyPage == Range(<<>>) = {} /\ \A S : <<>> \in Seq(S)
BY EmptySeq DEF Range

\* What is on a page was listed.
LEMMA OnPageType ==
  ASSUME TypeOK, NEW r \in Runs
  PROVE  /\ \A x \in OnPage(r) : x \in Listed /\ x.key \in Keys
         /\ page[r] # <<>> => At(r) \in OnPage(r)
<1>1. page[r] \in Seq(Listed)
  BY DEF TypeOK
<1>2. \A x \in OnPage(r) : x \in Listed
  BY <1>1 DEF OnPage, Range
<1>3. page[r] # <<>> => At(r) \in OnPage(r)
  BY <1>1, HeadAndRest DEF OnPage, At
<1> QED BY <1>2, <1>3, ListedType

\* Going on takes the object off the page; what is over has an empty one.
LEMMA NextObjectPage ==
  ASSUME TypeOK, NEW r \in Runs, page[r] # <<>>, NextObject(r)
  PROVE  /\ OnPage(r) = {At(r)} \cup OnPage(r)'
         /\ stage'[r] # "claim" => page'[r] = <<>>
         /\ stage'[r] \in {"claim", "list", "done"}
         /\ stage'[r] = "list" => token[r] # NoToken
         /\ stage'[r] = "done" => token[r] = NoToken
         /\ chunk'[r] = 0
<1>1. page[r] \in Seq(Listed) /\ page'[r] = Tail(page[r]) /\ chunk'[r] = 0
  BY DEF TypeOK, NextObject
<1>2. stage'[r] = IF Len(page[r]) > 1 THEN "claim"
                  ELSE IF token[r] # NoToken THEN "list" ELSE "done"
  BY DEF TypeOK, NextObject, Goto
<1>3. Range(page[r]) = {Head(page[r])} \cup Range(Tail(page[r]))
  BY <1>1, HeadAndRest
<1>4. ~ Len(page[r]) > 1 => Tail(page[r]) = <<>>
  BY <1>1, HeadAndRest
<1>5. OnPage(r) = {At(r)} \cup OnPage(r)'
  BY <1>1, <1>3 DEF OnPage, At
<1> QED BY <1>1, <1>2, <1>4, <1>5

\* A page lists the keys of PageKeys, each with its present content.
LEMMA ListedPage ==
  ASSUME TypeInv, NEW r \in Runs, ListPage(r), stage'[r] = "claim"
  PROVE  /\ \A k \in PageKeys(r) : [key |-> k, version |-> objects[k]] \in OnPage(r)'
         /\ \A x \in OnPage(r)' : x.key \in PageKeys(r) /\ x.version = objects[x.key]
         /\ PageKeys(r) # ToList(r) => token'[r] \in PageKeys(r)
<1> DEFINE n == Cardinality(PageKeys(r))
<1>1. PICK keys \in Ascending(PageKeys(r)) :
        /\ page' = [page EXCEPT ![r] =
             [i \in DOMAIN keys |-> [key |-> keys[i], version |-> objects[keys[i]]]]]
        /\ token' = [token EXCEPT ![r] =
             IF PageKeys(r) = ToList(r) THEN NoToken ELSE keys[Len(keys)]]
        /\ PageKeys(r) # {}
  BY DEF ListPage, Goto, TypeInv, TypeOK
<1>2. IsFiniteSet(PageKeys(r)) /\ n \in Nat /\ n # 0
  BY <1>1, FS_Subset, FS_CardinalityType, FS_EmptySet, StoreAssumption DEF PageKeys, ToList
<1>3. /\ keys \in [1..n -> PageKeys(r)]
      /\ \A i, j \in 1..n : i < j => keys[i] < keys[j]
  BY <1>1 DEF Ascending
<1>4. PageKeys(r) \subseteq Nat
  BY StoreAssumption DEF PageKeys, ToList
<1> HIDE DEF n
<1>5. keys \in Injection(1..n, PageKeys(r))
  <2> SUFFICES ASSUME NEW i \in 1..n, NEW j \in 1..n, i # j
               PROVE  keys[i] # keys[j]
    BY <1>3 DEF Injection, IsInjective
  <2>1. keys[i] \in Nat /\ keys[j] \in Nat
    BY <1>3, <1>4
  <2>2. i < j \/ j < i
    BY <1>2
  <2> QED BY <1>3, <2>1, <2>2
<1>6. keys \in Surjection(1..n, PageKeys(r))
  <2>1. Cardinality(1..n) = n
    BY <1>2, FS_Interval
  <2> QED BY <1>2, <1>5, <2>1, FS_Injection DEF n
<1>7. page'[r] = [i \in 1..n |-> [key |-> keys[i], version |-> objects[keys[i]]]]
  BY <1>1, <1>3 DEF TypeInv, TypeOK
<1>8. ASSUME NEW k \in PageKeys(r)
      PROVE  [key |-> k, version |-> objects[k]] \in OnPage(r)'
  <2>1. PICK i \in 1..n : keys[i] = k
    BY <1>6 DEF Surjection
  <2> QED BY <1>7, <2>1 DEF OnPage, Range
<1>9. ASSUME NEW x \in OnPage(r)'
      PROVE  x.key \in PageKeys(r) /\ x.version = objects[x.key]
  <2>1. PICK i \in 1..n : x = [key |-> keys[i], version |-> objects[keys[i]]]
    BY <1>7 DEF OnPage, Range
  <2> QED BY <1>3, <2>1
<1>10. ASSUME PageKeys(r) # ToList(r)
       PROVE  token'[r] \in PageKeys(r)
  <2>1. Len(keys) = n /\ n \in 1..n
    BY <1>2, <1>3
  <2> QED BY <1>1, <1>3, <1>10, <2>1 DEF TypeInv, TypeOK
<1> QED BY <1>8, <1>9, <1>10
-----------------------------------------------------------------------------
(* The steps of one run. *)

RunAction(r) ==
  \/ StartRun(r) \/ RunStep(r) \/ ProcessFails(r) \/ StepFails(r)
  \/ ListOrClaimFails(r) \/ UnclaimFails(r)

\* What run q is about stays as it is.
StaysAs(q) ==
  /\ stage'[q] = stage[q] /\ page'[q] = page[q] /\ token'[q] = token[q]
  /\ fetched'[q] = fetched[q] /\ chunk'[q] = chunk[q] /\ failed'[q] = failed[q]

\* A step of one run leaves the other runs and the bucket alone.
LEMMA OthersStay ==
  ASSUME TypeOK, NEW r \in Runs, RunAction(r)
  PROVE  /\ \A q \in Runs : q # r => StaysAs(q)
         /\ UNCHANGED <<provider, objects, uploaded>>
<1> USE DEF StaysAs, storeVars, Goto, TypeOK
<1>1. CASE StartRun(r) \/ ProcessFails(r) \/ StepFails(r)
  BY <1>1 DEF StartRun, ProcessFails, StepFails
<1>2. CASE Fetch(r) \/ RemoveOldDocuments(r) \/ AddChunk(r)
  BY <1>2 DEF Fetch, RemoveOldDocuments, AddChunk
<1>3. CASE ListPage(r)
  BY <1>3 DEF ListPage
<1>4. CASE Claim(r) \/ Close(r) \/ Unclaim(r)
  BY <1>4 DEF Claim, Close, Unclaim, NextObject
<1>5. CASE UnclaimAndAbort(r) \/ ListOrClaimFails(r) \/ UnclaimFails(r)
  BY <1>5 DEF UnclaimAndAbort, ListOrClaimFails, UnclaimFails, EndRun
<1> QED BY <1>1, <1>2, <1>3, <1>4, <1>5 DEF RunAction, RunStep

\* It marks what it claims and unmarks what it held, and does nothing else to
\* the markers; only adding and removing touch the collections; no history is
\* lost, and there is an outage only when a marker cannot be removed.
LEMMA RunChanges ==
  ASSUME NEW r \in Runs, RunAction(r)
  PROVE  /\ \/ markers' = markers
            \/ Claim(r) /\ At(r) \notin markers /\ markers' = markers \cup {At(r)}
            \/ (Unclaim(r) \/ UnclaimAndAbort(r)) /\ markers' = markers \ {At(r)}
         /\ points' = points \/ RemoveOldDocuments(r) \/ AddChunk(r)
         /\ met' = met \/ StartRun(r)
         /\ outages' = outages \/ UnclaimFails(r)
<1> USE DEF storeVars, bounds
<1>1. CASE StartRun(r) \/ ListPage(r)
  BY <1>1 DEF StartRun, ListPage
<1>2. CASE Claim(r)
  BY <1>2 DEF Claim
<1>3. CASE Fetch(r) \/ Close(r)
  BY <1>3 DEF Fetch, Close
<1>4. CASE RemoveOldDocuments(r) \/ AddChunk(r)
  BY <1>4 DEF RemoveOldDocuments, AddChunk
<1>5. CASE Unclaim(r) \/ UnclaimAndAbort(r)
  BY <1>5 DEF Unclaim, UnclaimAndAbort
<1>6. CASE ProcessFails(r) \/ StepFails(r) \/ ListOrClaimFails(r) \/ UnclaimFails(r)
  BY <1>6 DEF ProcessFails, StepFails, ListOrClaimFails, UnclaimFails, Fault
<1> QED BY <1>1, <1>2, <1>3, <1>4, <1>5, <1>6 DEF RunAction, RunStep

\* A step is one of a run, an upload, a crash, or no step.
LEMMA Steps ==
  ASSUME [Next]_vars
  PROVE  \/ \E r \in Runs : RunAction(r)
         \/ \E k \in Keys, c \in Contents : Upload(k, c)
         \/ Crash
         \/ UNCHANGED vars
BY DEF Next, RunAction, Finished

\* A run lets go of an object with an empty page, or goes to the next one.
LEMMA EndRunPage ==
  ASSUME TypeOK, NEW r \in Runs, EndRun(r, "failed")
  PROVE  stage'[r] = "failed" /\ page'[r] = <<>> /\ chunk'[r] = 0
BY DEF EndRun, Goto, TypeOK

\* After a step a run still rests as it should ...
LEMMA RunRests ==
  ASSUME TypeInv, RestInv, NEW r \in Runs, RunAction(r)
  PROVE  AtRest(r)'
<1> USE DEF AtRest, Active
<1>0. TypeOK /\ AtRest(r) /\ (stage[r] = "claim" \/ Holding(r) => page[r] # <<>>)
  BY DEF TypeInv, PageInv, RestInv
<1>1. CASE StartRun(r) \/ ProcessFails(r) \/ StepFails(r)
  BY <1>0, <1>1 DEF StartRun, ProcessFails, StepFails, Goto, TypeOK
<1>2. CASE Fetch(r) \/ RemoveOldDocuments(r) \/ AddChunk(r)
  <2>1. CASE Fetch(r)
    BY <1>0, <2>1 DEF Fetch, Goto, TypeOK
  <2>2. CASE RemoveOldDocuments(r)
    BY <1>0, <2>2 DEF RemoveOldDocuments, Goto, TypeOK
  <2>3. CASE AddChunk(r)
    <3>1. stage'[r] \in {"close", "add"}
      BY <1>0, <2>3 DEF AddChunk, Goto, TypeOK
    <3> QED BY <3>1
  <2> QED BY <1>2, <2>1, <2>2, <2>3
<1>3. CASE ListPage(r)
  <2>1. page' = page \/ stage'[r] = "claim"
    BY <1>0, <1>3 DEF ListPage, Goto, TypeOK
  <2>2. stage[r] = "list" /\ stage'[r] \in {"claim", "done"}
        /\ chunk' = chunk /\ (page' = page => page'[r] = page[r])
    BY <1>0, <1>3 DEF ListPage, Goto, TypeOK
  <2>3. stage'[r] = "done" => page'[r] = <<>>
    BY <1>0, <2>1, <2>2
  <2> QED BY <1>0, <2>2, <2>3
<1>4. CASE Claim(r) \/ Close(r) \/ Unclaim(r)
  <2>1. page[r] # <<>>
    BY <1>0, <1>4 DEF Claim, Close, Unclaim, Holding
  <2>2. CASE NextObject(r)
    BY <1>0, <2>1, <2>2, NextObjectPage
  <2>3. CASE Claim(r) /\ Goto(r, "fetch") /\ UNCHANGED <<page, fetched, chunk>>
    BY <1>0, <2>3 DEF Claim, Goto, TypeOK
  <2> QED BY <1>4, <2>2, <2>3 DEF Claim, Close, Unclaim
<1>5. CASE UnclaimAndAbort(r) \/ ListOrClaimFails(r) \/ UnclaimFails(r)
  BY <1>0, <1>5, EndRunPage DEF UnclaimAndAbort, ListOrClaimFails, UnclaimFails
<1> QED BY <1>1, <1>2, <1>3, <1>4, <1>5 DEF RunAction, RunStep

\* ... and what it has on its page was there, or has just been listed.
LEMMA RunPage ==
  ASSUME TypeInv, NEW r \in Runs, RunAction(r), NEW x \in OnPage(r)'
  PROVE  \/ x \in OnPage(r)
         \/ x.key \in Keys /\ objects[x.key] # NoObject /\ x.version = objects[x.key]
<1>0. TypeOK /\ (stage[r] = "claim" \/ Holding(r) => page[r] # <<>>)
  BY DEF TypeInv, PageInv
<1>1. CASE page'[r] = page[r]
  BY <1>1 DEF OnPage
<1>2. CASE ListPage(r) /\ stage'[r] = "claim"
  BY <1>2, ListedPage DEF PageKeys, ToList
<1>3. CASE page[r] # <<>> /\ NextObject(r)
  BY <1>0, <1>3, NextObjectPage
<1>4. CASE EndRun(r, "failed")
  BY <1>0, <1>4, EndRunPage, EmptyPage DEF OnPage
<1>5. \/ page' = page
      \/ ListPage(r) /\ stage'[r] = "claim"
      \/ page[r] # <<>> /\ NextObject(r)
      \/ EndRun(r, "failed")
  <2>1. CASE ListPage(r)
    BY <1>0, <2>1 DEF ListPage, Goto, TypeOK
  <2>2. CASE Claim(r) \/ Close(r) \/ Unclaim(r)
    BY <1>0, <2>2 DEF Claim, Close, Unclaim, Holding
  <2>3. CASE UnclaimAndAbort(r) \/ ListOrClaimFails(r) \/ UnclaimFails(r)
    BY <2>3 DEF UnclaimAndAbort, ListOrClaimFails, UnclaimFails
  <2>4. CASE Fetch(r) \/ RemoveOldDocuments(r) \/ AddChunk(r)
    BY <2>4 DEF Fetch, RemoveOldDocuments, AddChunk
  <2>5. CASE StartRun(r) \/ ProcessFails(r) \/ StepFails(r)
    BY <2>5 DEF StartRun, ProcessFails, StepFails
  <2> QED BY <2>1, <2>2, <2>3, <2>4, <2>5 DEF RunAction, RunStep
<1> QED BY <1>1, <1>2, <1>3, <1>4, <1>5

\* No step makes a run one that was never started.
LEMMA NeverNewAgain ==
  ASSUME TypeOK, NEW r \in Runs, RunAction(r), NEW q \in Runs, stage[q] # "new"
  PROVE  stage'[q] # "new"
<1>1. CASE q # r
  BY <1>1, OthersStay DEF StaysAs
<1>2. CASE StartRun(r) \/ ListPage(r) \/ ProcessFails(r) \/ StepFails(r)
  BY <1>2 DEF StartRun, ListPage, ProcessFails, StepFails, Goto, TypeOK
<1>3. CASE Claim(r) \/ Close(r) \/ Unclaim(r)
  BY <1>3 DEF Claim, Close, Unclaim, NextObject, Goto, TypeOK
<1>4. CASE Fetch(r) \/ RemoveOldDocuments(r) \/ AddChunk(r)
  BY <1>4 DEF Fetch, RemoveOldDocuments, AddChunk, Goto, TypeOK
<1>5. CASE UnclaimAndAbort(r) \/ ListOrClaimFails(r) \/ UnclaimFails(r)
  BY <1>5 DEF UnclaimAndAbort, ListOrClaimFails, UnclaimFails, EndRun, Goto, TypeOK
<1> QED BY <1>1, <1>2, <1>3, <1>4, <1>5 DEF RunAction, RunStep

\* A crash puts every run that was under way to rest.
LEMMA CrashRests ==
  ASSUME TypeOK, Crash, NEW r \in Runs
  PROVE  /\ page'[r] = <<>> /\ token'[r] = NoToken /\ chunk'[r] = 0
         /\ stage'[r] \in {"new", "done", "failed"} /\ ~ Holding(r)'
         /\ OnPage(r)' = {}
BY EmptyPage DEF Crash, Active, Holding, TypeOK, OnPage

LEMMA RestStep ==
  ASSUME TypeInv, RestInv, [Next]_vars
  PROVE  RestInv'
<1>1. ASSUME NEW r \in Runs, RunAction(r)
      PROVE  RestInv'
  <2> SUFFICES ASSUME NEW q \in Runs PROVE AtRest(q)'
    BY DEF RestInv
  <2>1. CASE q = r
    BY <1>1, <2>1, RunRests
  <2>2. CASE q # r
    BY <1>1, <2>2, OthersStay DEF TypeInv, StaysAs, RestInv, AtRest, Active
  <2> QED BY <2>1, <2>2
<1>2. CASE Crash
  BY <1>2, CrashRests DEF TypeInv, RestInv, AtRest
<1>3. CASE UNCHANGED runVars
  BY <1>3 DEF runVars, RestInv, AtRest, Active
<1> QED BY <1>1, <1>2, <1>3, Steps DEF Upload, vars

LEMMA SeenStep ==
  ASSUME TypeInv, SeenInv, [Next]_vars
  PROVE  SeenInv'
<1>0. TypeOK
  BY DEF TypeInv
<1>1. ASSUME NEW r \in Runs, RunAction(r)
      PROVE  SeenInv'
  <2>0. UNCHANGED <<objects, uploaded>>
    BY <1>0, <1>1, OthersStay
  <2>1. ASSUME NEW q \in Runs, NEW x \in OnPage(q)'
        PROVE  <<x.key, x.version>> \in uploaded
    <3>1. CASE q = r
      BY <1>1, <2>1, <3>1, RunPage DEF SeenInv
    <3>2. CASE q # r
      <4>1. OnPage(q)' = OnPage(q)
        BY <1>0, <1>1, <3>2, OthersStay DEF OnPage, StaysAs
      <4> QED BY <2>1, <4>1 DEF SeenInv
    <3> QED BY <3>1, <3>2
  <2>2. ASSUME NEW x \in markers'
        PROVE  <<x.key, x.version>> \in uploaded
    <3>1. \/ markers' = markers
          \/ Claim(r) /\ At(r) \notin markers /\ markers' = markers \cup {At(r)}
          \/ markers' = markers \ {At(r)}
      BY <1>1, RunChanges
    <3>2. x \in markers \/ (Claim(r) /\ x = At(r))
      BY <2>2, <3>1
    <3>3. Claim(r) => At(r) \in OnPage(r)
      BY <1>0, OnPageType DEF Claim, TypeInv, PageInv
    <3> QED BY <3>2, <3>3 DEF SeenInv
  <2> QED BY <2>0, <2>1, <2>2 DEF SeenInv
<1>2. CASE Crash
  BY <1>0, <1>2, CrashRests DEF SeenInv, Crash, storeVars
<1>3. ASSUME NEW k \in Keys, NEW c \in Contents, Upload(k, c)
      PROVE  SeenInv'
  <2>1. /\ objects' = [objects EXCEPT ![k] = c] /\ uploaded' = uploaded \cup {<<k, c>>}
        /\ UNCHANGED <<markers, page>>
    BY <1>3 DEF Upload, runVars
  <2>2. \A j \in Keys : objects'[j] = IF j = k THEN c ELSE objects[j]
    BY <1>0, <2>1 DEF TypeOK
  <2>3. \A r \in Runs : OnPage(r)' = OnPage(r)
    BY <2>1 DEF OnPage
  <2> QED BY <2>1, <2>2, <2>3 DEF SeenInv
<1>4. CASE UNCHANGED vars
  BY <1>4 DEF vars, runVars, storeVars, SeenInv, OnPage
<1> QED BY <1>1, <1>2, <1>3, <1>4, Steps

\* Nothing disturbs what was disturbed already, and undisturbed uploads come
\* while all is quiet and bring something new.
LEMMA UndisturbedBefore ==
  ASSUME TypeOK, [Next]_vars, Undisturbed'
  PROVE  /\ Undisturbed
         /\ ~ Crash
         /\ \A r \in Runs : ~ UnclaimFails(r)
         /\ \A k \in Keys, c \in Contents : Upload(k, c) => Quiet /\ <<k, c>> \notin uploaded
<1>1. ~ Crash /\ \A r \in Runs : ~ UnclaimFails(r)
  BY DEF Crash, UnclaimFails, Outage, Undisturbed, TypeOK
<1>2. ASSUME NEW k \in Keys, NEW c \in Contents, Upload(k, c)
      PROVE  Quiet /\ <<k, c>> \notin uploaded /\ Undisturbed
  <2>1. met' = met \cup {i \in {"upload"} : ~ Quiet}
                 \cup {i \in {"return"} : <<k, c>> \in uploaded}
        /\ outages' = outages
    BY <1>2 DEF Upload, bounds
  <2> QED BY <2>1 DEF Undisturbed
<1>3. ASSUME NEW r \in Runs, RunAction(r)
      PROVE  Undisturbed
  <2>1. met \subseteq met'
    BY <1>3, RunChanges DEF StartRun
  <2>2. outages' = outages
    BY <1>1, <1>3, RunChanges
  <2> QED BY <2>1, <2>2 DEF Undisturbed
<1>4. ASSUME UNCHANGED vars
      PROVE  Undisturbed
  BY <1>4 DEF vars, storeVars, bounds, Undisturbed
<1> QED BY <1>1, <1>2, <1>3, <1>4, Steps

LEMMA CurrentStep ==
  ASSUME TypeInv, RestInv, CurrentInv, [Next]_vars
  PROVE  CurrentInv'
<1> SUFFICES ASSUME Undisturbed', NEW q \in Runs, NEW x \in OnPage(q)'
             PROVE  x.version = objects'[x.key]
  BY DEF CurrentInv, Current
<1>0. TypeOK /\ Undisturbed /\ Current(q)
  BY UndisturbedBefore DEF TypeInv, CurrentInv
<1>1. ASSUME NEW r \in Runs, RunAction(r)
      PROVE  x.version = objects'[x.key]
  <2>1. CASE q = r
    BY <1>0, <1>1, <2>1, RunPage, OthersStay DEF Current
  <2>2. CASE q # r
    <3>1. OnPage(q)' = OnPage(q) /\ objects' = objects
      BY <1>0, <1>1, <2>2, OthersStay DEF OnPage, StaysAs
    <3> QED BY <1>0, <3>1 DEF Current
  <2> QED BY <2>1, <2>2
<1>2. ASSUME NEW k \in Keys, NEW c \in Contents, Upload(k, c)
      PROVE  FALSE
  <2>1. Quiet /\ page' = page
    BY <1>0, <1>2, UndisturbedBefore DEF Upload, runVars
  <2>2. page'[q] = <<>>
    BY <2>1 DEF Quiet, RestInv, AtRest
  <2> QED BY <2>2, EmptyPage DEF OnPage
<1>3. CASE UNCHANGED vars
  BY <1>0, <1>3 DEF vars, runVars, storeVars, OnPage, Current
<1> QED BY <1>0, <1>1, <1>2, <1>3, Steps, UndisturbedBefore
-----------------------------------------------------------------------------
(* What a run adds to its collection. *)

\* The points S are n chunks of content c, each once.
Exactly(S, c, n) ==
  /\ {<<x.content, x.chunk>> : x \in S} = {c} \X (1..n)
  /\ Cardinality(S) = n

\* The n chunks one run added under one key are n points.
LEMMA ChunksAdded ==
  ASSUME NEW p, NEW k, NEW c, NEW r, NEW n \in Nat
  PROVE  Exactly(Pieces(p, k, c, r, n), c, n)
<1> DEFINE piece(i) == [in |-> p, source |-> k, content |-> c, chunk |-> i, by |-> r]
           S == Pieces(p, k, c, r, n)
           f == [i \in 1..n |-> piece(i)]
<1>1. f \in [1..n -> S] /\ \A x \in S : \E i \in 1..n : f[i] = x
  BY DEF Pieces
<1>2. \A i, j \in 1..n : f[i] = f[j] => i = j
  <2> TAKE i, j \in 1..n
  <2>1. f[i].chunk = i /\ f[j].chunk = j
    OBVIOUS
  <2> QED BY <2>1
<1>3. \A i \in 1..n : piece(i) \in S /\ <<piece(i).content, piece(i).chunk>> = <<c, i>>
  BY DEF Pieces
<1>4. \A x \in S : \E i \in 1..n : x = piece(i)
  BY DEF Pieces
<1> HIDE DEF f, S
<1>5. f \in Bijection(1..n, S)
  BY <1>1, <1>2 DEF Bijection, Injection, Surjection, IsInjective
<1>6. Cardinality(S) = n
  <2>1. IsFiniteSet(1..n) /\ Cardinality(1..n) = n
    BY FS_Interval
  <2> QED BY <1>5, <2>1, FS_Bijection DEF ExistsBijection
<1>7. {<<x.content, x.chunk>> : x \in S} = {c} \X (1..n)
  <2>1. ASSUME NEW y \in {<<x.content, x.chunk>> : x \in S}
        PROVE  y \in {c} \X (1..n)
    <3>1. PICK x \in S : y = <<x.content, x.chunk>>
      OBVIOUS
    <3> QED BY <1>3, <1>4, <3>1
  <2>2. ASSUME NEW i \in 1..n
        PROVE  <<c, i>> \in {<<x.content, x.chunk>> : x \in S}
    <3>1. piece(i) \in S /\ <<piece(i).content, piece(i).chunk>> = <<c, i>>
      BY <1>3
    <3> HIDE DEF piece
    <3> QED BY <3>1
  <2> QED BY <2>1, <2>2
<1> QED BY <1>6, <1>7 DEF Exactly, S

\* While nothing disturbs them, runs at the same key are the same run.
LEMMA OneRunPerKey ==
  ASSUME TypeInv, OneRunPerVersion, NEW r \in Runs, NEW q \in Runs,
         Current(r), Current(q), Holding(r), Holding(q), At(r).key = At(q).key
  PROVE  r = q
<1>1. /\ At(r) \in Listed /\ At(r).version = objects[At(r).key]
      /\ At(q) \in Listed /\ At(q).version = objects[At(q).key]
  BY OnPageType DEF TypeInv, PageInv, Current
<1>2. At(r) = At(q)
  BY <1>1 DEF Listed
<1> QED BY <1>2 DEF OneRunPerVersion

\* What a run does to a collection concerns the key it is at.
LEMMA OtherKeys ==
  ASSUME NEW r \in Runs, RunAction(r), NEW p, NEW k,
         ~ (Holding(r) /\ stage[r] # "close" /\ At(r).key = k)
  PROVE  OfKey(p, k)' = OfKey(p, k)
<1>1. CASE points' = points
  BY <1>1 DEF OfKey
<1>2. CASE RemoveOldDocuments(r)
  BY <1>2 DEF RemoveOldDocuments, OfKey, Holding
<1>3. CASE AddChunk(r)
  <2>1. At(r).key # k
    BY <1>3 DEF AddChunk, Holding
  <2>2. points' = points \cup {[in |-> provider[r], source |-> At(r).key,
                               content |-> fetched[r], chunk |-> chunk[r] + 1, by |-> r]}
    BY <1>3 DEF AddChunk
  <2> QED BY <2>1, <2>2 DEF OfKey
<1> QED BY <1>1, <1>2, <1>3, RunChanges

\* One more chunk.
LEMMA AddOne ==
  ASSUME TypeInv, NEW r \in Runs, AddChunk(r), Adding(r)
  PROVE  /\ chunk'[r] = chunk[r] + 1 /\ chunk'[r] <= ChunkCount[fetched[r]]
         /\ stage'[r] = (IF chunk'[r] = ChunkCount[fetched[r]] THEN "close" ELSE "add")
         /\ UNCHANGED <<page, fetched, provider>>
         /\ OfKey(provider[r], At(r).key)' = AddedBy(r, chunk[r] + 1)
<1>1. /\ points' = points \cup {[in |-> provider[r], source |-> At(r).key,
                               content |-> fetched[r], chunk |-> chunk[r] + 1, by |-> r]}
      /\ UNCHANGED <<page, fetched, provider>>
      /\ chunk'[r] = chunk[r] + 1
      /\ stage'[r] = (IF chunk'[r] = ChunkCount[fetched[r]] THEN "close" ELSE "add")
  BY DEF AddChunk, Goto, TypeInv, TypeOK
<1>2. /\ chunk[r] \in Nat /\ fetched[r] \in Contents /\ ChunkCount[fetched[r]] \in Nat
      /\ chunk[r] < ChunkCount[fetched[r]]
      /\ OfKey(provider[r], At(r).key) = AddedBy(r, chunk[r])
  BY StoreAssumption DEF Adding, AddChunk, TypeInv, TypeOK, PageInv
<1>3. OfKey(provider[r], At(r).key)' =
        OfKey(provider[r], At(r).key) \cup
          {[in |-> provider[r], source |-> At(r).key, content |-> fetched[r],
            chunk |-> chunk[r] + 1, by |-> r]}
  BY <1>1 DEF OfKey, At
<1>4. 1..(chunk[r] + 1) = 1..chunk[r] \cup {chunk[r] + 1}
  BY <1>2
<1>5. OfKey(provider[r], At(r).key)' = AddedBy(r, chunk[r] + 1)
  BY <1>2, <1>3, <1>4 DEF AddedBy, Pieces
<1> QED BY <1>1, <1>2, <1>5

\* A run that goes on adding has read the current content and has added what
\* it counted.
LEMMA RunAdds ==
  ASSUME TypeInv, RestInv, NEW r \in Runs, Current(r), Adding(r), RunAction(r)
  PROVE  Adding(r)'
<1>0. TypeOK /\ AtRest(r) /\ (stage[r] = "claim" \/ Holding(r) => page[r] # <<>>)
  BY DEF TypeInv, PageInv, RestInv
<1>1. CASE Fetch(r)
  <2>1. UNCHANGED <<page, chunk, objects>> /\ chunk[r] = 0
    BY <1>0, <1>1 DEF Fetch, storeVars, AtRest
  <2>2. objects[At(r).key] \in Contents
    BY <1>0, <1>1, PageSplits DEF Fetch, Holding
  <2>3. ChunkCount[objects[At(r).key]] \in Nat
    BY <2>2, StoreAssumption
  <2>4. CASE ChunkCount[objects[At(r).key]] = 0
    BY <1>0, <1>1, <2>4 DEF Fetch, Goto, TypeOK, Adding
  <2>5. CASE ChunkCount[objects[At(r).key]] # 0
    BY <1>0, <1>1, <2>1, <2>3, <2>5 DEF Fetch, Goto, TypeOK, Adding, At
  <2> QED BY <2>4, <2>5
<1>2. CASE RemoveOldDocuments(r)
  <2>1. /\ UNCHANGED <<page, chunk, fetched, objects, provider>> /\ chunk[r] = 0
        /\ stage[r] = "delete" /\ stage'[r] = "add"
        /\ points' = {x \in points : ~ (x.in = provider[r] /\ x.source = At(r).key)}
    BY <1>0, <1>2 DEF RemoveOldDocuments, storeVars, AtRest, Goto, TypeOK
  <2>2. OfKey(provider[r], At(r).key)' = {}
    BY <2>1 DEF OfKey, At
  <2>3. AddedBy(r, chunk[r])' = {}
    BY <2>1 DEF AddedBy, Pieces
  <2> QED BY <2>1, <2>2, <2>3 DEF Adding, At
<1>3. CASE AddChunk(r)
  <2>1. /\ chunk[r] \in Nat /\ ChunkCount[fetched[r]] \in Nat
        /\ fetched[r] = objects[At(r).key] /\ objects' = objects
    BY <1>3, StoreAssumption DEF AddChunk, Adding, TypeInv, TypeOK, PageInv, storeVars
  <2>2. AddedBy(r, chunk[r])' = AddedBy(r, chunk[r] + 1)
    BY <1>3, AddOne DEF AddedBy, Pieces, At
  <2> QED BY <1>3, <2>1, <2>2, AddOne DEF Adding, At
<1>4. CASE stage'[r] \notin {"delete", "add"}
  BY <1>4 DEF Adding
<1>5. \/ Fetch(r) \/ RemoveOldDocuments(r) \/ AddChunk(r)
      \/ stage'[r] \notin {"delete", "add"}
  <2>1. CASE StartRun(r) \/ ProcessFails(r) \/ StepFails(r)
    BY <1>0, <2>1 DEF StartRun, ProcessFails, StepFails, Goto, TypeOK
  <2>2. CASE ListPage(r)
    BY <1>0, <2>2 DEF ListPage, Goto, TypeOK
  <2>3. CASE Claim(r) \/ Close(r) \/ Unclaim(r)
    BY <1>0, <2>3 DEF Claim, Close, Unclaim, NextObject, Goto, TypeOK
  <2>4. CASE UnclaimAndAbort(r) \/ ListOrClaimFails(r) \/ UnclaimFails(r)
    BY <1>0, <2>4, EndRunPage DEF UnclaimAndAbort, ListOrClaimFails, UnclaimFails
  <2> QED BY <2>1, <2>2, <2>3, <2>4 DEF RunAction, RunStep
<1> QED BY <1>1, <1>2, <1>3, <1>4, <1>5

LEMMA AddingStep ==
  ASSUME TypeInv, OneRunPerVersion, RestInv, CurrentInv, AddingInv, [Next]_vars
  PROVE  AddingInv'
<1> SUFFICES ASSUME Undisturbed', NEW q \in Runs
             PROVE  Adding(q)'
  BY DEF AddingInv
<1>0. TypeOK /\ Adding(q) /\ \A r \in Runs : Current(r)
  BY UndisturbedBefore DEF TypeInv, AddingInv, CurrentInv
<1>1. ASSUME NEW r \in Runs, RunAction(r), q # r
      PROVE  Adding(q)'
  <2>1. StaysAs(q) /\ UNCHANGED <<provider, objects>> /\ At(q)' = At(q)
    BY <1>0, <1>1, OthersStay DEF StaysAs, At
  <2>2. CASE stage[q] = "add"
    <3>1. ~ (Holding(r) /\ At(r).key = At(q).key)
      BY <1>0, <1>1, <2>2, OneRunPerKey DEF Holding
    <3>2. OfKey(provider[q], At(q).key)' = OfKey(provider[q], At(q).key)
      <4>1. \A p, k : k = At(q).key =>
              {x \in points' : x.in = p /\ x.source = k} =
              {x \in points : x.in = p /\ x.source = k}
        BY <1>1, <3>1, OtherKeys DEF OfKey
      <4> QED BY <2>1, <4>1 DEF OfKey
    <3>3. AddedBy(q, chunk[q])' = AddedBy(q, chunk[q])
      BY <2>1 DEF AddedBy, Pieces, StaysAs
    <3> QED BY <1>0, <2>1, <2>2, <3>2, <3>3 DEF Adding, StaysAs
  <2>3. CASE stage[q] # "add"
    BY <1>0, <2>1, <2>3 DEF Adding, StaysAs
  <2> QED BY <2>2, <2>3
<1>2. ASSUME NEW k \in Keys, NEW c \in Contents, Upload(k, c)
      PROVE  Adding(q)'
  <2>1. Quiet /\ stage' = stage
    BY <1>0, <1>2, UndisturbedBefore DEF Upload, runVars
  <2>2. stage'[q] \notin {"delete", "add"}
    BY <2>1 DEF Quiet, Active
  <2> QED BY <2>2 DEF Adding
<1>3. CASE UNCHANGED vars
  BY <1>0, <1>3 DEF vars, runVars, storeVars, Adding, OfKey, AddedBy, Pieces, At
<1>4. ASSUME RunAction(q)
      PROVE  Adding(q)'
  BY <1>0, <1>4, RunAdds
<1> QED BY <1>0, <1>1, <1>2, <1>3, <1>4, Steps, UndisturbedBefore

\* The last chunk completes the content.
LEMMA AddedIsExact ==
  ASSUME TypeInv, NEW r \in Runs, AddChunk(r), Adding(r), stage'[r] = "close"
  PROVE  HoldsExactly(provider[r], At(r).key, objects[At(r).key])'
<1> DEFINE c == objects[At(r).key]
           n == ChunkCount[c]
<1>1. /\ fetched[r] = c /\ n \in Nat
      /\ UNCHANGED <<page, fetched, provider, objects>> /\ chunk[r] + 1 = n
      /\ OfKey(provider[r], At(r).key)' = AddedBy(r, chunk[r] + 1)
  <2>1. fetched[r] = c /\ c \in Contents
    BY DEF Adding, AddChunk, TypeInv, TypeOK, PageInv
  <2>2. n \in Nat
    BY <2>1, StoreAssumption
  <2>3. UNCHANGED <<page, fetched, provider, objects>> /\ chunk[r] + 1 = n
    BY <2>1, AddOne DEF AddChunk, TypeInv, TypeOK, storeVars
  <2>4. OfKey(provider[r], At(r).key)' = AddedBy(r, chunk[r] + 1)
    BY AddOne DEF Adding, AddChunk
  <2> QED BY <2>1, <2>2, <2>3, <2>4
<1>2. OfKey(provider[r], At(r).key)' = Pieces(provider[r], At(r).key, c, r, n)
  BY <1>1 DEF AddedBy
<1>3. At(r)' = At(r) /\ objects'[At(r).key] = c /\ provider' = provider
  BY <1>1 DEF At
<1> HIDE DEF c, n
<1> DEFINE S == OfKey(provider[r], At(r).key)'
<1>4. S = {x \in points' : x.in = provider'[r] /\ x.source = At(r)'.key}
  BY DEF OfKey
<1>5. Exactly(S, c, n)
  BY <1>1, <1>2, ChunksAdded
<1>6. objects'[At(r)'.key] = c /\ n = ChunkCount[c]
  BY <1>3 DEF n
<1> QED BY <1>4, <1>5, <1>6 DEF HoldsExactly, Exactly

\* What is held at a key is that key's present version.
LEMMA HeldVersion ==
  ASSUME TypeInv, NEW r \in Runs, Current(r), stage[r] = "claim" \/ Holding(r)
  PROVE  /\ At(r) = [key |-> At(r).key, version |-> objects[At(r).key]]
         /\ At(r).key \in Keys
<1>1. At(r) \in OnPage(r) /\ At(r) \in Listed /\ At(r).key \in Keys
  BY OnPageType DEF TypeInv, PageInv
<1> QED BY <1>1 DEF Current, Listed

\* A run that works on a key works on it after a step, has indexed it, or has
\* let go of the marker.
LEMMA WorkGoesOn ==
  ASSUME TypeInv, NEW r \in Runs, NEW k \in Keys, HasText(k), Current(r), Adding(r),
         Holding(r), At(r).key = k, stage[r] # "close",
         RunAction(r), ~ UnclaimFails(r), Marked(k)'
  PROVE  Working(k)' \/ Indexed(k)'
<1>0. TypeOK /\ k = At(r).key
  BY DEF TypeInv
<1>1. /\ UNCHANGED <<provider, objects>>
      /\ At(r) = [key |-> k, version |-> objects[k]]
  BY <1>0, OthersStay, HeldVersion
<1>2. ASSUME Holding(r)', stage'[r] # "close", page'[r] = page[r]
      PROVE  Working(k)'
  BY <1>0, <1>2 DEF Working, At
<1>3. CASE Fetch(r)
  <2>1. ChunkCount[objects[At(r).key]] # 0
    BY <1>0, StoreAssumption DEF HasText, TypeOK
  <2>2. stage'[r] = "delete" /\ page' = page
    BY <1>0, <1>3, <2>1 DEF Fetch, Goto, TypeOK
  <2> QED BY <1>2, <2>2 DEF Holding
<1>4. CASE RemoveOldDocuments(r) \/ ProcessFails(r) \/ StepFails(r)
  <2>1. stage'[r] \in {"add", "unclaim", "abort"} /\ page' = page
    BY <1>0, <1>4 DEF RemoveOldDocuments, ProcessFails, StepFails, Goto, TypeOK
  <2> QED BY <1>2, <2>1 DEF Holding
<1>5. CASE AddChunk(r)
  <2>1. page' = page /\ stage'[r] \in {"add", "close"}
    BY <1>5, AddOne
  <2>2. CASE stage'[r] = "add"
    BY <1>2, <2>1, <2>2 DEF Holding
  <2>3. CASE stage'[r] = "close"
    <3>1. HoldsExactly(provider[r], At(r).key, objects[At(r).key])'
      BY <1>5, <2>3, AddedIsExact
    <3>2. HoldsExactly(provider[r], k, objects[k])'
      BY <1>0, <2>1, <3>1 DEF At, HoldsExactly
    <3> QED BY <2>3, <3>2 DEF Indexed
  <2> QED BY <2>1, <2>2, <2>3
<1>6. CASE Unclaim(r) \/ UnclaimAndAbort(r)
  <2>1. markers' = markers \ {At(r)}
    BY <1>6 DEF Unclaim, UnclaimAndAbort
  <2> QED BY <1>1, <2>1 DEF Marked
<1> QED
  BY <1>3, <1>4, <1>5, <1>6
  DEF RunAction, RunStep, StartRun, ListPage, Claim, Close, ListOrClaimFails, Holding

LEMMA IndexStep ==
  ASSUME TypeInv, RestInv, SeenInv, CurrentInv, AddingInv, IndexInv, [Next]_vars
  PROVE  IndexInv'
<1> SUFFICES ASSUME Undisturbed', NEW k \in Keys, HasText(k)', Marked(k)'
             PROVE  Working(k)' \/ Indexed(k)'
  BY DEF IndexInv
<1>0. /\ TypeOK /\ \A r \in Runs : Current(r) /\ Adding(r) /\ ~ UnclaimFails(r)
      /\ HasText(k) /\ Marked(k) => Working(k) \/ Indexed(k)
  BY UndisturbedBefore DEF TypeInv, CurrentInv, AddingInv, IndexInv
<1>1. ASSUME NEW r \in Runs, RunAction(r)
      PROVE  Working(k)' \/ Indexed(k)'
  <2>1. UNCHANGED <<provider, objects>> /\ HasText(k)
    BY <1>0, <1>1, OthersStay DEF HasText
  <2>2. CASE Marked(k) /\ Holding(r) /\ At(r).key = k /\ stage[r] # "close"
    BY <1>0, <1>1, <2>1, <2>2, WorkGoesOn
  <2>3. CASE Marked(k) /\ ~ (Holding(r) /\ At(r).key = k /\ stage[r] # "close")
    <3>1. CASE Working(k)
      <4>1. PICK q \in Runs : Holding(q) /\ At(q).key = k /\ stage[q] # "close"
        BY <3>1 DEF Working
      <4>2. q # r
        BY <2>3, <4>1
      <4>3. StaysAs(q)
        BY <1>0, <1>1, <4>2, OthersStay
      <4> QED BY <4>1, <4>3 DEF StaysAs, Working, Holding, At
    <3>2. CASE Indexed(k)
      <4>1. PICK q \in Runs : stage[q] # "new" /\ HoldsExactly(provider[q], k, objects[k])
        BY <3>2 DEF Indexed
      <4>2. \A p : {x \in points' : x.in = p /\ x.source = k} =
                   {x \in points : x.in = p /\ x.source = k}
        BY <1>1, <2>3, OtherKeys DEF OfKey
      <4>3. HoldsExactly(provider[q], k, objects[k])'
        BY <2>1, <4>1, <4>2 DEF HoldsExactly
      <4>4. stage'[q] # "new"
        BY <1>0, <1>1, <4>1, NeverNewAgain
      <4> QED BY <4>3, <4>4 DEF Indexed
    <3> QED BY <1>0, <2>1, <2>3, <3>1, <3>2
  <2>4. CASE ~ Marked(k)
    <3>1. Claim(r) /\ At(r) \notin markers /\ At(r) = [key |-> k, version |-> objects[k]]
      BY <1>1, <2>1, <2>4, RunChanges DEF Marked
    <3>2. stage'[r] = "fetch" /\ page' = page
      BY <1>0, <3>1 DEF Claim, Goto, TypeOK
    <3> QED BY <3>1, <3>2 DEF Working, Holding, At
  <2> QED BY <2>2, <2>3, <2>4
<1>2. ASSUME NEW j \in Keys, NEW c \in Contents, Upload(j, c)
      PROVE  Working(k)' \/ Indexed(k)'
  <2>1. /\ <<j, c>> \notin uploaded /\ objects' = [objects EXCEPT ![j] = c]
        /\ UNCHANGED <<markers, points, runVars>>
    BY <1>0, <1>2, UndisturbedBefore DEF Upload
  <2>2. k # j
    BY <1>0, <2>1 DEF SeenInv, Marked, TypeOK
  <2>3. objects'[k] = objects[k]
    BY <1>0, <2>1, <2>2 DEF TypeOK
  <2>4. Working(k) \/ Indexed(k)
    BY <1>0, <2>1, <2>3 DEF HasText, Marked
  <2>5. Working(k) => Working(k)'
    BY <2>1 DEF Working, Holding, At, runVars
  <2>6. Indexed(k) => Indexed(k)'
    BY <2>1, <2>3 DEF Indexed, HoldsExactly, runVars
  <2> QED BY <2>4, <2>5, <2>6
<1>3. CASE UNCHANGED vars
  BY <1>0, <1>3
  DEF vars, runVars, storeVars, HasText, Marked, Working, Indexed, Holding, At, HoldsExactly
<1> QED BY <1>0, <1>1, <1>2, <1>3, Steps, UndisturbedBefore

LEMMA MarkInit == Init => MarkInv
<1> SUFFICES ASSUME Init PROVE MarkInv
  OBVIOUS
<1>1. ClaimInv
  BY TypeInit, ClaimInit DEF ClaimInv
<1>2. RestInv
  BY DEF Init, RestInv, AtRest, Active
<1>3. \A r \in Runs : OnPage(r) = {}
  BY EmptyPage DEF Init, OnPage
<1>4. SeenInv /\ CurrentInv
  BY <1>3 DEF Init, SeenInv, CurrentInv, Current
<1>5. AddingInv /\ IndexInv
  BY DEF Init, AddingInv, Adding, IndexInv, Marked
<1> QED BY <1>1, <1>2, <1>4, <1>5 DEF MarkInv

LEMMA MarkStep == MarkInv /\ [Next]_vars => MarkInv'
BY ClaimStep, RestStep, SeenStep, CurrentStep, AddingStep, IndexStep DEF MarkInv, ClaimInv

\* However runs overlap and fail, for however many collections: when all is
\* quiet and the version of an object in the bucket is marked as ingested,
\* some collection holds exactly its chunks, unless an upload came under a run
\* or brought back an earlier content, or a marker could not be removed.
THEOREM MarkedVersionsAreIndexed == Spec => []MarkedIsIndexed
<1>1. MarkInv => MarkedIsIndexed
  <2> SUFFICES ASSUME MarkInv, Undisturbed, Quiet, NEW k \in Keys, HasText(k), Marked(k)
               PROVE  \E p \in Providers : HoldsExactly(p, k, objects[k])
    BY DEF MarkedIsIndexed
  <2>1. \A r \in Runs : ~ Holding(r)
    BY DEF Quiet, Active, Holding
  <2>2. Indexed(k)
    BY <2>1 DEF MarkInv, IndexInv, Working
  <2> QED BY <2>2 DEF Indexed, MarkInv, ClaimInv, TypeInv, TypeOK
<1> QED BY <1>1, MarkInit, MarkStep, PTL DEF Spec
-----------------------------------------------------------------------------
(* What a run that goes well has been over: the inductive invariant. *)

\* A run has key k still to list, or on its page, or need not look at it.
ToCome(r, k) == k > token[r] /\ (stage[r] = "list" \/ token[r] # NoToken)
Covered(r, k) == ToCome(r, k) \/ (\E x \in OnPage(r) : x.key = k) \/ Marked(k)

\* With one run after the other, the one that is under way and has counted no
\* failure misses no object.
CoverInv ==
  Serial =>
    /\ \A r, q \in Active : r = q
    /\ \A r \in Active :
         ~ failed[r] => \A k \in Keys : objects[k] # NoObject => Covered(r, k)

RetryInv == MarkInv /\ CoverInv
-----------------------------------------------------------------------------
(* Listings. *)

\* A set of numbers that is not empty has a smallest one.
LEMMA Smallest ==
  ASSUME NEW T, T \subseteq Nat, T # {}
  PROVE  \E x \in T : \A y \in T : x <= y
<1>1. PICK x \in T : \A y \in T : ~ (<<y, x>> \in OpToRel(<, Nat))
  BY NatLessThanWellFounded, WFMin
<1>2. \A y \in T : ~ (y < x)
  BY <1>1, Zenon DEF OpToRel
<1> QED BY <1>2

\* A page is empty only when nothing is left to list ...
LEMMA SomethingListed ==
  ASSUME NEW r \in Runs, ToList(r) # {}
  PROVE  PageKeys(r) # {}
<1>1. ToList(r) \subseteq Nat
  BY StoreAssumption DEF ToList
<1>2. PICK k \in ToList(r) : \A j \in ToList(r) : k <= j
  BY <1>1, Smallest
<1>3. {j \in ToList(r) : j < k} = {}
  BY <1>1, <1>2
<1>4. Cardinality({j \in ToList(r) : j < k}) = 0
  BY <1>3, FS_EmptySet
<1> QED BY <1>2, <1>4, StoreAssumption DEF PageKeys

\* ... and leaves no gap: what it does not list comes after all it lists.
LEMMA NoGap ==
  ASSUME NEW r \in Runs, NEW k \in ToList(r), k \notin PageKeys(r), NEW j \in PageKeys(r)
  PROVE  k > j
<1> DEFINE before(i) == {h \in ToList(r) : h < i}
<1>1. /\ j \in ToList(r) /\ j \in Nat /\ k \in Nat /\ ToList(r) \subseteq Nat
      /\ PageSize \in Nat
  BY StoreAssumption DEF ToList, PageKeys
<1>2. IsFiniteSet(before(j)) /\ IsFiniteSet(before(k))
  BY FS_Subset, StoreAssumption DEF ToList
<1>3. Cardinality(before(j)) < PageSize /\ ~ Cardinality(before(k)) < PageSize
  BY DEF PageKeys
<1>4. CASE k < j
  <2>1. before(k) \subseteq before(j)
    BY <1>1, <1>4
  <2>2. Cardinality(before(k)) <= Cardinality(before(j))
    BY <1>2, <2>1, FS_Subset
  <2>3. Cardinality(before(k)) \in Nat /\ Cardinality(before(j)) \in Nat
    BY <1>2, FS_CardinalityType
  <2> QED BY <1>1, <1>3, <2>2, <2>3
<1>5. CASE k = j
  BY <1>5
<1> QED BY <1>1, <1>4, <1>5
-----------------------------------------------------------------------------
(* One run after the other. *)

\* What follows one history was serial before, and a run starts while all is
\* quiet.
LEMMA SerialBefore ==
  ASSUME TypeOK, [Next]_vars, Serial'
  PROVE  /\ Serial
         /\ ~ Crash
         /\ \A r \in Runs : StartRun(r) => Quiet
         /\ \A k \in Keys, c \in Contents : Upload(k, c) => Quiet
<1>1. ~ Crash /\ \A r \in Runs : ~ UnclaimFails(r)
  BY DEF Crash, UnclaimFails, Outage, Serial, TypeOK
<1>2. ASSUME NEW k \in Keys, NEW c \in Contents, Upload(k, c)
      PROVE  Quiet /\ Serial
  <2>1. met' = met \cup {i \in {"upload"} : ~ Quiet}
                 \cup {i \in {"return"} : <<k, c>> \in uploaded}
        /\ outages' = outages
    BY <1>2 DEF Upload, bounds
  <2> QED BY <2>1 DEF Serial
<1>3. ASSUME NEW r \in Runs, StartRun(r)
      PROVE  Quiet /\ Serial
  <2>1. met' = met \cup {i \in {"overlap"} : ~ Quiet} /\ outages' = outages
    BY <1>3 DEF StartRun, bounds
  <2> QED BY <2>1 DEF Serial
<1>4. ASSUME NEW r \in Runs, RunAction(r), ~ StartRun(r)
      PROVE  Serial
  BY <1>1, <1>4, RunChanges DEF Serial
<1>5. ASSUME UNCHANGED vars
      PROVE  Serial
  BY <1>5 DEF vars, storeVars, bounds, Serial
<1> QED BY <1>1, <1>2, <1>3, <1>4, <1>5, Steps

\* An object is still covered when the run stays on its page ...
LEMMA CoveredStays ==
  ASSUME NEW r \in Runs, NEW k \in Keys, Covered(r, k), stage[r] # "list",
         page'[r] = page[r], token'[r] = token[r], markers \subseteq markers',
         UNCHANGED objects
  PROVE  Covered(r, k)'
BY DEF Covered, ToCome, OnPage, Marked

\* ... goes on to the next object, having marked the one it leaves ...
LEMMA CoveredNext ==
  ASSUME TypeInv, NEW r \in Runs, NEW k \in Keys, Covered(r, k), stage[r] # "list",
         stage[r] = "claim" \/ Holding(r), Current(r), At(r) \in markers,
         NextObject(r), UNCHANGED <<token, markers, objects>>
  PROVE  Covered(r, k)'
<1>1. page[r] # <<>> /\ TypeOK
  BY DEF TypeInv, PageInv
<1>2. At(r) = [key |-> At(r).key, version |-> objects[At(r).key]]
  BY HeldVersion
<1>3. OnPage(r) = {At(r)} \cup OnPage(r)'
  BY <1>1, NextObjectPage
<1>4. Marked(k) => Marked(k)'
  BY DEF Marked
<1>5. ToCome(r, k) => ToCome(r, k)'
  BY DEF ToCome
<1>6. ASSUME NEW x \in OnPage(r), x.key = k
      PROVE  Marked(k)' \/ x \in OnPage(r)'
  BY <1>2, <1>3, <1>6 DEF Marked
<1> QED BY <1>4, <1>5, <1>6 DEF Covered

\* ... or lists the next page.
LEMMA CoveredListed ==
  ASSUME TypeInv, RestInv, NEW r \in Runs, NEW k \in Keys, objects[k] # NoObject,
         Covered(r, k), ListPage(r), stage'[r] = "claim"
  PROVE  Covered(r, k)'
<1>1. stage[r] = "list" /\ UNCHANGED <<markers, objects>>
  BY DEF ListPage, storeVars
<1>2. OnPage(r) = {}
  BY <1>1, EmptyPage DEF RestInv, AtRest, OnPage
<1>3. CASE Marked(k)
  BY <1>1, <1>3 DEF Covered, Marked
<1>4. CASE k \in PageKeys(r)
  <2>1. [key |-> k, version |-> objects[k]] \in OnPage(r)'
    BY <1>4, ListedPage
  <2> QED BY <2>1 DEF Covered
<1>5. CASE k \in ToList(r) /\ k \notin PageKeys(r)
  <2>1. token'[r] \in PageKeys(r)
    BY <1>5, ListedPage
  <2>2. k > token'[r]
    BY <1>5, <2>1, NoGap
  <2>3. token'[r] # NoToken
    BY <2>1, StoreAssumption DEF PageKeys, ToList, NoToken
  <2> QED BY <2>2, <2>3 DEF Covered, ToCome
<1>6. Marked(k) \/ k \in ToList(r)
  BY <1>2 DEF Covered, ToCome, ToList
<1> QED BY <1>3, <1>4, <1>5, <1>6

\* The step of a run that has counted no failure leaves no object out.
LEMMA RunCovers ==
  ASSUME TypeInv, HeldIsMarked, RestInv, NEW r \in Runs, Current(r), RunAction(r),
         r \in Active', ~ failed'[r],
         NEW k \in Keys, objects[k] # NoObject,
         r \in Active /\ ~ failed[r] => Covered(r, k)
  PROVE  Covered(r, k)'
<1>0. TypeOK /\ AtRest(r) /\ UNCHANGED objects /\ stage'[r] \notin {"new", "done", "failed"}
  BY OthersStay DEF TypeInv, RestInv, Active
<1>1. CASE StartRun(r)
  <2>1. stage'[r] = "list" /\ token'[r] = NoToken
    BY <1>0, <1>1 DEF StartRun, Goto, TypeOK, AtRest
  <2>2. k > NoToken
    BY StoreAssumption DEF NoToken
  <2> QED BY <2>1, <2>2 DEF Covered, ToCome
<1>2. CASE ListPage(r)
  <2>1. stage'[r] = "claim" /\ r \in Active /\ ~ failed[r]
    BY <1>0, <1>2 DEF ListPage, Goto, Active, TypeOK
  <2> QED BY <1>2, <2>1, CoveredListed
<1>3. CASE Claim(r)
  <2>1. stage[r] = "claim" /\ r \in Active /\ ~ failed[r] /\ token' = token
    BY <1>3 DEF Claim, Active
  <2>2. CASE At(r) \in markers /\ NextObject(r) /\ UNCHANGED markers
    BY <1>0, <2>1, <2>2, CoveredNext
  <2>3. CASE markers' = markers \cup {At(r)} /\ UNCHANGED page
    BY <1>0, <2>1, <2>3, CoveredStays
  <2> QED BY <1>3, <2>2, <2>3 DEF Claim
<1>4. CASE Close(r)
  <2>1. /\ stage[r] = "close" /\ Holding(r) /\ r \in Active /\ ~ failed[r]
        /\ UNCHANGED <<token, markers>> /\ NextObject(r) /\ At(r) \in markers
    BY <1>4 DEF Close, Active, Holding, HeldIsMarked
  <2> QED BY <1>0, <2>1, CoveredNext
<1>5. CASE Fetch(r) \/ RemoveOldDocuments(r) \/ AddChunk(r) \/ StepFails(r)
  <2>1. /\ stage[r] \in {"fetch", "delete", "add", "close"} /\ ~ failed[r]
        /\ UNCHANGED <<page, token, markers>>
    BY <1>5 DEF Fetch, RemoveOldDocuments, AddChunk, StepFails
  <2>2. r \in Active
    BY <2>1 DEF Active
  <2> QED BY <1>0, <2>1, <2>2, CoveredStays
<1>6. ~ ProcessFails(r) /\ ~ Unclaim(r)
  BY <1>0 DEF ProcessFails, Unclaim, AtRest, TypeOK
<1>7. ~ (UnclaimAndAbort(r) \/ ListOrClaimFails(r) \/ UnclaimFails(r))
  BY <1>0, EndRunPage DEF UnclaimAndAbort, ListOrClaimFails, UnclaimFails
<1> QED BY <1>1, <1>2, <1>3, <1>4, <1>5, <1>6, <1>7 DEF RunAction, RunStep

LEMMA CoverStep ==
  ASSUME MarkInv, CoverInv, [Next]_vars
  PROVE  CoverInv'
<1> SUFFICES ASSUME Serial', NEW r \in Active'
             PROVE  /\ \A q \in Active' : r = q
                    /\ ~ failed'[r] => \A k \in Keys : objects'[k] # NoObject => Covered(r, k)'
  BY DEF CoverInv
<1>0. /\ TypeInv /\ TypeOK /\ r \in Runs /\ Serial /\ Undisturbed
      /\ \A q \in Runs : Current(q)
      /\ \A p, q \in Active : p = q
      /\ \A q \in Active :
           ~ failed[q] => \A k \in Keys : objects[k] # NoObject => Covered(q, k)
  BY SerialBefore
  DEF MarkInv, ClaimInv, TypeInv, CoverInv, Serial, Undisturbed, CurrentInv, Active
<1>1. ASSUME NEW p \in Runs, RunAction(p)
      PROVE  /\ \A q \in Active' : p = q
             /\ ~ failed'[p] /\ p \in Active' =>
                  \A k \in Keys : objects'[k] # NoObject => Covered(p, k)'
  <2>1. \A q \in Runs : q # p => StaysAs(q)
    BY <1>0, <1>1, OthersStay
  <2>2. p \in Active \/ Quiet
    <3>1. StartRun(p) => Quiet
      BY SerialBefore, <1>0
    <3>2. stage[p] \in {"new", "done", "failed"} => StartRun(p)
      BY <1>1 DEF RunAction, RunStep, ListPage, Claim, Fetch, RemoveOldDocuments,
           AddChunk, Close, Unclaim, UnclaimAndAbort, ProcessFails, StepFails,
           ListOrClaimFails, UnclaimFails
    <3> QED BY <3>1, <3>2 DEF Active
  <2>3. ASSUME NEW q \in Active'
        PROVE  p = q
    <3>1. q \in Runs /\ (q # p => q \in Active)
      BY <2>1, <2>3 DEF Active, StaysAs
    <3> QED BY <1>0, <2>2, <3>1 DEF Quiet
  <2>4. ASSUME ~ failed'[p], p \in Active', NEW k \in Keys, objects'[k] # NoObject
        PROVE  Covered(p, k)'
    <3>1. objects' = objects
      BY <1>0, <1>1, OthersStay
    <3> QED BY <1>0, <1>1, <2>4, <3>1, RunCovers DEF MarkInv, ClaimInv
  <2> QED BY <2>3, <2>4
<1>2. ASSUME NEW k \in Keys, NEW c \in Contents, Upload(k, c)
      PROVE  FALSE
  <2>1. Quiet /\ stage' = stage
    BY <1>0, <1>2, SerialBefore DEF Upload, runVars
  <2> QED BY <2>1 DEF Quiet, Active
<1>3. CASE UNCHANGED vars
  BY <1>0, <1>3
  DEF vars, runVars, storeVars, Active, Covered, ToCome, OnPage, Marked
<1> QED BY <1>0, <1>1, <1>2, <1>3, Steps, SerialBefore

LEMMA RetryInit == Init => RetryInv
BY MarkInit DEF RetryInv, Init, CoverInv, Active

LEMMA RetryStep == RetryInv /\ [Next]_vars => RetryInv'
BY MarkStep, CoverStep DEF RetryInv

\* Only a listing that finds nothing, a claim that goes past the last object
\* and the end of the last object answer a run that counted no failure.
LEMMA EndingSteps ==
  ASSUME TypeInv, RestInv, NEW r \in Runs, RunAction(r), EndsWell(r)
  PROVE  \/ ListPage(r) /\ stage[r] = "list" /\ PageKeys(r) = {} /\ UNCHANGED markers
         \/ Claim(r) /\ NextObject(r) /\ At(r) \in markers /\ UNCHANGED markers
         \/ Close(r) /\ NextObject(r) /\ UNCHANGED markers
<1>0. TypeOK /\ AtRest(r) /\ stage[r] # "done" /\ stage'[r] = "done" /\ ~ failed[r]
  BY DEF TypeInv, RestInv, EndsWell
<1>1. ~ (StartRun(r) \/ ProcessFails(r) \/ StepFails(r))
  BY <1>0 DEF StartRun, ProcessFails, StepFails, Goto, TypeOK
<1>2. ~ (Fetch(r) \/ RemoveOldDocuments(r) \/ AddChunk(r))
  BY <1>0 DEF Fetch, RemoveOldDocuments, AddChunk, Goto, TypeOK
<1>3. ~ (UnclaimAndAbort(r) \/ ListOrClaimFails(r) \/ UnclaimFails(r))
  BY <1>0, EndRunPage DEF UnclaimAndAbort, ListOrClaimFails, UnclaimFails
<1>4. ~ Unclaim(r)
  BY <1>0 DEF Unclaim, AtRest
<1>5. ListPage(r) => stage[r] = "list" /\ PageKeys(r) = {} /\ UNCHANGED markers
  BY <1>0 DEF ListPage, Goto, TypeOK
<1>6. Claim(r) => NextObject(r) /\ At(r) \in markers /\ UNCHANGED markers
  BY <1>0 DEF Claim, Goto, TypeOK
<1>7. Close(r) => NextObject(r) /\ UNCHANGED markers
  BY DEF Close
<1> QED BY <1>1, <1>2, <1>3, <1>4, <1>5, <1>6, <1>7 DEF RunAction, RunStep

\* When such a run is answered every object is marked.
LEMMA AllMarked ==
  ASSUME RetryInv, Serial, NEW r \in Runs, RunAction(r), EndsWell(r),
         NEW k \in Keys, objects[k] # NoObject
  PROVE  Marked(k) /\ ~ Working(k)
<1>0. /\ TypeInv /\ TypeOK /\ RestInv /\ AtRest(r) /\ Current(r) /\ HeldIsMarked
      /\ \A p, q \in Active : p = q
  BY DEF RetryInv, MarkInv, ClaimInv, TypeInv, CoverInv, CurrentInv, Serial, Undisturbed,
         RestInv
<1>1. r \in Active
  BY <1>0, EndingSteps DEF Active, Claim, Close
<1>2. Covered(r, k)
  BY <1>1 DEF RetryInv, CoverInv, EndsWell
<1>3. CASE stage[r] = "list" /\ PageKeys(r) = {}
  <2>1. OnPage(r) = {}
    BY <1>0, <1>3, EmptyPage DEF AtRest, OnPage
  <2>2. ToList(r) = {}
    BY <1>3, SomethingListed
  <2>3. ~ ToCome(r, k)
    BY <2>2 DEF ToCome, ToList
  <2> QED BY <1>0, <1>1, <1>2, <1>3, <2>1, <2>3 DEF Covered, Working, Active, Holding
<1>4. CASE stage[r] \in {"claim", "close"} /\ NextObject(r) /\ At(r) \in markers
  <2>1. page[r] # <<>>
    BY <1>0, <1>4 DEF TypeInv, PageInv, Holding
  <2>2. stage'[r] = "done"
    BY DEF EndsWell
  <2>3. token[r] = NoToken /\ page'[r] = <<>> /\ OnPage(r) = {At(r)} \cup OnPage(r)'
    BY <1>0, <1>4, <2>1, <2>2, NextObjectPage
  <2>4. OnPage(r) = {At(r)}
    BY <2>3, EmptyPage DEF OnPage
  <2>5. At(r) = [key |-> At(r).key, version |-> objects[At(r).key]]
    BY <1>0, <1>4, HeldVersion DEF Holding
  <2>6. ~ ToCome(r, k)
    BY <1>4, <2>3 DEF ToCome
  <2> QED BY <1>0, <1>1, <1>2, <1>4, <2>4, <2>5, <2>6
          DEF Covered, Marked, Working, Active, Holding
<1> QED BY <1>0, <1>3, <1>4, EndingSteps DEF Claim, Close, HeldIsMarked, Holding

\* A run leaves the latest contents in its collection.
LEMMA EndLeaves ==
  ASSUME RetryInv, [Next]_vars, NEW r \in Runs,
         Serial, OnlyProvider(provider[r]), EndsWell(r)
  PROVE  LeavesLatest(r)
<1>0. TypeOK /\ TypeInv /\ RestInv
  BY DEF RetryInv, MarkInv, ClaimInv, TypeInv
<1>1. RunAction(r)
  <2>1. ASSUME NEW q \in Runs, RunAction(q)
        PROVE  q = r
    BY <1>0, <2>1, OthersStay DEF StaysAs, EndsWell
  <2>2. \A k \in Keys, c \in Contents : ~ Upload(k, c)
    BY DEF Upload, runVars, EndsWell
  <2>3. ~ Crash
    BY <1>0 DEF Crash, EndsWell, TypeOK
  <2>4. ~ UNCHANGED vars
    BY DEF vars, runVars, EndsWell
  <2> QED BY <2>1, <2>2, <2>3, <2>4, Steps
<1>2. UNCHANGED <<provider, objects, points>>
  <2>1. ~ RemoveOldDocuments(r) /\ ~ AddChunk(r)
    BY <1>0 DEF RemoveOldDocuments, AddChunk, EndsWell, Goto, TypeOK
  <2> QED BY <1>0, <1>1, <2>1, OthersStay, RunChanges
<1> SUFFICES ASSUME NEW k \in Keys, HasText(k)
             PROVE  HoldsExactly(provider[r], k, objects[k])'
  BY DEF LeavesLatest
<1>3. Marked(k) /\ ~ Working(k)
  BY <1>1, AllMarked DEF HasText
<1>4. Indexed(k)
  BY <1>3 DEF RetryInv, MarkInv, IndexInv, Serial, Undisturbed
<1>5. HoldsExactly(provider[r], k, objects[k])
  BY <1>4 DEF Indexed, OnlyProvider
<1> QED BY <1>2, <1>5 DEF HoldsExactly

\* However earlier runs failed: with runs one after the other for one collection,
\* new contents only and every marker removed that had to be, a run that is
\* answered without a counted failure leaves in its collection exactly the
\* present content of every object with text, over any number of pages.
THEOREM RetriesLeaveTheLatest == Spec => RetryLeavesLatest
<1>1. RetryInv /\ [Next]_vars =>
        [\A r \in Runs :
           Serial /\ OnlyProvider(provider[r]) /\ EndsWell(r) => LeavesLatest(r)]_vars
  BY EndLeaves
<1> QED BY <1>1, RetryInit, RetryStep, PTL DEF Spec, RetryLeavesLatest
=============================================================================
