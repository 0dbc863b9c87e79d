-------------------------- MODULE InvertedProofs --------------------------
(***************************************************************************)
(* What the inverted index keeps, for any documents, searching threads and *)
(* settings, and however many segments there are: an acknowledged flush    *)
(* (Kept), what a search finds (FindsAll), and the cached posting          *)
(* (CacheFresh).                                                           *)
(***************************************************************************)
EXTENDS Inverted, TLAPS

---------------------------------------------------------------------------
(* Sequences as sets *)

\* An empty sequence has no element.
LEMMA SetOfNone == ToSet(<<>>) = {}
    BY DEF ToSet

\* A sequence of one has that one.
LEMMA SetOfOne ==
    ASSUME NEW x
    PROVE  ToSet(<<x>>) = {x}
    BY DEF ToSet

\* What two sequences have, one behind the other has.
LEMMA SetOfBoth ==
    ASSUME NEW S, NEW a \in Seq(S), NEW b \in Seq(S)
    PROVE  a \o b \in Seq(S) /\ ToSet(a \o b) = ToSet(a) \cup ToSet(b)
<1>1. \A i \in DOMAIN a : (a \o b)[i] = a[i] /\ i \in DOMAIN (a \o b)
    OBVIOUS
<1>2. \A i \in DOMAIN b : (a \o b)[Len(a) + i] = b[i] /\ Len(a) + i \in DOMAIN (a \o b)
    OBVIOUS
<1>3. \A i \in DOMAIN (a \o b) : i \in DOMAIN a \/ i - Len(a) \in DOMAIN b
    OBVIOUS
<1>4. \A i \in DOMAIN (a \o b) : (a \o b)[i] \in ToSet(a) \cup ToSet(b)
    BY <1>1, <1>2, <1>3 DEF ToSet
<1>5. ToSet(a) \subseteq ToSet(a \o b)
    BY <1>1 DEF ToSet
<1>6. ToSet(b) \subseteq ToSet(a \o b)
    BY <1>2 DEF ToSet
<1>7. ToSet(a \o b) \subseteq ToSet(a) \cup ToSet(b)
    BY <1>4 DEF ToSet
<1> QED
    BY <1>5, <1>6, <1>7

\* The head and the tail of a sequence have what it has.
LEMMA SetOfParts ==
    ASSUME NEW S, NEW a \in Seq(S), a # <<>>
    PROVE  /\ Head(a) \in S /\ Tail(a) \in Seq(S) /\ Len(Tail(a)) = Len(a) - 1
           /\ ToSet(a) = {Head(a)} \cup ToSet(Tail(a))
<1>1. /\ Head(a) = a[1] /\ 1 \in DOMAIN a
      /\ Tail(a) \in Seq(S) /\ Len(Tail(a)) = Len(a) - 1
    OBVIOUS
<1>2. \A i \in DOMAIN Tail(a) : Tail(a)[i] = a[i + 1] /\ i + 1 \in DOMAIN a
    OBVIOUS
<1>3. \A i \in 1..Len(a) : i # 1 => i - 1 \in DOMAIN Tail(a) /\ Tail(a)[i - 1] = a[i]
  <2> SUFFICES ASSUME NEW i \in 1..Len(a), i # 1
               PROVE  i - 1 \in DOMAIN Tail(a) /\ Tail(a)[i - 1] = a[i]
    OBVIOUS
  <2> QED
    BY <1>1, <1>2, i - 1 \in 1..Len(a) - 1, (i - 1) + 1 = i
<1>4. Head(a) \in ToSet(a)
    BY <1>1 DEF ToSet
<1>5. ToSet(Tail(a)) \subseteq ToSet(a)
    BY <1>2 DEF ToSet
<1>6. \A i \in DOMAIN a : a[i] \in {Head(a)} \cup ToSet(Tail(a))
    BY <1>1, <1>3, DOMAIN a = 1..Len(a) DEF ToSet
<1>7. ToSet(a) \subseteq {Head(a)} \cup ToSet(Tail(a))
    BY <1>6 DEF ToSet
<1> QED
    BY <1>1, <1>4, <1>5, <1>7

\* A sequence over a set has its elements there; an empty set is of an empty one.
LEMMA SetOfSeq ==
    ASSUME NEW S, NEW a \in Seq(S)
    PROVE  ToSet(a) \subseteq S /\ (a # <<>> => ToSet(a) # {})
<1>1. ToSet(a) \subseteq S
    BY DEF ToSet
<1>2. a # <<>> => Head(a) \in ToSet(a)
    BY SetOfParts
<1> QED
    BY <1>1, <1>2

---------------------------------------------------------------------------
(* What segments hold *)

Held(p, ids) == UNION {p[i] : i \in ids}

\* Segments that hold the same in two states hold the same together.
LEMMA HeldSame ==
    ASSUME NEW p, NEW q, NEW ids, \A i \in ids : p[i] = q[i]
    PROVE  Held(p, ids) = Held(q, ids)
    BY DEF Held

\* No segment holds nothing; one holds its own; together they hold both.
LEMMA HeldParts ==
    ASSUME NEW p
    PROVE  /\ Held(p, {}) = {}
           /\ \A i : Held(p, {i}) = p[i]
           /\ \A a, b : Held(p, a \cup b) = Held(p, a) \cup Held(p, b)
           /\ \A a : \A i \in a : p[i] \subseteq Held(p, a)
    BY DEF Held

\* Segments hold no more than each of them may.
LEMMA HeldWithin ==
    ASSUME NEW p, NEW ids, NEW E, \A i \in ids : p[i] \subseteq E
    PROVE  Held(p, ids) \subseteq E
    BY DEF Held

---------------------------------------------------------------------------
(* The invariant *)

(* What the index answers from: the dictionary and the segments it lists. *)
Contents == ToSet(mem) \cup Held(posting, ToSet(segs))

(* Segment numbers in use are below the next one, in memory and on disk;   *)
(* one being written is used nowhere else.                                 *)
Numbers ==
    /\ manifest.next <= next
    /\ \A i \in ToSet(manifest.segs) : i < manifest.next
    /\ \A i \in ToSet(segs) : i < next
    /\ \A s \in Searcher : \A i \in ToSet(search[s].left) : i < next
    /\ change.at \in {"write", "publish"} =>
        /\ change.new \in Id /\ change.new < next
        /\ change.new \notin ToSet(segs) /\ change.new \notin ToSet(manifest.segs)
        /\ \A s \in Searcher : change.new \notin ToSet(search[s].left)

(* How far the flush or the collection is: a collection merges the list    *)
(* as it still is, the new segment holds what it is to hold, and nothing   *)
(* goes from the disk that the manifest names.                             *)
Stages ==
    /\ change.by = "nobody" <=> change.at = "idle"
    /\ change.by \in {"flush", "caller"} => \A s \in Searcher : search[s].at = "idle"
    /\ Collecting /\ change.at \in {"lock", "write", "publish"} =>
        change.old = segs /\ Len(segs) > 1
    /\ change.at = "publish" => change.new \in files /\ posting[change.new] = NewPosting
    /\ change.at \in {"persist", "finish"} =>
        /\ change.new \in ToSet(segs)
        /\ change.by = "flush" => ToSet(mem) \subseteq posting[change.new]
        /\ Collecting => segs = <<change.new>> /\ change.new \notin ToSet(change.old)
    /\ change.at = "finish" => manifest.segs = segs

(* Both lists name segments that exist and that hold what flushes saved.   *)
Safe ==
    /\ ToSet(segs) \subseteq files /\ ToSet(manifest.segs) \subseteq files
    /\ saved \subseteq Held(posting, ToSet(segs))
    /\ saved \subseteq Held(posting, ToSet(manifest.segs))

(* The buffer is empty while a thread searches; a posting cached before a  *)
(* batch arrives that had cleared the cache is known to lack it.           *)
Buffers ==
    /\ \A s \in Searcher : search[s].at # "idle" => pending = <<>>
    /\ \A s \in Searcher : search[s].at \in {"add", "extend"} <=> search[s].batch # <<>>
    /\ \A s \in Searcher : search[s].at = "extend" /\ cache # <<>> =>
        ToSet(search[s].batch) \subseteq cache[1] \cup missing
    /\ \A s \in Searcher : search[s].at \notin {"read", "done"} => search[s].got = {}

(* What searching threads carry to the dictionary. *)
Batches == UNION {ToSet(search[s].batch) : s \in Searcher}

(* What the index must know is in the buffer, on its way, or in it.        *)
Knows ==
    /\ known \subseteq ToSet(pending) \cup Batches \cup Contents
    /\ ToSet(pending) \cup Batches \cup ToSet(mem) \subseteq known

(* The bitmap of a listed field has all the index has, and a cached        *)
(* posting is what the index has but for what is missing, also while       *)
(* something runs.                                                         *)
Wide == mode.listed => Contents \subseteq bitmap
Fresh == cache # <<>> => cache[1] \subseteq Contents /\ Contents \subseteq cache[1] \cup missing

(* A search that reads has found and has left no more than the index has;  *)
(* and what the index has, or is on its way to it, the search has found,   *)
(* has left in segments it can still read, or is noted as missed.          *)
There(s) == ToSet(search[s].left) \cap (mapped \cup files)

ReadsNoMore(s) == Answer(s) \cup Held(posting, ToSet(search[s].left)) \subseteq Contents

ReadsAll(s) ==
    Contents \cup Batches \subseteq Answer(s) \cup Held(posting, There(s)) \cup search[s].missed

Reading ==
    \A s \in Searcher : search[s].at = "read" =>
        /\ Len(segs) > 1 => ToSet(search[s].left) \subseteq ToSet(segs)
        /\ ReadsNoMore(s) /\ ReadsAll(s)

(* Nothing is anywhere that was never written. *)
Written ==
    /\ bitmap \subseteq ever
    /\ cache # <<>> => cache[1] \subseteq ever
    /\ \A i \in Id : posting[i] \subseteq ever
    /\ \A s \in Searcher : Answer(s) \subseteq ever

Inv ==
    /\ TypeOK /\ Numbers /\ Stages /\ Safe
    /\ Buffers /\ Knows /\ Wide /\ Fresh /\ Reading /\ Written /\ FindsAll

---------------------------------------------------------------------------
(* Types *)

\* What replaces a search, and that the others stay.
LEMMA SetSearch ==
    ASSUME TypeOK, NEW s \in Searcher, NEW r, Set(s, r)
    PROVE  search'[s] = r /\ \A t \in Searcher : t # s => search'[t] = search[t]
    BY DEF TypeOK, Set

\* The state of a search is typed when what replaces it is.
LEMMA SetTyped ==
    ASSUME TypeOK, NEW s \in Searcher, NEW r \in Searches, Set(s, r)
    PROVE  search' \in [Searcher -> Searches]
    BY DEF TypeOK, Set

\* A search at rest and no change are typed.
LEMMA RestTyped == Resting \in Searches /\ NoChange \in Changes
<1>1. <<>> \in Seq(Doc) /\ <<>> \in Seq(Id) /\ 0 \in 0..MaxIds
    BY BoundsAssumption
<1>2. Resting \in Searches
    BY <1>1 DEF Resting, Searches
<1> QED
    BY <1>1, <1>2 DEF NoChange, Changes

\* A batch keeps what it touches typed.
LEMMA AddBatchTyped ==
    ASSUME TypeOK, NEW items \in Seq(Doc), AddBatch(items)
    PROVE  /\ pending' \in Seq(Doc) /\ mem' \in Seq(Doc) /\ bitmap' \subseteq Doc
           /\ cache' \in {<<>>} \cup {<<docs>> : docs \in SUBSET Doc}
<1>1. ToSet(items) \subseteq Doc
    BY SetOfSeq
<1>2. mem' \in Seq(Doc) /\ pending' \in Seq(Doc)
    BY DEF TypeOK, AddBatch
<1>3. bitmap' \subseteq Doc
    BY <1>1 DEF TypeOK, AddBatch
<1>4. cache' \in {<<>>} \cup {<<docs>> : docs \in SUBSET Doc}
    BY DEF TypeOK, AddBatch
<1> QED
    BY <1>2, <1>3, <1>4

\* The documents of segments are documents.
LEMMA HeldTyped ==
    ASSUME TypeOK, NEW ids, ids \subseteq Id
    PROVE  Held(posting, ids) \subseteq Doc
<1>1. \A i \in ids : posting[i] \subseteq Doc
    BY DEF TypeOK
<1> QED
    BY <1>1, HeldWithin

\* What a change writes is documents.
LEMMA NewTyped == TypeOK => NewPosting \subseteq Doc
<1> SUFFICES ASSUME TypeOK PROVE NewPosting \subseteq Doc
    OBVIOUS
<1>1. change.old \in Seq(Id) /\ mem \in Seq(Doc)
    BY DEF TypeOK, Changes
<1>2. ToSet(change.old) \subseteq Id /\ ToSet(mem) \subseteq Doc
    BY <1>1, SetOfSeq
<1>3. Held(posting, ToSet(change.old)) \subseteq Doc
    BY <1>2, HeldTyped
<1> QED
    BY <1>2, <1>3 DEF NewPosting, Held

\* The initial state is typed.
LEMMA InitTyped == Init => TypeOK
<1> SUFFICES ASSUME Init PROVE TypeOK
    OBVIOUS
<1>1. <<>> \in Seq(Doc) /\ <<>> \in Seq(Id) /\ 1 \in 1..MaxIds + 1
    BY BoundsAssumption DEF Id
<1>2. manifest \in [segs : Seq(Id), next : 1..MaxIds + 1]
    BY <1>1 DEF Init
<1>3. search \in [Searcher -> Searches] /\ change \in Changes
    BY RestTyped DEF Init
<1>4. posting \in [Id -> SUBSET Doc] /\ cache \in {<<>>} /\ missing \subseteq Doc
    BY DEF Init
<1> QED
    BY <1>1, <1>2, <1>3, <1>4, BoundsAssumption DEF Init, TypeOK

\* Every step of a thread that searches leaves the state typed.
LEMMA SearchTyped ==
    ASSUME TypeOK, NEW s \in Searcher,
           \/ inverted_posting(s) \/ inverted_doc_count(s) \/ add_batch(s)
           \/ Lookup(s) \/ ReadSegment(s) \/ Finish(s) \/ Return(s)
    PROVE  TypeOK'
<1> USE DEF indexVars, listVars, diskVars, histVars
<1>0. search[s] \in Searches
    BY DEF TypeOK
<1>1. CASE \E count \in BOOLEAN : Begin(s, count)
  <2>1. PICK count \in BOOLEAN : Begin(s, count)
    BY <1>1
  <2>2. PICK r : Set(s, r) /\ r = [Resting EXCEPT !.at = IF pending = <<>> THEN "lookup" ELSE "add",
                                                  !.count = count, !.batch = pending]
    BY <2>1 DEF Begin
  <2>3. r \in Searches
    BY <2>2, RestTyped DEF Searches, TypeOK
  <2>4. search' \in [Searcher -> Searches]
    BY <2>2, <2>3, SetTyped
  <2> QED
    BY <2>1, <2>4 DEF Begin, TypeOK
<1>2. CASE add_batch(s)
  <2>1. CASE search[s].at = "add"
    <3>1. [search[s] EXCEPT !.at = "extend"] \in Searches
      BY <1>0 DEF Searches
    <3>2. search' \in [Searcher -> Searches]
      BY <1>2, <2>1, <3>1, SetTyped DEF add_batch
    <3> QED
      BY <1>2, <2>1, <3>2 DEF add_batch, TypeOK
  <2>2. CASE search[s].at = "extend"
    <3>1. [search[s] EXCEPT !.at = "lookup", !.batch = <<>>] \in Searches
      BY <1>0, <<>> \in Seq(Doc) DEF Searches
    <3>2. search' \in [Searcher -> Searches]
      BY <1>2, <2>2, <3>1, SetTyped DEF add_batch
    <3>3. search[s].batch \in Seq(Doc)
      BY <1>0 DEF Searches
    <3>4. mem \in Seq(Doc) /\ mem' = mem \o search[s].batch
      BY <1>2, <2>2 DEF add_batch, TypeOK
    <3>7. mem' \in Seq(Doc)
      BY <3>3, <3>4
    <3>5. ToSet(search[s].batch) \subseteq Doc
      BY <3>3, SetOfSeq
    <3>6. bitmap' \subseteq Doc
      BY <1>2, <2>2, <3>5 DEF add_batch, TypeOK
    <3> QED
      BY <1>2, <2>2, <3>2, <3>6, <3>7 DEF add_batch, TypeOK
  <2> QED
    BY <1>2, <2>1, <2>2 DEF add_batch
<1>3. CASE Lookup(s)
  <2>1. \A docs \in SUBSET Doc, missed \in SUBSET Doc :
            [search[s] EXCEPT !.at = "done", !.got = docs, !.missed = missed] \in Searches
    BY <1>0 DEF Searches
  <2>2. InFlight(s) \in SUBSET Doc
    <3>1. \A r \in Searcher : ToSet(search[r].batch) \subseteq Doc
      BY SetOfSeq DEF TypeOK, Searches
    <3> QED
      BY <3>1 DEF InFlight
  <2>3. bitmap \in SUBSET Doc /\ (cache # <<>> => cache[1] \in SUBSET Doc)
    BY DEF TypeOK
  <2>4. missing \cup InFlight(s) \in SUBSET Doc
    BY <2>2 DEF TypeOK
  <2>6. [search[s] EXCEPT !.at = "read", !.mem = mem, !.left = segs,
                          !.missed = InFlight(s)] \in Searches
    BY <1>0, <2>2 DEF Searches, TypeOK
  <2>5. search' \in [Searcher -> Searches]
    BY <1>3, <2>1, <2>2, <2>3, <2>4, <2>6, SetTyped DEF Lookup
  <2> QED
    BY <1>3, <2>5 DEF Lookup, TypeOK
<1>4. CASE ReadSegment(s)
  <2>1. PICK i, there :
            /\ i = Head(search[s].left) /\ there = {i} \cap (mapped \cup files)
            /\ Set(s, [search[s] EXCEPT !.left = Tail(@),
                                        !.got = @ \cup UNION {posting[j] : j \in there}])
            /\ mapped' = mapped \cup there
    BY <1>4 DEF ReadSegment
  <2>2. there \subseteq Id
    BY <2>1 DEF TypeOK
  <2>3. Held(posting, there) \subseteq Doc
    BY <2>2, HeldTyped
  <2>4. search[s].left \in Seq(Id) /\ search[s].left # <<>>
    BY <1>0, <1>4 DEF Searches, ReadSegment
  <2>5. Tail(search[s].left) \in Seq(Id)
    BY <2>4
  <2>6. [search[s] EXCEPT !.left = Tail(@),
                          !.got = @ \cup UNION {posting[j] : j \in there}] \in Searches
    BY <1>0, <2>3, <2>5 DEF Searches, Held
  <2>7. search' \in [Searcher -> Searches]
    BY <2>1, <2>6, SetTyped
  <2> QED
    BY <1>4, <2>1, <2>2, <2>7 DEF ReadSegment, TypeOK
<1>5. CASE Finish(s)
  <2>1. [search[s] EXCEPT !.at = "done"] \in Searches
    BY <1>0 DEF Searches
  <2>2. search' \in [Searcher -> Searches]
    BY <1>5, <2>1, SetTyped DEF Finish
  <2>3. Answer(s) \in SUBSET Doc
    BY <1>0, SetOfSeq DEF Answer, Searches
  <2>4. cache' \in {<<>>} \cup {<<docs>> : docs \in SUBSET Doc}
    BY <1>5, <2>3 DEF Finish, TypeOK
  <2>6. missing' \subseteq Doc
    BY <1>0, <1>5 DEF Finish, TypeOK, Searches
  <2> QED
    BY <1>5, <2>2, <2>4, <2>6 DEF Finish, TypeOK
<1>6. CASE Return(s)
  <2>1. search' \in [Searcher -> Searches]
    BY <1>6, RestTyped, SetTyped DEF Return
  <2> QED
    BY <1>6, <2>1 DEF Return, TypeOK
<1> QED
    BY <1>1, <1>2, <1>3, <1>4, <1>5, <1>6 DEF inverted_posting, inverted_doc_count

\* Every step of a flush or a collection leaves the state typed.
LEMMA ChangeTyped ==
    ASSUME TypeOK, ToSet(mem) \subseteq known,
           change.at \in {"write", "publish"} => change.new \in Id,
           \/ TakeNumber \/ WriteSegment \/ Publish \/ persist_manifest
           \/ ClearMemory \/ DeleteOld \/ ChangeFails
    PROVE  TypeOK'
<1> USE DEF indexVars, listVars, diskVars, histVars
<1>0. /\ change \in Changes /\ change.new \in 0..MaxIds /\ change.old \in Seq(Id)
      /\ next \in 1..MaxIds + 1 /\ MaxIds \in Nat
    BY BoundsAssumption DEF TypeOK, Changes
<1>1. CASE TakeNumber
  <2>1. next \in 0..MaxIds /\ next' \in 1..MaxIds + 1
    BY <1>0, <1>1 DEF TakeNumber
  <2>2. change' \in Changes
    BY <1>0, <1>1, <2>1 DEF TakeNumber, Changes
  <2> QED
    BY <1>1, <2>1, <2>2 DEF TakeNumber, TypeOK
<1>2. CASE WriteSegment
  <2>1. change' \in Changes
    BY <1>0, <1>2 DEF WriteSegment, Changes
  <2>2. NewPosting \subseteq Doc
    BY NewTyped
  <2>3. posting' \in [Id -> SUBSET Doc]
    BY <1>2, <2>2 DEF WriteSegment, TypeOK
  <2>4. change.new \in Id
    BY <1>2 DEF WriteSegment
  <2>5. files' \subseteq Id
    BY <1>2, <2>4 DEF WriteSegment, TypeOK
  <2> QED
    BY <1>2, <2>1, <2>3, <2>5 DEF WriteSegment, TypeOK
<1>3. CASE Publish
  <2>1. change' \in Changes
    BY <1>0, <1>3 DEF Publish, Changes
  <2>2. change.new \in Id
    BY <1>3 DEF Publish
  <2>3. <<change.new>> \in Seq(Id) /\ <<change.new>> \o segs \in Seq(Id)
    BY <2>2 DEF TypeOK
  <2> QED
    BY <1>3, <2>1, <2>2, <2>3 DEF Publish, TypeOK
<1>4. CASE persist_manifest
  <2>1. change' \in Changes
    BY <1>0, <1>4 DEF persist_manifest, Changes
  <2> QED
    BY <1>4, <2>1 DEF persist_manifest, TypeOK
<1>5. CASE ClearMemory
  <2>1. <<>> \in Seq(Doc)
    OBVIOUS
  <2> QED
    BY <1>5, <2>1, RestTyped DEF ClearMemory, TypeOK
<1>6. CASE DeleteOld
  <2>1. Tail(change.old) \in Seq(Id)
    BY <1>0, <1>6 DEF DeleteOld
  <2>2. change' \in Changes
    BY <1>0, <1>6, <2>1, RestTyped DEF DeleteOld, Changes
  <2>3. \A s \in Searcher :
            [search[s] EXCEPT !.missed = @ \cup posting[Head(change.old)]] \in Searches
    <3>1. posting[Head(change.old)] \subseteq Doc
      <4>1. Head(change.old) \in Id
        BY <1>0, <1>6 DEF DeleteOld
      <4> QED
        BY <4>1 DEF TypeOK
    <3> QED
      BY <3>1 DEF TypeOK, Searches
  <2>4. search' \in [Searcher -> Searches]
    BY <1>6, <2>3 DEF DeleteOld, TypeOK
  <2> QED
    BY <1>6, <2>2, <2>4 DEF DeleteOld, TypeOK
<1>7. CASE ChangeFails
  <2>1. faults' \in 0..MaxFaults
    BY <1>7, BoundsAssumption DEF ChangeFails, TypeOK
  <2> QED
    BY <1>7, <2>1, RestTyped DEF ChangeFails, TypeOK
<1> QED
    BY <1>1, <1>2, <1>3, <1>4, <1>5, <1>6, <1>7

\* Writing, the start of a change and a restart leave the state typed.
LEMMA RestOfNextTyped ==
    ASSUME TypeOK,
           \/ \E d \in Doc : put(d)
           \/ flush_inverted \/ inverted_gc \/ WorkerCollects \/ Restart
    PROVE  TypeOK'
<1> USE DEF indexVars, listVars, diskVars, histVars
<1>1. CASE \E d \in Doc : put(d)
  <2>1. PICK d \in Doc : put(d)
    BY <1>1
  <2>2. Append(pending, d) \in Seq(Doc)
    BY DEF TypeOK
  <2>3. /\ pending' \in Seq(Doc) /\ mem' \in Seq(Doc) /\ bitmap' \subseteq Doc
        /\ cache' \in {<<>>} \cup {<<docs>> : docs \in SUBSET Doc}
    BY <2>1, <2>2, AddBatchTyped DEF put, TypeOK
  <2>4. puts' \in 0..MaxPuts
    BY <2>1, BoundsAssumption DEF put, TypeOK
  <2> QED
    BY <2>1, <2>3, <2>4 DEF put, TypeOK
<1>2. CASE flush_inverted
  <2>1. /\ pending' \in Seq(Doc) /\ mem' \in Seq(Doc) /\ bitmap' \subseteq Doc
        /\ cache' \in {<<>>} \cup {<<docs>> : docs \in SUBSET Doc}
    BY <1>2, AddBatchTyped DEF flush_inverted, TypeOK
  <2>2. [by |-> "flush", at |-> "lock", new |-> 0, old |-> <<>>] \in Changes
    BY BoundsAssumption, <<>> \in Seq(Id), 0 \in 0..MaxIds DEF Changes
  <2>3. change' \in Changes
    BY <1>2, <2>2 DEF flush_inverted, TypeOK
  <2> QED
    BY <1>2, <2>1, <2>3 DEF flush_inverted, TypeOK
<1>3. CASE inverted_gc
  <2>1. /\ pending' \in Seq(Doc) /\ mem' \in Seq(Doc) /\ bitmap' \subseteq Doc
        /\ cache' \in {<<>>} \cup {<<docs>> : docs \in SUBSET Doc}
    BY <1>3, AddBatchTyped DEF inverted_gc, TypeOK
  <2>2. [by |-> "caller", at |-> "lock", new |-> 0, old |-> segs] \in Changes
    BY BoundsAssumption DEF Changes, TypeOK
  <2>3. change' \in Changes
    BY <1>3, <2>2 DEF inverted_gc, TypeOK
  <2> QED
    BY <1>3, <2>1, <2>3 DEF inverted_gc, TypeOK
<1>4. CASE WorkerCollects
  <2>1. [by |-> "worker", at |-> "lock", new |-> 0, old |-> segs] \in Changes
    BY BoundsAssumption DEF Changes, TypeOK
  <2> QED
    BY <1>4, <2>1 DEF WorkerCollects, TypeOK
<1>5. CASE Restart
  <2>1. manifest.segs \in Seq(Id) /\ manifest.next \in 1..MaxIds + 1
    BY DEF TypeOK
  <2>2. Held(posting, ToSet(manifest.segs)) \subseteq Doc
    BY <2>1, SetOfSeq, HeldTyped
  <2>3. bitmap' \subseteq Doc
    BY <1>5, <2>2 DEF Restart, Held
  <2>4. <<>> \in Seq(Doc) /\ faults' \in 0..MaxFaults
    BY <1>5, BoundsAssumption DEF Restart, TypeOK
  <2> QED
    BY <1>5, <2>1, <2>3, <2>4, RestTyped DEF Restart, TypeOK
<1> QED
    BY <1>1, <1>2, <1>3, <1>4, <1>5

---------------------------------------------------------------------------
(* Every step keeps the invariant *)

\* The initial state satisfies it.
LEMMA InitInv == Init => Inv
<1> SUFFICES ASSUME Init PROVE Inv
    OBVIOUS
<1>1. /\ \A s \in Searcher : search[s] = Resting
      /\ change = NoChange /\ manifest = [segs |-> <<>>, next |-> 1]
      /\ mem = <<>> /\ segs = <<>> /\ pending = <<>> /\ next = 1
      /\ known = {} /\ saved = {} /\ bitmap = {} /\ cache = <<>>
      /\ \A i \in Id : posting[i] = {}
    BY DEF Init
<1>2. TypeOK
    BY InitTyped
<1>3. Contents = {}
    BY <1>1, SetOfNone, HeldParts DEF Contents
<1>4. Numbers
    BY <1>1, SetOfNone DEF Numbers, Resting, NoChange
<1>5. Stages
    BY <1>1 DEF Stages, Resting, NoChange, Collecting
<1>6. Safe
    BY <1>1, SetOfNone DEF Safe
<1>7. Buffers
    BY <1>1 DEF Buffers, Resting
<1>8. Knows
    BY <1>1, SetOfNone DEF Knows, Batches, Resting
<1>9. Wide /\ Fresh
    BY <1>1, <1>3 DEF Wide, Fresh
<1>10. Reading /\ FindsAll
    BY <1>1 DEF Reading, FindsAll, Resting
<1>11. Written
    BY <1>1, SetOfNone DEF Written, Answer, Resting
<1> QED
    BY <1>2, <1>4, <1>5, <1>6, <1>7, <1>8, <1>9, <1>10, <1>11 DEF Inv

\* After a restart the index is what the manifest names.
LEMMA RestartKeepsInv ==
    ASSUME Inv, Restart
    PROVE  Inv'
<1> USE DEF diskVars
<1>1. /\ \A s \in Searcher : search'[s] = Resting
      /\ change' = NoChange
      /\ mem' = <<>> /\ pending' = <<>> /\ cache' = <<>> /\ known' = saved
      /\ segs' = manifest.segs /\ next' = manifest.next /\ mode' = mode
      /\ bitmap' = IF mode.listed THEN Held(posting, ToSet(manifest.segs)) ELSE {}
      /\ UNCHANGED <<files, posting, manifest, ever, saved>>
    BY DEF Restart, Held
<1>2. TypeOK'
    BY RestOfNextTyped DEF Inv
<1>3. Contents' = Held(posting, ToSet(manifest.segs))
    BY <1>1, SetOfNone DEF Contents
<1>4. Numbers'
  <2>1. manifest.next \in Nat
    BY DEF Inv, TypeOK
  <2>2. \A s \in Searcher : ToSet(search'[s].left) = {}
    BY <1>1, SetOfNone DEF Resting
  <2>3. manifest'.next <= next' /\ \A i \in ToSet(segs') : i < next'
    BY <1>1, <2>1 DEF Inv, Numbers
  <2>4. \A i \in ToSet(manifest'.segs) : i < manifest'.next
    BY <1>1 DEF Inv, Numbers
  <2>5. change'.at = "idle"
    BY <1>1 DEF NoChange
  <2> QED
    BY <2>2, <2>3, <2>4, <2>5 DEF Numbers
<1>5. Stages'
    BY <1>1 DEF Stages, Resting, NoChange, Collecting
<1>6. Safe'
    BY <1>1 DEF Inv, Safe
<1>7. Buffers'
    BY <1>1 DEF Buffers, Resting
<1>8. Knows'
  <2>1. Batches' = {}
    BY <1>1, SetOfNone DEF Batches, Resting
  <2>2. known' \subseteq Contents'
    BY <1>1, <1>3 DEF Inv, Safe
  <2>3. ToSet(pending') = {} /\ ToSet(mem') = {}
    BY <1>1, SetOfNone
  <2> QED
    BY <2>1, <2>2, <2>3 DEF Knows
<1>9. Wide' /\ Fresh'
    BY <1>1, <1>3 DEF Wide, Fresh
<1>10. Reading' /\ FindsAll'
    BY <1>1 DEF Reading, FindsAll, Resting
<1>11. Held(posting, ToSet(manifest.segs)) \subseteq ever
  <2>1. ToSet(manifest.segs) \subseteq Id
    BY SetOfSeq DEF Inv, TypeOK
  <2> QED
    BY <2>1, HeldWithin DEF Inv, Written
<1>12. Written'
    BY <1>1, <1>11, SetOfNone DEF Inv, Written, Answer, Resting
<1> QED
    BY <1>2, <1>4, <1>5, <1>6, <1>7, <1>8, <1>9, <1>10, <1>12 DEF Inv

\* The state of the searches and of the index stays: so does what is said of it.
LEMMA SameIndex ==
    ASSUME Inv, UNCHANGED <<mode, indexVars, listVars, diskVars, search, histVars, missing>>
    PROVE  /\ Safe' /\ Buffers' /\ Knows' /\ Wide' /\ Fresh' /\ Reading' /\ Written' /\ FindsAll'
           /\ \A s \in Searcher : Answer(s)' = Answer(s)
<1> USE DEF indexVars, listVars, diskVars, histVars
<1>1. Contents' = Contents
    BY DEF Contents
<1>2. \A s \in Searcher : Answer(s)' = Answer(s)
    BY DEF Answer
<1>3. Safe' /\ Buffers' /\ Knows' /\ Wide' /\ Fresh'
    BY <1>1 DEF Inv, Safe, Buffers, Knows, Batches, Wide, Fresh
<1>4. FindsAll' /\ Written'
    BY <1>1, <1>2 DEF Inv, FindsAll, Written
<1>5. Reading'
  <2> SUFFICES ASSUME NEW s \in Searcher, search'[s].at = "read"
               PROVE  /\ Len(segs') > 1 => ToSet(search'[s].left) \subseteq ToSet(segs')
                      /\ ReadsNoMore(s)' /\ ReadsAll(s)'
    BY DEF Reading
  <2>1. Batches' = Batches /\ There(s)' = There(s)
    BY <1>1, <1>2 DEF Batches, There
  <2>2. search'[s] = search[s] /\ Answer(s)' = Answer(s)
    BY <1>1, <1>2 DEF Answer
  <2>3. /\ Len(segs) > 1 => ToSet(search[s].left) \subseteq ToSet(segs)
        /\ ReadsNoMore(s) /\ ReadsAll(s)
    BY <2>2 DEF Inv, Reading
  <2> QED
    BY <1>1, <1>2, <2>1, <2>2, <2>3 DEF ReadsNoMore, ReadsAll
<1> QED
    BY <1>2, <1>3, <1>4, <1>5

\* The worker begins to collect, or a change fails.
LEMMA BeginsOrFailsKeepsInv ==
    ASSUME Inv, WorkerCollects \/ ChangeFails
    PROVE  Inv'
<1> USE DEF indexVars, listVars, diskVars, histVars
<1>1. /\ UNCHANGED <<mode, indexVars, listVars, diskVars, search, histVars, missing>>
      /\ \/ change' = NoChange
         \/ Len(segs) > 1 /\ change' = [by |-> "worker", at |-> "lock", new |-> 0, old |-> segs]
    BY DEF WorkerCollects, ChangeFails
<1>2. TypeOK'
    BY RestOfNextTyped, ChangeTyped DEF Inv, Knows, Numbers
<1>3. Numbers'
    BY <1>1 DEF Inv, Numbers, NoChange
<1>4. Stages'
    BY <1>1 DEF Stages, NoChange, Collecting
<1> QED
    BY <1>1, <1>2, <1>3, <1>4, SameIndex DEF Inv

\* A number that is taken is used by no segment yet.
LEMMA TakeNumberKeepsInv ==
    ASSUME Inv, TakeNumber
    PROVE  Inv'
<1> USE DEF indexVars, listVars, diskVars, histVars
<1>1. /\ change.at = "lock" /\ next <= MaxIds
      /\ cache' = <<>> /\ missing' = {} /\ next' = next + 1
      /\ change' = [change EXCEPT !.at = "write", !.new = next]
      /\ UNCHANGED <<mode, pending, mem, bitmap, segs, mapped, diskVars, search, histVars>>
    BY DEF TakeNumber
<1>2. TypeOK'
    BY ChangeTyped DEF Inv, Knows, Numbers
<1>3. Contents' = Contents /\ \A s \in Searcher : Answer(s)' = Answer(s)
    BY <1>1 DEF Contents, Answer
<1>4. /\ change'.by = change.by /\ change'.at = "write" /\ change'.new = next
      /\ change'.old = change.old
    BY <1>1 DEF Inv, TypeOK, Changes
<1>5. Numbers'
  <2>1. /\ next \in Id /\ next < next' /\ manifest.next \in Nat /\ next \in Nat
        /\ \A i \in Id : i < next => i # next /\ i < next'
    BY <1>1, BoundsAssumption DEF Inv, TypeOK, Id
  <2>2. /\ ToSet(segs) \subseteq Id /\ ToSet(manifest.segs) \subseteq Id
        /\ \A s \in Searcher : ToSet(search[s].left) \subseteq Id
    BY SetOfSeq DEF Inv, TypeOK, Searches
  <2>3. \A i \in ToSet(manifest.segs) : i < next
    BY <2>1, <2>2 DEF Inv, Numbers, Id
  <2>4. manifest.next <= next'
    BY <1>1, <2>1 DEF Inv, Numbers
  <2> QED
    BY <1>1, <1>4, <2>1, <2>2, <2>3, <2>4 DEF Inv, Numbers
<1>6. Stages'
    BY <1>1, <1>4 DEF Inv, Stages, Collecting
<1>7. Safe' /\ Buffers' /\ Knows' /\ Wide' /\ Fresh'
    BY <1>1, <1>3 DEF Inv, Safe, Buffers, Knows, Batches, Wide, Fresh
<1>8. FindsAll' /\ Written'
    BY <1>1, <1>3 DEF Inv, FindsAll, Written
<1>9. Reading'
  <2> SUFFICES ASSUME NEW s \in Searcher, search'[s].at = "read"
               PROVE  /\ Len(segs') > 1 => ToSet(search'[s].left) \subseteq ToSet(segs')
                      /\ ReadsNoMore(s)' /\ ReadsAll(s)'
    BY DEF Reading
  <2>1. Batches' = Batches /\ There(s)' = There(s)
    BY <1>1, <1>3 DEF Batches, There
  <2>2. search'[s] = search[s] /\ Answer(s)' = Answer(s)
    BY <1>1, <1>3 DEF Answer
  <2>3. /\ Len(segs) > 1 => ToSet(search[s].left) \subseteq ToSet(segs)
        /\ ReadsNoMore(s) /\ ReadsAll(s)
    BY <2>2 DEF Inv, Reading
  <2> QED
    BY <1>1, <1>3, <2>1, <2>2, <2>3 DEF ReadsNoMore, ReadsAll
<1> QED
    BY <1>2, <1>5, <1>6, <1>7, <1>8, <1>9 DEF Inv

\* The new segment's file is nobody's yet: what all others hold stays.
LEMMA WriteKeepsInv ==
    ASSUME Inv, WriteSegment
    PROVE  Inv'
<1> USE DEF indexVars, listVars, histVars
<1>1. /\ change.at = "write"
      /\ files' = files \cup {change.new}
      /\ posting' = [posting EXCEPT ![change.new] = NewPosting]
      /\ change' = [change EXCEPT !.at = "publish"]
      /\ UNCHANGED <<mode, indexVars, listVars, manifest, search, histVars, missing>>
    BY DEF WriteSegment
<1>2. TypeOK'
    BY ChangeTyped DEF Inv, Knows, Numbers
<1>3. /\ change'.by = change.by /\ change'.at = "publish" /\ change'.new = change.new
      /\ change'.old = change.old
    BY <1>1 DEF Inv, TypeOK, Changes
<1>4. /\ change.new \in Id /\ change.new < next
      /\ change.new \notin ToSet(segs) /\ change.new \notin ToSet(manifest.segs)
      /\ \A s \in Searcher : change.new \notin ToSet(search[s].left)
    BY <1>1 DEF Inv, Numbers
<1>5. /\ posting'[change.new] = NewPosting
      /\ \A i : i \in Id /\ i # change.new => posting'[i] = posting[i]
    BY <1>1, <1>4 DEF Inv, TypeOK
<1>6. \A ids \in SUBSET Id : change.new \notin ids => Held(posting', ids) = Held(posting, ids)
    BY <1>5, HeldSame
<1>7. /\ ToSet(segs) \in SUBSET Id /\ ToSet(manifest.segs) \in SUBSET Id
      /\ \A s \in Searcher : ToSet(search[s].left) \in SUBSET Id
    BY SetOfSeq DEF Inv, TypeOK, Searches
<1>8. /\ Held(posting', ToSet(segs')) = Held(posting, ToSet(segs))
      /\ Held(posting', ToSet(manifest'.segs)) = Held(posting, ToSet(manifest.segs))
      /\ \A s \in Searcher :
            Held(posting', ToSet(search'[s].left)) = Held(posting, ToSet(search[s].left))
    BY <1>1, <1>4, <1>6, <1>7
<1>9. Contents' = Contents /\ \A s \in Searcher : Answer(s)' = Answer(s)
    BY <1>1, <1>8 DEF Contents, Answer
<1>10. Numbers'
    BY <1>1, <1>3, <1>4 DEF Inv, Numbers
<1>11. NewPosting = IF Collecting THEN Held(posting, ToSet(segs)) ELSE ToSet(mem)
    BY <1>1 DEF NewPosting, Held, Inv, Stages
<1>12. NewPosting' = NewPosting
  <2>1. NewPosting' = IF Collecting THEN Held(posting', ToSet(change.old)) ELSE ToSet(mem)
    BY <1>1, <1>3 DEF NewPosting, Held, Collecting
  <2>2. Collecting => change.old = segs
    BY <1>1 DEF Inv, Stages
  <2> QED
    BY <1>1, <1>8, <1>11, <2>1, <2>2
<1>13. Stages'
    BY <1>1, <1>3, <1>5, <1>12 DEF Inv, Stages, Collecting
<1>14. Safe'
    BY <1>1, <1>8 DEF Inv, Safe
<1>15. Buffers' /\ Knows' /\ Wide' /\ Fresh'
    BY <1>1, <1>9 DEF Inv, Buffers, Knows, Batches, Wide, Fresh
<1>16. FindsAll'
    BY <1>1, <1>9 DEF Inv, FindsAll
<1>19. Reading'
  <2> SUFFICES ASSUME NEW s \in Searcher, search[s].at = "read"
               PROVE  ReadsNoMore(s)' /\ ReadsAll(s)'
    BY <1>1 DEF Inv, Reading
  <2>1. ReadsNoMore(s) /\ ReadsAll(s)
    BY DEF Inv, Reading
  <2>2. /\ There(s) \in SUBSET Id /\ change.new \notin There(s) /\ There(s) \subseteq There(s)'
        /\ Batches' = Batches
    BY <1>1, <1>4, <1>7 DEF There, Batches
  <2>3. Held(posting', There(s)) = Held(posting, There(s))
    BY <1>6, <2>2
  <2>4. Held(posting', There(s)) \subseteq Held(posting', There(s)')
    BY <2>2 DEF Held
  <2> QED
    BY <1>1, <1>8, <1>9, <2>1, <2>2, <2>3, <2>4 DEF ReadsNoMore, ReadsAll
<1>17. NewPosting \subseteq ever
  <2>1. ToSet(mem) \subseteq ever
    BY DEF Inv, Knows, TypeOK
  <2>2. Held(posting, ToSet(segs)) \subseteq ever
    BY <1>7, HeldWithin DEF Inv, Written
  <2> QED
    BY <1>11, <2>1, <2>2
<1>18. Written'
    BY <1>1, <1>5, <1>9, <1>17 DEF Inv, Written
<1> QED
    BY <1>2, <1>10, <1>13, <1>14, <1>15, <1>16, <1>18, <1>19 DEF Inv

\* The list in memory changes, and what it holds together with the dictionary does not.
LEMMA PublishKeepsInv ==
    ASSUME Inv, Publish
    PROVE  Inv'
<1> USE DEF indexVars, diskVars, histVars
<1>1. /\ change.at = "publish"
      /\ segs' = IF Collecting THEN <<change.new>> ELSE <<change.new>> \o segs
      /\ mapped' = IF Collecting THEN {change.new} ELSE mapped \cup {change.new}
      /\ change' = [change EXCEPT !.at = "persist"]
      /\ UNCHANGED <<mode, indexVars, next, diskVars, search, histVars, missing>>
    BY DEF Publish
<1>2. TypeOK'
    BY ChangeTyped DEF Inv, Knows, Numbers
<1>3. /\ change'.by = change.by /\ change'.at = "persist" /\ change'.new = change.new
      /\ change'.old = change.old
      /\ ~Collecting => change.by = "flush"
    BY <1>1 DEF Inv, TypeOK, Changes, Stages, Collecting
<1>4. /\ change.new \in Id /\ change.new < next
      /\ change.new \notin ToSet(segs)
      /\ change.new \in files /\ posting[change.new] = NewPosting
    BY <1>1 DEF Inv, Numbers, Stages
<1>5. ToSet(segs') = IF Collecting THEN {change.new} ELSE {change.new} \cup ToSet(segs)
  <2>1. <<change.new>> \in Seq(Id) /\ segs \in Seq(Id)
    BY <1>4 DEF Inv, TypeOK
  <2>2. ToSet(<<change.new>>) = {change.new}
    BY SetOfOne
  <2>3. ToSet(<<change.new>> \o segs) = ToSet(<<change.new>>) \cup ToSet(segs)
    BY <2>1, SetOfBoth
  <2> QED
    BY <1>1, <2>2, <2>3
<1>6. posting[change.new] = IF Collecting THEN Held(posting, ToSet(segs)) ELSE ToSet(mem)
    BY <1>1, <1>4 DEF NewPosting, Held, Inv, Stages
<1>7. Held(posting, ToSet(segs)) \subseteq Held(posting', ToSet(segs'))
    BY <1>1, <1>5, <1>6, HeldParts
<1>8. Contents' = Contents
  <2>1. CASE Collecting
    <3>1. Held(posting', ToSet(segs')) = Held(posting, {change.new})
      BY <1>1, <1>5, <2>1
    <3>2. Held(posting', ToSet(segs')) = Held(posting, ToSet(segs))
      BY <1>6, <2>1, <3>1, HeldParts
    <3> QED
      BY <1>1, <3>2 DEF Contents
  <2>2. CASE ~Collecting
    <3>1. Held(posting', ToSet(segs')) = Held(posting, {change.new} \cup ToSet(segs))
      BY <1>1, <1>5, <2>2
    <3>2. Held(posting, {change.new}) = ToSet(mem)
      BY <1>6, <2>2, HeldParts
    <3>3. Held(posting, {change.new} \cup ToSet(segs))
            = Held(posting, {change.new}) \cup Held(posting, ToSet(segs))
      BY HeldParts
    <3> QED
      BY <1>1, <3>1, <3>2, <3>3 DEF Contents
  <2> QED
    BY <2>1, <2>2
<1>9. \A s \in Searcher : Answer(s)' = Answer(s)
    BY <1>1 DEF Answer
<1>10. Numbers'
    BY <1>1, <1>3, <1>4, <1>5 DEF Inv, Numbers
<1>11. Stages'
  <2>1. Collecting' <=> Collecting
    BY <1>3 DEF Collecting
  <2>2. Collecting => segs' = <<change.new>> /\ change.new \notin ToSet(change.old)
    BY <1>1, <1>4 DEF Inv, Stages
  <2>3. change.new \in ToSet(segs')
    BY <1>5
  <2> QED
    BY <1>1, <1>3, <1>6, <2>1, <2>2, <2>3 DEF Inv, Stages, Collecting
<1>12. Safe'
    BY <1>1, <1>4, <1>5, <1>7 DEF Inv, Safe
<1>13. Buffers' /\ Knows' /\ Wide' /\ Fresh'
    BY <1>1, <1>8 DEF Inv, Buffers, Knows, Batches, Wide, Fresh
<1>14. Reading'
  <2> SUFFICES ASSUME NEW s \in Searcher, search[s].at = "read"
               PROVE  /\ Len(segs') > 1 => ToSet(search[s].left) \subseteq ToSet(segs')
                      /\ ReadsNoMore(s)' /\ ReadsAll(s)'
    BY <1>1 DEF Reading
  <2>1. Collecting
    BY <1>1, <1>3 DEF Inv, Stages
  <2>2. Len(segs') = 1
    BY <1>1, <2>1
  <2>3. Len(segs) > 1
    BY <1>1, <2>1 DEF Inv, Stages
  <2>4. ToSet(search[s].left) \subseteq files
    BY <1>1, <2>3 DEF Inv, Reading, Safe
  <2>5. There(s)' = There(s) /\ Batches' = Batches
    BY <1>1, <2>4 DEF There, Batches
  <2>6. ReadsNoMore(s) /\ ReadsAll(s)
    BY DEF Inv, Reading
  <2> QED
    BY <1>1, <1>8, <1>9, <2>2, <2>5, <2>6 DEF ReadsNoMore, ReadsAll
<1>15. FindsAll' /\ Written'
    BY <1>1, <1>9 DEF Inv, FindsAll, Written
<1> QED
    BY <1>2, <1>10, <1>11, <1>12, <1>13, <1>14, <1>15 DEF Inv

\* The manifest takes the list in memory, which holds what was saved too.
LEMMA PersistKeepsInv ==
    ASSUME Inv, persist_manifest
    PROVE  Inv'
<1> USE DEF indexVars, listVars, histVars
<1>1. /\ change.at = "persist"
      /\ manifest' = [segs |-> segs, next |-> next]
      /\ change' = [change EXCEPT !.at = "finish"]
      /\ UNCHANGED <<mode, indexVars, listVars, files, posting, search, histVars, missing>>
    BY DEF persist_manifest
<1>2. TypeOK'
    BY ChangeTyped DEF Inv, Knows, Numbers
<1>3. /\ change'.by = change.by /\ change'.at = "finish" /\ change'.new = change.new
      /\ change'.old = change.old
      /\ manifest'.segs = segs /\ manifest'.next = next
    BY <1>1 DEF Inv, TypeOK, Changes
<1>4. Contents' = Contents /\ \A s \in Searcher : Answer(s)' = Answer(s)
    BY <1>1 DEF Contents, Answer
<1>5. Numbers'
  <2>1. next \in Nat
    BY DEF Inv, TypeOK
  <2> QED
    BY <1>1, <1>3, <2>1 DEF Inv, Numbers
<1>6. Stages'
    BY <1>1, <1>3 DEF Inv, Stages, Collecting
<1>7. Safe'
    BY <1>1, <1>3 DEF Inv, Safe
<1>8. Buffers' /\ Knows' /\ Wide' /\ Fresh'
    BY <1>1, <1>4 DEF Inv, Buffers, Knows, Batches, Wide, Fresh
<1>9. FindsAll' /\ Written'
    BY <1>1, <1>4 DEF Inv, FindsAll, Written
<1>10. Reading'
  <2> SUFFICES ASSUME NEW s \in Searcher, search'[s].at = "read"
               PROVE  /\ Len(segs') > 1 => ToSet(search'[s].left) \subseteq ToSet(segs')
                      /\ ReadsNoMore(s)' /\ ReadsAll(s)'
    BY DEF Reading
  <2>1. Batches' = Batches /\ There(s)' = There(s)
    BY <1>1, <1>4 DEF Batches, There
  <2>2. search'[s] = search[s] /\ Answer(s)' = Answer(s)
    BY <1>1, <1>4 DEF Answer
  <2>3. /\ Len(segs) > 1 => ToSet(search[s].left) \subseteq ToSet(segs)
        /\ ReadsNoMore(s) /\ ReadsAll(s)
    BY <2>2 DEF Inv, Reading
  <2> QED
    BY <1>1, <1>4, <2>1, <2>2, <2>3 DEF ReadsNoMore, ReadsAll
<1> QED
    BY <1>2, <1>5, <1>6, <1>7, <1>8, <1>9, <1>10 DEF Inv

\* The dictionary is emptied when a listed segment has all of it.
LEMMA ClearKeepsInv ==
    ASSUME Inv, ClearMemory
    PROVE  Inv'
<1> USE DEF indexVars, listVars, diskVars, histVars
<1>1. /\ change.at = "finish" /\ change.by = "flush"
      /\ mem' = <<>> /\ saved' = saved \cup ToSet(mem) /\ change' = NoChange
      /\ UNCHANGED <<mode, pending, bitmap, cache, listVars, diskVars, search, ever, known, missing>>
    BY DEF ClearMemory
<1>2. TypeOK'
    BY ChangeTyped DEF Inv, Knows, Numbers
<1>3. ToSet(mem) \subseteq Held(posting, ToSet(segs))
  <2>1. change.new \in ToSet(segs) /\ ToSet(mem) \subseteq posting[change.new]
    BY <1>1 DEF Inv, Stages
  <2> QED
    BY <2>1, HeldParts
<1>4. Contents' = Contents /\ \A s \in Searcher : Answer(s)' = Answer(s)
    BY <1>1, <1>3, SetOfNone DEF Contents, Answer
<1>5. manifest.segs = segs /\ \A s \in Searcher : search[s].at = "idle"
    BY <1>1 DEF Inv, Stages
<1>6. Numbers'
    BY <1>1 DEF Inv, Numbers, NoChange
<1>7. Stages'
    BY <1>1 DEF Stages, NoChange, Collecting
<1>8. Safe'
    BY <1>1, <1>3, <1>5 DEF Inv, Safe
<1>9. Buffers' /\ Wide' /\ Fresh'
    BY <1>1, <1>4 DEF Inv, Buffers, Wide, Fresh
<1>10. Knows'
    BY <1>1, <1>4, SetOfNone DEF Inv, Knows, Batches
<1>11. Reading' /\ FindsAll' /\ Written'
    BY <1>1, <1>4, <1>5 DEF Inv, Reading, FindsAll, Written
<1> QED
    BY <1>2, <1>6, <1>7, <1>8, <1>9, <1>10, <1>11 DEF Inv

\* A segment that goes is in neither list; what a search had left there it misses.
LEMMA DeleteKeepsInv ==
    ASSUME Inv, DeleteOld
    PROVE  Inv'
<1> USE DEF indexVars, listVars, histVars
<1>1. PICK h : /\ h = Head(change.old) /\ files' = files \ {h}
               /\ search' = [s \in Searcher |->
                              IF Overtaken(s, h)
                              THEN [search[s] EXCEPT !.missed = @ \cup posting[h]]
                              ELSE search[s]]
    BY DEF DeleteOld
<1>2. /\ change.at = "finish" /\ Collecting /\ change.old # <<>>
      /\ change' = IF Len(change.old) = 1 THEN NoChange ELSE [change EXCEPT !.old = Tail(@)]
      /\ UNCHANGED <<mode, indexVars, listVars, posting, manifest, histVars, missing>>
    BY DEF DeleteOld
<1>3. TypeOK'
    BY ChangeTyped DEF Inv, Knows, Numbers
<1>4. \A s \in Searcher :
        /\ search'[s].at = search[s].at /\ search'[s].batch = search[s].batch
        /\ search'[s].left = search[s].left /\ search'[s].got = search[s].got
        /\ search'[s].mem = search[s].mem
        /\ search'[s].missed = search[s].missed \cup (IF Overtaken(s, h) THEN posting[h] ELSE {})
    BY <1>1 DEF Inv, TypeOK, Searches
<1>5. /\ segs = <<change.new>> /\ change.new \notin ToSet(change.old)
      /\ manifest.segs = segs /\ change.by # "nobody"
    BY <1>2 DEF Inv, Stages, Collecting
<1>6. /\ h # change.new
      /\ change.new \notin ToSet(Tail(change.old))
  <2>1. change.old \in Seq(Id)
    BY DEF Inv, TypeOK, Changes
  <2>2. ToSet(change.old) = {h} \cup ToSet(Tail(change.old))
    BY <1>1, <1>2, <2>1, SetOfParts
  <2> QED
    BY <1>5, <2>2
<1>7. ToSet(segs) = {change.new}
    BY <1>5, SetOfOne
<1>8. Contents' = Contents /\ \A s \in Searcher : Answer(s)' = Answer(s)
    BY <1>2, <1>4 DEF Contents, Answer
<1>9. \/ change' = NoChange
      \/ /\ change'.by = change.by /\ change'.at = "finish" /\ change'.new = change.new
         /\ change'.old = Tail(change.old)
    BY <1>2 DEF Inv, TypeOK, Changes
<1>10. Numbers'
    BY <1>2, <1>4, <1>9 DEF Inv, Numbers, NoChange
<1>11. Stages'
  <2>1. CASE change' = NoChange
    BY <2>1 DEF Stages, NoChange, Collecting
  <2>2. CASE change' # NoChange
    BY <1>2, <1>4, <1>5, <1>6, <1>7, <1>9, <2>2 DEF Inv, Stages, Collecting
  <2> QED
    BY <2>1, <2>2
<1>12. Safe'
    BY <1>1, <1>2, <1>5, <1>6, <1>7 DEF Inv, Safe
<1>13. Batches' = Batches
    BY <1>4 DEF Batches
<1>14. Buffers'
    BY <1>2, <1>4 DEF Inv, Buffers
<1>15. Knows' /\ Wide' /\ Fresh'
    BY <1>2, <1>8, <1>13 DEF Inv, Knows, Wide, Fresh
<1>16. Reading'
  <2> SUFFICES ASSUME NEW s \in Searcher, search[s].at = "read"
               PROVE  ReadsNoMore(s)' /\ ReadsAll(s)'
    BY <1>2, <1>4 DEF Inv, Reading
  <2>1. ReadsNoMore(s) /\ ReadsAll(s)
    BY DEF Inv, Reading
  <2>2. There(s) \subseteq There(s)' \cup (IF Overtaken(s, h) THEN {h} ELSE {})
    BY <1>1, <1>2, <1>4 DEF There, Overtaken
  <2>3. Held(posting, There(s))
          \subseteq Held(posting, There(s)') \cup (IF Overtaken(s, h) THEN posting[h] ELSE {})
    BY <2>2 DEF Held
  <2> QED
    BY <1>2, <1>4, <1>8, <1>13, <2>1, <2>3 DEF ReadsNoMore, ReadsAll
<1>17. FindsAll' /\ Written'
    BY <1>2, <1>4, <1>8 DEF Inv, FindsAll, Written
<1> QED
    BY <1>3, <1>10, <1>11, <1>12, <1>14, <1>15, <1>16, <1>17 DEF Inv

\* A batch added by a thread that has the engine to itself.
LEMMA AddBatchAdds ==
    ASSUME Inv, NEW items \in Seq(Doc), AddBatch(items), UNCHANGED <<mode, segs, posting, missing>>
    PROVE  /\ pending' = <<>>
           /\ ToSet(mem') = ToSet(mem) \cup ToSet(items)
           /\ Contents' = Contents \cup ToSet(items)
           /\ Wide' /\ Fresh'
           /\ cache' = cache \/ cache' = <<>>
           /\ bitmap' \subseteq bitmap \cup ToSet(items)
<1>1. /\ pending' = <<>> /\ mem' = mem \o items
      /\ cache' = IF items = <<>> THEN cache ELSE <<>>
      /\ bitmap' = IF mode.listed THEN bitmap \cup ToSet(items) ELSE bitmap
    BY DEF AddBatch
<1>2. ToSet(mem') = ToSet(mem) \cup ToSet(items)
    BY <1>1, SetOfBoth DEF Inv, TypeOK
<1>3. Contents' = Contents \cup ToSet(items)
    BY <1>2 DEF Contents
<1>4. Wide'
    BY <1>1, <1>3 DEF Inv, Wide
<1>5. Fresh'
  <2>1. CASE items = <<>>
    BY <1>1, <1>3, <2>1, SetOfNone DEF Inv, Fresh
  <2>2. CASE items # <<>>
    BY <1>1, <2>2 DEF Fresh
  <2> QED
    BY <2>1, <2>2
<1> QED
    BY <1>1, <1>2, <1>3, <1>4, <1>5

\* A written document is in the buffer or, with those before it, in the dictionary.
LEMMA PutKeepsInv ==
    ASSUME Inv, NEW d \in Doc, put(d)
    PROVE  Inv'
<1> USE DEF listVars, diskVars
<1>1. /\ Exclusive
      /\ \/ AddBatch(Append(pending, d))
         \/ pending' = Append(pending, d) /\ UNCHANGED <<mem, bitmap, cache>>
      /\ ever' = ever \cup {d} /\ known' = known \cup {d}
      /\ UNCHANGED <<mode, listVars, diskVars, search, change, saved, missing>>
    BY DEF put
<1>2. TypeOK'
    BY RestOfNextTyped DEF Inv
<1>3. /\ \A s \in Searcher : search[s].at = "idle"
      /\ change.by \in {"nobody", "worker"}
    BY <1>1 DEF Exclusive, Searching
<1>4. \A s \in Searcher : Answer(s)' = Answer(s)
    BY <1>1 DEF Answer
<1>5. /\ Append(pending, d) \in Seq(Doc)
      /\ ToSet(Append(pending, d)) = ToSet(pending) \cup {d}
  <2>1. pending \in Seq(Doc) /\ <<d>> \in Seq(Doc)
    BY DEF Inv, TypeOK
  <2>2. Append(pending, d) = pending \o <<d>>
    BY <2>1
  <2>3. /\ pending \o <<d>> \in Seq(Doc)
        /\ ToSet(pending \o <<d>>) = ToSet(pending) \cup ToSet(<<d>>)
    BY <2>1, SetOfBoth
  <2>4. ToSet(<<d>>) = {d}
    BY SetOfOne
  <2> QED
    BY <2>2, <2>3, <2>4
<1>6. Numbers'
    BY <1>1 DEF Inv, Numbers
<1>7. Stages'
  <2>1. Collecting \/ change.at = "idle"
    BY <1>3 DEF Inv, Stages, Collecting
  <2>2. NewPosting' = NewPosting \/ change.at = "idle"
    BY <1>1, <2>1 DEF NewPosting, Collecting
  <2> QED
    BY <1>1, <1>3, <2>2 DEF Inv, Stages, Collecting
<1>8. Safe'
    BY <1>1 DEF Inv, Safe
<1>9. Batches' = Batches
    BY <1>1 DEF Batches
<1>10. Reading' /\ FindsAll'
    BY <1>1, <1>3 DEF Reading, FindsAll
<1>11. CASE AddBatch(Append(pending, d))
  <2>1. /\ pending' = <<>> /\ Wide' /\ Fresh'
        /\ ToSet(mem') = ToSet(mem) \cup ToSet(pending) \cup {d}
        /\ Contents' = Contents \cup ToSet(pending) \cup {d}
        /\ cache' = cache \/ cache' = <<>>
        /\ bitmap' \subseteq bitmap \cup ToSet(pending) \cup {d}
    BY <1>1, <1>5, <1>11, AddBatchAdds
  <2>2. Buffers'
    BY <1>1, <1>3, <2>1 DEF Inv, Buffers
  <2>3. Knows'
    BY <1>1, <1>9, <2>1, SetOfNone DEF Inv, Knows
  <2>4. ToSet(pending) \subseteq ever
    BY DEF Inv, Knows, TypeOK
  <2>5. Written'
    BY <1>1, <1>4, <2>1, <2>4 DEF Inv, Written
  <2> QED
    BY <1>2, <1>6, <1>7, <1>8, <1>10, <2>1, <2>2, <2>3, <2>5 DEF Inv
<1>12. CASE pending' = Append(pending, d) /\ UNCHANGED <<mem, bitmap, cache>>
  <2>1. Contents' = Contents
    BY <1>1, <1>12 DEF Contents
  <2>2. Buffers'
    BY <1>1, <1>3, <1>12 DEF Inv, Buffers
  <2>3. Knows'
    BY <1>1, <1>5, <1>9, <1>12, <2>1 DEF Inv, Knows
  <2>4. Wide' /\ Fresh'
    BY <1>1, <1>12, <2>1 DEF Inv, Wide, Fresh
  <2>5. Written'
    BY <1>1, <1>4, <1>12 DEF Inv, Written
  <2> QED
    BY <1>2, <1>6, <1>7, <1>8, <1>10, <2>2, <2>3, <2>4, <2>5 DEF Inv
<1> QED
    BY <1>1, <1>11, <1>12

\* A flush or a collection by a caller begins with the buffered terms.
LEMMA CallKeepsInv ==
    ASSUME Inv, flush_inverted \/ inverted_gc
    PROVE  Inv'
<1> USE DEF listVars, diskVars, histVars
<1>1. /\ Exclusive /\ ~Mutating /\ AddBatch(pending)
      /\ \/ UNCHANGED change
         \/ change' = [by |-> "flush", at |-> "lock", new |-> 0, old |-> <<>>]
         \/ /\ change' = [by |-> "caller", at |-> "lock", new |-> 0, old |-> segs]
            /\ ~(Len(segs) < 2)
      /\ UNCHANGED <<mode, listVars, diskVars, search, histVars, missing>>
    BY DEF flush_inverted, inverted_gc
<1>2. TypeOK'
    BY RestOfNextTyped DEF Inv
<1>3. /\ \A s \in Searcher : search[s].at = "idle"
      /\ change.at = "idle" /\ change.by = "nobody"
    BY <1>1 DEF Exclusive, Searching, Mutating, Inv, Stages
<1>4. \A s \in Searcher : Answer(s)' = Answer(s)
    BY <1>1 DEF Answer
<1>5. /\ pending' = <<>> /\ Wide' /\ Fresh'
      /\ ToSet(mem') = ToSet(mem) \cup ToSet(pending)
      /\ Contents' = Contents \cup ToSet(pending)
      /\ cache' = cache \/ cache' = <<>>
      /\ bitmap' \subseteq bitmap \cup ToSet(pending)
  <2>1. pending \in Seq(Doc)
    BY DEF Inv, TypeOK
  <2> QED
    BY <1>1, <2>1, AddBatchAdds
<1>6. change'.at \in {"idle", "lock"}
    BY <1>1, <1>3
<1>7. Numbers'
    BY <1>1, <1>6 DEF Inv, Numbers
<1>8. Stages'
  <2>1. CASE UNCHANGED change
    BY <1>1, <1>3, <2>1 DEF Inv, Stages, Collecting
  <2>2. CASE change' = [by |-> "flush", at |-> "lock", new |-> 0, old |-> <<>>]
    BY <1>1, <1>3, <2>2 DEF Stages, Collecting
  <2>3. CASE change' = [by |-> "caller", at |-> "lock", new |-> 0, old |-> segs] /\ ~(Len(segs) < 2)
    <3>1. Len(segs) > 1
      BY <2>3 DEF Inv, TypeOK
    <3> QED
      BY <1>1, <1>3, <2>3, <3>1 DEF Stages, Collecting
  <2> QED
    BY <1>1, <2>1, <2>2, <2>3
<1>9. Safe'
    BY <1>1 DEF Inv, Safe
<1>10. Batches' = Batches
    BY <1>1 DEF Batches
<1>11. Reading' /\ FindsAll'
    BY <1>1, <1>3 DEF Reading, FindsAll
<1>12. Buffers'
    BY <1>1, <1>3, <1>5 DEF Inv, Buffers
<1>13. Knows'
    BY <1>1, <1>5, <1>10, SetOfNone DEF Inv, Knows
<1>14. ToSet(pending) \subseteq ever
    BY DEF Inv, Knows, TypeOK
<1>15. Written'
    BY <1>1, <1>4, <1>5, <1>14 DEF Inv, Written
<1> QED
    BY <1>2, <1>5, <1>7, <1>8, <1>9, <1>11, <1>12, <1>13, <1>15 DEF Inv

\* What a thread that searches leaves alone.
SearchKeeps == UNCHANGED <<mode, segs, next, diskVars, change, histVars>>

\* A step that gives a search no more segments to read and leaves the lists,
\* the disk and the change alone keeps what is said of these.
LEMMA SearchKeepsLists ==
    ASSUME Inv, NEW s \in Searcher, NEW r, Set(s, r), SearchKeeps,
           search[s].at # "idle" \/ change.by \in {"nobody", "worker"},
           ToSet(r.left) \subseteq ToSet(search[s].left) \cup ToSet(segs)
    PROVE  Numbers' /\ Stages' /\ Safe'
<1> USE DEF diskVars, histVars
<1>1. /\ search'[s] = r
      /\ \A t \in Searcher : t # s => search'[t] = search[t]
    BY SetSearch DEF Inv
<1>2. change.by \in {"nobody", "worker"}
    BY DEF Inv, Stages, TypeOK, Changes
<1>3. Numbers'
    BY <1>1 DEF SearchKeeps, Inv, Numbers
<1>4. Stages'
  <2>1. Collecting \/ change.at = "idle"
    BY <1>2 DEF Inv, Stages, Collecting
  <2>2. NewPosting' = NewPosting \/ change.at = "idle"
    BY <2>1 DEF SearchKeeps, NewPosting, Collecting
  <2> QED
    BY <1>2, <2>2 DEF SearchKeeps, Inv, Stages, Collecting
<1>5. Safe'
    BY DEF SearchKeeps, Inv, Safe
<1> QED
    BY <1>3, <1>4, <1>5

\* What all threads carry is what one of them does and what the others do.
LEMMA BatchesSplit ==
    ASSUME Inv, NEW s \in Searcher, NEW r, Set(s, r)
    PROVE  \E B : /\ Batches = ToSet(search[s].batch) \cup B
                  /\ Batches' = ToSet(r.batch) \cup B
                  /\ (\A t \in Searcher : t # s => search[t].batch = <<>>) => B = {}
<1>1. /\ search'[s] = r
      /\ \A t \in Searcher : t # s => search'[t] = search[t]
    BY SetSearch DEF Inv
<1> DEFINE B == UNION {ToSet(search[t].batch) : t \in Searcher \ {s}}
<1>2. Batches = ToSet(search[s].batch) \cup B
    BY DEF Batches
<1>3. Batches' = ToSet(r.batch) \cup B
    BY <1>1 DEF Batches
<1>4. (\A t \in Searcher : t # s => search[t].batch = <<>>) => B = {}
    BY SetOfNone
<1> QED
    BY <1>2, <1>3, <1>4

\* A thread takes the buffered terms with it, and only when it searches alone.
LEMMA BeginKeepsInv ==
    ASSUME Inv, NEW s \in Searcher, inverted_posting(s) \/ inverted_doc_count(s)
    PROVE  Inv'
<1> USE DEF indexVars, listVars, diskVars, histVars
<1>1. PICK count \in BOOLEAN : Begin(s, count)
    BY DEF inverted_posting, inverted_doc_count
<1>2. PICK r : Set(s, r) /\ r = [Resting EXCEPT !.at = IF pending = <<>> THEN "lookup" ELSE "add",
                                                !.count = count, !.batch = pending]
    BY <1>1 DEF Begin
<1>3. /\ search[s].at = "idle" /\ change.by \in {"nobody", "worker"}
      /\ pending' = <<>>
      /\ UNCHANGED <<mode, mem, bitmap, cache, listVars, diskVars, change, histVars, missing>>
    BY <1>1 DEF Begin
<1>4. TypeOK'
    BY SearchTyped DEF Inv
<1>5. /\ r.at = IF pending = <<>> THEN "lookup" ELSE "add"
      /\ r.batch = pending /\ r.left = <<>> /\ r.got = {} /\ r.mem = <<>>
    BY <1>2 DEF Resting
<1>6. /\ search'[s] = r
      /\ \A t \in Searcher : t # s => search'[t] = search[t]
    BY <1>2, SetSearch DEF Inv
<1>7. search[s].batch = <<>>
    BY <1>3 DEF Inv, Buffers
<1>8. \A t \in Searcher : search[t].at # "idle" => pending = <<>>
    BY DEF Inv, Buffers
<1>9. Numbers' /\ Stages' /\ Safe'
  <2>1. ToSet(r.left) \subseteq ToSet(search[s].left) \cup ToSet(segs)
    BY <1>5, SetOfNone
  <2> QED
    BY <1>2, <1>3, <2>1, SearchKeepsLists DEF SearchKeeps
<1>10. Contents' = Contents /\ \A t \in Searcher : t # s => Answer(t)' = Answer(t)
    BY <1>3, <1>6 DEF Contents, Answer
<1>11. Answer(s)' = {}
    BY <1>5, <1>6, SetOfNone DEF Answer
<1>12. Buffers'
    BY <1>3, <1>5, <1>6, <1>7, <1>8 DEF Inv, Buffers
<1>13. Knows'
  <2>0. Set(s, r)
    BY <1>2
  <2>1. PICK B : /\ Batches = ToSet(search[s].batch) \cup B
                 /\ Batches' = ToSet(r.batch) \cup B
    BY <2>0, BatchesSplit
  <2> QED
    BY <1>3, <1>5, <1>7, <1>10, <2>1, SetOfNone DEF Inv, Knows
<1>14. Wide' /\ Fresh'
    BY <1>3, <1>10 DEF Inv, Wide, Fresh
<1>15. FindsAll' /\ Written'
    BY <1>3, <1>5, <1>6, <1>10, <1>11 DEF Inv, FindsAll, Written
<1>16. Reading'
  <2> SUFFICES ASSUME NEW t \in Searcher, t # s, search[t].at = "read"
               PROVE  ReadsNoMore(t)' /\ ReadsAll(t)'
    BY <1>3, <1>5, <1>6 DEF Inv, Reading
  <2>1. pending = <<>>
    BY <1>8
  <2>2. \A u \in Searcher : search'[u].batch = search[u].batch
    BY <1>5, <1>6, <1>7, <2>1
  <2>3. Batches' = Batches
    BY <2>2 DEF Batches
  <2>4. ReadsNoMore(t) /\ ReadsAll(t)
    BY DEF Inv, Reading
  <2> QED
    BY <1>3, <1>6, <1>10, <2>3, <2>4 DEF ReadsNoMore, ReadsAll, There
<1> QED
    BY <1>4, <1>9, <1>12, <1>13, <1>14, <1>15, <1>16 DEF Inv

\* A batch on its way arrives: a search that reads and a posting cached since
\* the batch cleared the cache are known to lack it.
LEMMA AddKeepsInv ==
    ASSUME Inv, NEW s \in Searcher, add_batch(s)
    PROVE  Inv'
<1> USE DEF indexVars, listVars, diskVars, histVars
<1>1. TypeOK'
    BY SearchTyped DEF Inv
<1>2. search[s] \in Searches
    BY DEF Inv, TypeOK
<1>3. CASE search[s].at = "add"
  <2>1. PICK r : Set(s, r) /\ r = [search[s] EXCEPT !.at = "extend"]
    BY <1>3 DEF add_batch
  <2>2. /\ cache' = <<>>
        /\ UNCHANGED <<mode, pending, mem, bitmap, listVars, diskVars, change, histVars, missing>>
    BY <1>3 DEF add_batch
  <2>3. /\ r.at = "extend" /\ r.batch = search[s].batch /\ r.left = search[s].left
        /\ r.got = search[s].got /\ r.mem = search[s].mem
    BY <1>2, <2>1 DEF Searches
  <2>4. /\ search'[s] = r
        /\ \A t \in Searcher : t # s => search'[t] = search[t]
    BY <2>1, SetSearch DEF Inv
  <2>5. Numbers' /\ Stages' /\ Safe'
    BY <1>3, <2>1, <2>2, <2>3, SearchKeepsLists DEF SearchKeeps
  <2>6. Contents' = Contents /\ \A t \in Searcher : Answer(t)' = Answer(t)
    BY <2>2, <2>3, <2>4 DEF Contents, Answer
  <2>7. Batches' = Batches
    BY <2>3, <2>4 DEF Batches
  <2>8. Buffers'
    BY <1>3, <2>2, <2>3, <2>4 DEF Inv, Buffers
  <2>9. Knows' /\ Wide' /\ Fresh'
    BY <2>2, <2>6, <2>7 DEF Inv, Knows, Wide, Fresh
  <2>10. FindsAll' /\ Written'
    BY <2>2, <2>3, <2>4, <2>6 DEF Inv, FindsAll, Written
  <2>11. Reading'
    <3> SUFFICES ASSUME NEW t \in Searcher, t # s, search[t].at = "read"
                 PROVE  ReadsNoMore(t)' /\ ReadsAll(t)'
      BY <2>2, <2>3, <2>4 DEF Inv, Reading
    <3>1. ReadsNoMore(t) /\ ReadsAll(t)
      BY DEF Inv, Reading
    <3> QED
      BY <2>2, <2>4, <2>6, <2>7, <3>1 DEF ReadsNoMore, ReadsAll, There
  <2> QED
    BY <1>1, <2>5, <2>8, <2>9, <2>10, <2>11 DEF Inv
<1>4. CASE search[s].at = "extend"
  <2>1. PICK r : Set(s, r) /\ r = [search[s] EXCEPT !.at = "lookup", !.batch = <<>>]
    BY <1>4 DEF add_batch
  <2>2. /\ bitmap' = IF mode.listed THEN bitmap \cup ToSet(search[s].batch) ELSE bitmap
        /\ mem' = mem \o search[s].batch
        /\ UNCHANGED <<mode, pending, cache, listVars, diskVars, change, histVars, missing>>
    BY <1>4 DEF add_batch
  <2>3. /\ r.at = "lookup" /\ r.batch = <<>> /\ r.left = search[s].left
        /\ r.got = search[s].got /\ r.mem = search[s].mem
    BY <1>2, <2>1 DEF Searches
  <2>4. /\ search'[s] = r
        /\ \A t \in Searcher : t # s => search'[t] = search[t]
    BY <2>1, SetSearch DEF Inv
  <2>5. Numbers' /\ Stages' /\ Safe'
    BY <1>4, <2>1, <2>2, <2>3, SearchKeepsLists DEF SearchKeeps
  <2>6. ToSet(mem') = ToSet(mem) \cup ToSet(search[s].batch)
    BY <1>2, <2>2, SetOfBoth DEF Inv, TypeOK, Searches
  <2>7. /\ Contents' = Contents \cup ToSet(search[s].batch)
        /\ \A t \in Searcher : Answer(t)' = Answer(t)
    BY <2>2, <2>3, <2>4, <2>6 DEF Contents, Answer
  <2>8. Buffers'
    BY <1>4, <2>2, <2>3, <2>4 DEF Inv, Buffers
  <2>9. PICK B : /\ Batches = ToSet(search[s].batch) \cup B
                 /\ Batches' = ToSet(r.batch) \cup B
    BY <2>1, BatchesSplit
  <2>10. Knows'
    BY <2>2, <2>3, <2>6, <2>7, <2>9, SetOfNone DEF Inv, Knows
  <2>11. Wide'
    BY <2>2, <2>7 DEF Inv, Wide
  <2>12. search[s].batch # <<>>
    BY <1>4 DEF Inv, Buffers
  <2>13. Fresh'
    BY <1>4, <2>2, <2>7 DEF Inv, Buffers, Fresh
  <2>14. FindsAll'
    BY <1>4, <2>2, <2>3, <2>4, <2>7, <2>12 DEF Inv, FindsAll
  <2>17. Reading'
    <3> SUFFICES ASSUME NEW t \in Searcher, t # s, search[t].at = "read"
                 PROVE  ReadsNoMore(t)' /\ ReadsAll(t)'
      BY <2>2, <2>3, <2>4 DEF Inv, Reading
    <3>1. ReadsNoMore(t) /\ ReadsAll(t)
      BY DEF Inv, Reading
    <3>2. Contents' \cup Batches' = Contents \cup Batches
      BY <2>3, <2>7, <2>9, SetOfNone
    <3> QED
      BY <2>2, <2>4, <2>7, <3>1, <3>2 DEF ReadsNoMore, ReadsAll, There
  <2>15. ToSet(search[s].batch) \subseteq ever
    BY <2>9 DEF Inv, Knows, TypeOK
  <2>16. Written'
    BY <2>2, <2>7, <2>15 DEF Inv, Written
  <2> QED
    BY <1>1, <2>5, <2>8, <2>10, <2>11, <2>13, <2>14, <2>16, <2>17 DEF Inv
<1> QED
    BY <1>3, <1>4 DEF add_batch

\* What the index must know it has, or other searches carry it to it.
LEMMA InFlightKnown ==
    ASSUME Inv, NEW s \in Searcher, search[s].at \notin {"idle", "add", "extend"}
    PROVE  Batches = InFlight(s) /\ known \subseteq Contents \cup Batches
<1>1. pending = <<>> /\ search[s].batch = <<>>
    BY DEF Inv, Buffers
<1>2. Batches = InFlight(s)
    BY <1>1, SetOfNone DEF Batches, InFlight
<1> QED
    BY <1>1, <1>2, SetOfNone DEF Inv, Knows

\* A thread that reads, has found or returns keeps the invariant when what it
\* has was written, what it has found is enough, what it has left to read is
\* there, and what it caches is what the index has, but for what it missed.
LEMMA SearchKeepsInv ==
    ASSUME Inv, TypeOK', NEW s \in Searcher, NEW r, Set(s, r), SearchKeeps,
           UNCHANGED <<pending, mem, bitmap>>, mapped \subseteq mapped',
           search[s].at \in {"lookup", "read", "done"}, r.at \in {"read", "done", "idle"},
           r.batch = search[s].batch,
           ToSet(r.left) \subseteq ToSet(search[s].left) \cup ToSet(segs),
           r.at = "idle" => r.got = {},
           r.got \cup ToSet(r.mem) \subseteq ever,
           r.at = "done" => known \subseteq r.got \cup ToSet(r.mem) \cup r.missed,
           r.at = "read" =>
                /\ Len(segs) > 1 => ToSet(r.left) \subseteq ToSet(segs)
                /\ r.got \cup ToSet(r.mem) \cup Held(posting, ToSet(r.left)) \subseteq Contents
                /\ Contents \cup Batches
                     \subseteq r.got \cup ToSet(r.mem)
                               \cup Held(posting, ToSet(r.left) \cap (mapped' \cup files))
                               \cup r.missed,
           \/ UNCHANGED <<cache, missing>>
           \/ /\ cache'[1] \subseteq ever /\ cache'[1] \subseteq Contents
              /\ Contents \cup Batches \subseteq cache'[1] \cup missing'
    PROVE  Inv'
<1> USE DEF diskVars, histVars
<1>1. /\ search'[s] = r
      /\ \A t \in Searcher : t # s => search'[t] = search[t]
    BY SetSearch DEF Inv
<1>2. search[s].batch = <<>>
    BY DEF Inv, Buffers
<1>3. Numbers' /\ Stages' /\ Safe'
    BY SearchKeepsLists
<1>4. /\ Contents' = Contents
      /\ \A t \in Searcher : t # s => Answer(t)' = Answer(t)
      /\ Answer(s)' = r.got \cup ToSet(r.mem)
    BY <1>1 DEF Contents, Answer, SearchKeeps
<1>5. Batches' = Batches /\ \A t \in Searcher : ToSet(search[t].batch) \subseteq Batches
    BY <1>1 DEF Batches
<1>6. Buffers'
  <2>1. \A t \in Searcher : search'[t].at # "idle" => pending' = <<>>
    BY <1>1 DEF Inv, Buffers
  <2>2. \A t \in Searcher : search'[t].at \in {"add", "extend"} <=> search'[t].batch # <<>>
    BY <1>1, <1>2 DEF Inv, Buffers
  <2>3. \A t \in Searcher : search'[t].at = "extend" /\ cache' # <<>> =>
            ToSet(search'[t].batch) \subseteq cache'[1] \cup missing'
    BY <1>1, <1>5 DEF Inv, Buffers
  <2>5. \A t \in Searcher : search'[t].at \notin {"read", "done"} => search'[t].got = {}
    BY <1>1 DEF Inv, Buffers
  <2> QED
    BY <2>1, <2>2, <2>3, <2>5 DEF Buffers
<1>7. Knows' /\ Wide'
    BY <1>4, <1>5 DEF Inv, Knows, Wide, SearchKeeps
<1>8. Fresh'
    BY <1>4 DEF Inv, Fresh
<1>9. Reading'
  <2> SUFFICES ASSUME NEW t \in Searcher, search'[t].at = "read"
               PROVE  /\ Len(segs) > 1 => ToSet(search'[t].left) \subseteq ToSet(segs)
                      /\ ReadsNoMore(t)' /\ ReadsAll(t)'
    BY DEF Reading, SearchKeeps
  <2>1. CASE t = s
    BY <1>1, <1>4, <1>5, <2>1 DEF ReadsNoMore, ReadsAll, There, SearchKeeps
  <2>2. CASE t # s
    <3>1. /\ Len(segs) > 1 => ToSet(search[t].left) \subseteq ToSet(segs)
          /\ ReadsNoMore(t) /\ ReadsAll(t)
      BY <1>1, <2>2 DEF Inv, Reading
    <3>2. There(t) \subseteq There(t)'
      BY <1>1, <2>2 DEF There, SearchKeeps
    <3>3. Held(posting, There(t)) \subseteq Held(posting, There(t)')
      BY <3>2 DEF Held
    <3> QED
      BY <1>1, <1>4, <1>5, <2>2, <3>1, <3>3 DEF ReadsNoMore, ReadsAll, SearchKeeps
  <2> QED
    BY <2>1, <2>2
<1>10. FindsAll'
    BY <1>1, <1>4 DEF Inv, FindsAll, SearchKeeps
<1>11. Written'
    BY <1>4 DEF Inv, Written, SearchKeeps
<1> QED
    BY <1>3, <1>6, <1>7, <1>8, <1>9, <1>10, <1>11 DEF Inv

\* What a lookup finds at once is all that the index has, but for what is noted
\* as missed; what it goes on to read is what the index has now.
LEMMA LookupKeepsInv ==
    ASSUME Inv, NEW s \in Searcher, Lookup(s)
    PROVE  Inv'
<1> USE DEF indexVars, listVars, diskVars, histVars
<1>1. TypeOK'
    BY SearchTyped DEF Inv
<1>2. search[s] \in Searches /\ search[s].at = "lookup"
    BY DEF Inv, TypeOK, Lookup
<1>3. UNCHANGED <<mode, indexVars, listVars, diskVars, change, histVars, missing>>
    BY DEF Lookup
<1>4. search[s].got = {}
    BY <1>2 DEF Inv, Buffers
<1>5. Batches = InFlight(s) /\ known \subseteq Contents \cup Batches
    BY <1>2, InFlightKnown
<1>6. Contents \subseteq ever /\ ToSet(search[s].mem) \subseteq ever
  <2>1. Held(posting, ToSet(segs)) \subseteq ever
    BY SetOfSeq, HeldWithin DEF Inv, TypeOK, Written
  <2>2. ToSet(mem) \subseteq ever
    BY DEF Inv, Knows, TypeOK
  <2> QED
    BY <2>1, <2>2 DEF Contents, Inv, Written, Answer
<1>7. ASSUME NEW docs, NEW missed, docs \subseteq ever,
             Contents \cup InFlight(s) \subseteq docs \cup missed,
             Set(s, [search[s] EXCEPT !.at = "done", !.got = docs, !.missed = missed])
      PROVE  Inv'
  <2>1. PICK r : Set(s, r) /\ r = [search[s] EXCEPT !.at = "done", !.got = docs,
                                                    !.missed = missed]
    BY <1>7
  <2>2. /\ r.at = "done" /\ r.batch = search[s].batch /\ r.left = search[s].left
        /\ r.got = docs /\ r.mem = search[s].mem /\ r.missed = missed
    BY <1>2, <2>1 DEF Searches
  <2>3. Set(s, r)
    BY <2>1
  <2>4. r.got \cup ToSet(r.mem) \subseteq ever
    BY <1>6, <1>7, <2>2
  <2>5. known \subseteq r.got \cup ToSet(r.mem) \cup r.missed
    BY <1>5, <1>7, <2>2
  <2> QED
    BY <1>1, <1>2, <1>3, <2>2, <2>3, <2>4, <2>5, SearchKeepsInv DEF SearchKeeps
<1>8. CASE mode.listed /\ bitmap # {}
  <2>1. Set(s, [search[s] EXCEPT !.at = "done", !.got = bitmap, !.missed = InFlight(s)])
    BY <1>8 DEF Lookup
  <2>2. bitmap \subseteq ever /\ Contents \subseteq bitmap
    BY <1>8 DEF Inv, Written, Wide
  <2> QED
    BY <1>7, <2>1, <2>2
<1>9. CASE ~(mode.listed /\ bitmap # {}) /\ cache # <<>> /\ ~search[s].count
  <2>1. Set(s, [search[s] EXCEPT !.at = "done", !.got = cache[1],
                                 !.missed = missing \cup InFlight(s)])
    BY <1>9 DEF Lookup
  <2>2. cache[1] \subseteq ever /\ Contents \subseteq cache[1] \cup missing
    BY <1>9 DEF Inv, Written, Fresh
  <2>3. Contents \cup InFlight(s) \subseteq cache[1] \cup (missing \cup InFlight(s))
    BY <2>2
  <2> QED
    BY <1>7, <2>1, <2>2, <2>3
<1>10. CASE ~(mode.listed /\ bitmap # {}) /\ ~(cache # <<>> /\ ~search[s].count)
  <2>1. PICK r : Set(s, r) /\ r = [search[s] EXCEPT !.at = "read", !.mem = mem, !.left = segs,
                                                    !.missed = InFlight(s)]
    BY <1>10 DEF Lookup
  <2>2. /\ r.at = "read" /\ r.batch = search[s].batch /\ r.left = segs
        /\ r.got = {} /\ r.mem = mem /\ r.missed = InFlight(s)
    BY <1>2, <1>4, <2>1 DEF Searches
  <2>3. Set(s, r)
    BY <2>1
  <2>4. r.got \cup ToSet(r.mem) \subseteq ever
    BY <1>6, <2>2 DEF Contents
  <2>5. ToSet(r.left) \cap (mapped' \cup files) = ToSet(segs)
    BY <2>2 DEF Inv, Safe
  <2>6. /\ r.got \cup ToSet(r.mem) \cup Held(posting, ToSet(r.left)) \subseteq Contents
        /\ Contents \cup Batches
             \subseteq r.got \cup ToSet(r.mem)
                       \cup Held(posting, ToSet(r.left) \cap (mapped' \cup files)) \cup r.missed
    BY <1>5, <2>2, <2>5 DEF Contents
  <2> QED
    BY <1>1, <1>2, <1>3, <2>2, <2>3, <2>4, <2>6, SearchKeepsInv DEF SearchKeeps
<1> QED
    BY <1>8, <1>9, <1>10

\* A segment that is read goes from what is left to what the search has.
LEMMA ReadKeepsInv ==
    ASSUME Inv, NEW s \in Searcher, ReadSegment(s)
    PROVE  Inv'
<1> USE DEF indexVars, diskVars, histVars
<1>1. TypeOK'
    BY SearchTyped DEF Inv
<1>2. search[s] \in Searches /\ search[s].at = "read" /\ search[s].left # <<>>
    BY DEF Inv, TypeOK, ReadSegment
<1>3. PICK i, there, r :
        /\ i = Head(search[s].left) /\ there = {i} \cap (mapped \cup files)
        /\ Set(s, r)
        /\ r = [search[s] EXCEPT !.left = Tail(@),
                                 !.got = @ \cup UNION {posting[j] : j \in there}]
        /\ mapped' = mapped \cup there
    BY DEF ReadSegment
<1>4. UNCHANGED <<mode, indexVars, segs, next, diskVars, change, histVars, missing>>
    BY DEF ReadSegment
<1>5. /\ r.at = "read" /\ r.batch = search[s].batch /\ r.left = Tail(search[s].left)
      /\ r.got = search[s].got \cup Held(posting, there)
      /\ r.mem = search[s].mem /\ r.missed = search[s].missed
    BY <1>2, <1>3 DEF Searches, Held
<1>6. Set(s, r)
    BY <1>3
<1>7. ToSet(search[s].left) = {i} \cup ToSet(r.left) /\ i \in Id
    BY <1>2, <1>3, <1>5, SetOfParts DEF Searches
<1>8. Held(posting, there) \subseteq ever
    BY <1>3, <1>7, HeldWithin DEF Inv, Written
<1>9. r.got \cup ToSet(r.mem) \subseteq ever
    BY <1>5, <1>8 DEF Inv, Written, Answer
<1>10. /\ r.got \cup ToSet(r.mem) \cup Held(posting, ToSet(r.left)) \subseteq Contents
       /\ Contents \cup Batches
            \subseteq r.got \cup ToSet(r.mem)
                      \cup Held(posting, ToSet(r.left) \cap (mapped' \cup files)) \cup r.missed
  <2>1. ReadsNoMore(s) /\ ReadsAll(s)
    BY <1>2 DEF Inv, Reading
  <2>2. /\ there \subseteq ToSet(search[s].left)
        /\ ToSet(r.left) \subseteq ToSet(search[s].left)
        /\ There(s) \subseteq there \cup (ToSet(r.left) \cap (mapped' \cup files))
    BY <1>3, <1>7 DEF There
  <2>3. /\ Held(posting, there) \cup Held(posting, ToSet(r.left))
             \subseteq Held(posting, ToSet(search[s].left))
        /\ Held(posting, There(s))
             \subseteq Held(posting, there)
                       \cup Held(posting, ToSet(r.left) \cap (mapped' \cup files))
    BY <2>2 DEF Held
  <2> QED
    BY <1>5, <2>1, <2>3 DEF ReadsNoMore, ReadsAll, Answer
<1>11. Len(segs) > 1 => ToSet(r.left) \subseteq ToSet(segs)
    BY <1>2, <1>7 DEF Inv, Reading
<1>12. mapped \subseteq mapped'
    BY <1>3
<1> QED
    BY <1>1, <1>2, <1>4, <1>5, <1>6, <1>7, <1>9, <1>10, <1>11, <1>12, SearchKeepsInv DEF SearchKeeps

\* What a search has read to its end is what the index has, but for what it
\* missed, and so is what it caches.
LEMMA FinishKeepsInv ==
    ASSUME Inv, NEW s \in Searcher, Finish(s)
    PROVE  Inv'
<1> USE DEF indexVars, listVars, diskVars, histVars
<1>1. TypeOK'
    BY SearchTyped DEF Inv
<1>2. search[s] \in Searches /\ search[s].at = "read" /\ search[s].left = <<>>
    BY DEF Inv, TypeOK, Finish
<1>3. PICK r : Set(s, r) /\ r = [search[s] EXCEPT !.at = "done"]
    BY DEF Finish
<1>4. /\ \/ UNCHANGED <<cache, missing>>
         \/ cache' = <<Answer(s)>> /\ missing' = search[s].missed
      /\ UNCHANGED <<mode, pending, mem, bitmap, listVars, diskVars, change, histVars>>
    BY DEF Finish
<1>5. /\ r.at = "done" /\ r.batch = search[s].batch /\ r.left = search[s].left
      /\ r.got = search[s].got /\ r.mem = search[s].mem /\ r.missed = search[s].missed
    BY <1>2, <1>3 DEF Searches
<1>6. Set(s, r)
    BY <1>3
<1>7. r.got \cup ToSet(r.mem) = Answer(s) /\ Answer(s) \subseteq ever
    BY <1>5 DEF Answer, Inv, Written
<1>8. /\ Answer(s) \subseteq Contents
      /\ Contents \cup Batches \subseteq Answer(s) \cup search[s].missed
      /\ known \subseteq Contents \cup Batches
  <2>1. ReadsNoMore(s) /\ ReadsAll(s)
    BY <1>2 DEF Inv, Reading
  <2>2. There(s) = {}
    BY <1>2, SetOfNone DEF There
  <2>3. Held(posting, There(s)) = {}
    BY <2>2, HeldParts
  <2> QED
    BY <1>2, <2>1, <2>3, InFlightKnown DEF ReadsNoMore, ReadsAll
<1>9. \/ UNCHANGED <<cache, missing>>
      \/ /\ cache'[1] \subseteq ever /\ cache'[1] \subseteq Contents
         /\ Contents \cup Batches \subseteq cache'[1] \cup missing'
  <2>1. CASE cache' = <<Answer(s)>> /\ missing' = search[s].missed
    <3>1. cache'[1] = Answer(s)
      BY <2>1
    <3> QED
      BY <1>7, <1>8, <2>1, <3>1
  <2> QED
    BY <1>4, <2>1
<1> QED
    BY <1>1, <1>2, <1>4, <1>5, <1>6, <1>7, <1>8, <1>9, SearchKeepsInv DEF SearchKeeps

\* A search that returns leaves the index alone.
LEMMA ReturnKeepsInv ==
    ASSUME Inv, NEW s \in Searcher, Return(s)
    PROVE  Inv'
<1> USE DEF indexVars, listVars, diskVars, histVars
<1>1. TypeOK'
    BY SearchTyped DEF Inv
<1>2. search[s].at = "done" /\ Set(s, Resting)
      /\ UNCHANGED <<mode, indexVars, listVars, diskVars, change, histVars, missing>>
    BY DEF Return
<1>3. search[s].batch = <<>>
    BY <1>2 DEF Inv, Buffers
<1>4. /\ Resting.at = "idle" /\ Resting.batch = <<>> /\ Resting.got = {}
      /\ ToSet(Resting.mem) = {} /\ ToSet(Resting.left) = {}
    BY SetOfNone DEF Resting
<1> QED
    BY <1>1, <1>2, <1>3, <1>4, SearchKeepsInv DEF SearchKeeps

\* Every step keeps the invariant.
LEMMA StepKeepsInv == Inv /\ [Next]_vars => Inv'
<1> SUFFICES ASSUME Inv, [Next]_vars PROVE Inv'
    OBVIOUS
<1>1. ASSUME NEW d \in Doc, put(d) PROVE Inv'
    BY <1>1, PutKeepsInv
<1>2. CASE flush_inverted \/ inverted_gc
    BY <1>2, CallKeepsInv
<1>3. CASE WorkerCollects \/ ChangeFails
    BY <1>3, BeginsOrFailsKeepsInv
<1>4. CASE TakeNumber
    BY <1>4, TakeNumberKeepsInv
<1>5. CASE WriteSegment
    BY <1>5, WriteKeepsInv
<1>6. CASE Publish
    BY <1>6, PublishKeepsInv
<1>7. CASE persist_manifest
    BY <1>7, PersistKeepsInv
<1>8. CASE ClearMemory
    BY <1>8, ClearKeepsInv
<1>9. CASE DeleteOld
    BY <1>9, DeleteKeepsInv
<1>10. ASSUME NEW s \in Searcher, inverted_posting(s) \/ inverted_doc_count(s) PROVE Inv'
    BY <1>10, BeginKeepsInv
<1>11. ASSUME NEW s \in Searcher, add_batch(s) PROVE Inv'
    BY <1>11, AddKeepsInv
<1>12. ASSUME NEW s \in Searcher, Lookup(s) PROVE Inv'
    BY <1>12, LookupKeepsInv
<1>13. ASSUME NEW s \in Searcher, ReadSegment(s) PROVE Inv'
    BY <1>13, ReadKeepsInv
<1>14. ASSUME NEW s \in Searcher, Finish(s) PROVE Inv'
    BY <1>14, FinishKeepsInv
<1>15. ASSUME NEW s \in Searcher, Return(s) PROVE Inv'
    BY <1>15, ReturnKeepsInv
<1>16. CASE Restart
    BY <1>16, RestartKeepsInv
<1>17. CASE UNCHANGED vars
  <2>1. /\ UNCHANGED <<mode, indexVars, listVars, diskVars, search, histVars, missing>>
        /\ UNCHANGED <<change, faults>>
    BY <1>17 DEF vars
  <2>2. TypeOK' /\ Numbers' /\ Stages'
    BY <2>1 DEF Inv, TypeOK, Numbers, Stages, Collecting, NewPosting,
                indexVars, listVars, diskVars, histVars
  <2> QED
    BY <2>1, <2>2, SameIndex DEF Inv
<1> QED
    BY <1>1, <1>2, <1>3, <1>4, <1>5, <1>6, <1>7, <1>8, <1>9, <1>10, <1>11, <1>12,
       <1>13, <1>14, <1>15, <1>16, <1>17 DEF Next

---------------------------------------------------------------------------
(* The theorems *)

\* The invariant holds in every state.
LEMMA InvAlways == Spec => []Inv
    BY InitInv, StepKeepsInv, PTL DEF Spec

\* What an acknowledged flush wrote stays in segments that the manifest on disk
\* names and that exist (flush_segment, gc; run INIndex).
THEOREM FlushesAreKept == Spec => []Kept
<1>1. Inv => Kept
    BY DEF Inv, Safe, Kept, Held
<1> QED
    BY <1>1, InvAlways, PTL

\* A search finds all that the index must know but for what was on its way into
\* the dictionary, or in a segment file already deleted, when it looked, or when
\* the search looked whose cached posting it takes; and none finds what was never
\* written (search, doc_count; run INIndex).
THEOREM SearchesFindAll == Spec => []FindsAll
<1>1. Inv => FindsAll
    BY DEF Inv
<1> QED
    BY <1>1, InvAlways, PTL

\* In every state a cached posting is what the index has but for what the search
\* missed that made it: no write, flush or collection leaves another one behind
\* (posting_cache; run INIndex).
THEOREM CacheIsFresh == Spec => []CacheFresh
<1>1. Inv => CacheFresh
    BY DEF Inv, Fresh, Contents, Current, CacheFresh, Held
<1> QED
    BY <1>1, InvAlways, PTL
=============================================================================
