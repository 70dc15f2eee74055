-------------------------- MODULE ChangeFeed_proofs --------------------------
(***************************************************************************)
(* Theorems about ChangeFeed, for any number of paths, threads, mutations, *)
(* prunes and lost connections, and any page size.                         *)
(***************************************************************************)
EXTENDS ChangeFeed, FiniteSetTheorems, WellFoundedInduction, TLAPS

-----------------------------------------------------------------------------
(* The inductive invariant.                                                *)

(* What the mirror holds of a row it has been fed.                         *)
Image(r) == IF r.kind = "live" THEN [rev |-> r.rev, val |-> r.val] ELSE Missing

(* Rows are numbered by the commits there have been.                       *)
RowsNumbered ==
    /\ \A p \in Path : row[p].kind # "none" => row[p].rev <= lastRev
    /\ prunedBefore <= lastRev + 1
    /\ cursor.rev <= lastRev /\ (cursor.rev = 0 => cursor = Start)

(* A subscription on the current connection hears of the last commit.      *)
SubHears ==
    /\ subGen <= conn.gen
    /\ worker.pc \in {"subscribe", "subscribed"} => subGen < conn.gen /\ worker.gen <= conn.gen
    /\ worker.pc = "subscribed" => conn.up /\ sub.on
    /\ conn.up /\ subGen = conn.gen =>
           sub.on /\ (lastRev <= target \/ lastRev \in ringing \/ (sub.signal /\ lastRev <= sub.rev))

(* An acknowledged mutation is what the server holds, or a later one is,   *)
(* or that has been pruned.                                                *)
Acked(t) == thread[t].pc \in {"acked", "resolve"}
Effect(o) == IF o.op = "put" THEN Live(o.rev, o.rev) ELSE Tombstone(o.rev)
Stands(o, p) ==
    \/ row[p].kind # "none" /\ row[p].rev > o.rev
    \/ row[p].kind = "none" /\ prunedBefore > o.rev
    \/ row[p].kind # "none" /\ row[p].rev = o.rev /\ (o.op # "rename" => row[p] = Effect(o))
Touches(o) == {o.path, o.to}
AckedStand ==
    \A t \in Thread : Acked(t) =>
        /\ thread[t].rev <= lastRev
        /\ thread[t].op # "rename" => thread[t].to = thread[t].path
        /\ \A p \in Touches(thread[t]) : Stands(thread[t], p)

(* A page in flight.  What the next fetch will still see of the server,    *)
(* and what a prune that took it from there leaves.                        *)
Ahead(p) == IF worker.full THEN Follows(p, worker.next) ELSE row[p].rev > worker.next.rev
Beyond == prunedBefore > (IF worker.full THEN worker.next.rev ELSE worker.next.rev + 1)
Paged == DOMAIN worker.rows

QuerySound ==
    worker.pc = "query" =>
        /\ worker.from.rev <= worker.last /\ worker.last <= lastRev
        /\ worker.from.rev = 0 => worker.from = Start
        /\ worker.horizon <= prunedBefore
        /\ prunedBefore = worker.horizon => ~Predates(worker.from.rev)

PageSound ==
    worker.pc = "page" =>
        /\ worker.from.rev <= worker.next.rev /\ worker.next.rev <= lastRev
        /\ worker.from.rev = 0 => worker.from = Start
        /\ worker.next.rev = 0 => worker.next = Start
        /\ \A p \in Paged : worker.from.rev <= worker.rows[p].rev /\ worker.rows[p].rev <= worker.next.rev
        /\ \A p \in Path : row[p].kind # "none" /\ Follows(p, worker.from) =>
               Ahead(p) \/ (p \in Paged /\ worker.rows[p] = row[p])
        /\ \A p \in Paged :
               \/ worker.rows[p] = row[p]
               \/ row[p].kind # "none" /\ Ahead(p)
               \/ row[p].kind = "none" /\ (worker.rows[p].kind = "tombstone" \/ Beyond)

(* An acknowledged mutation the page covers and does not list has not been *)
(* pruned, unless the fetch after the page will notice.                    *)
PageKeepsAcked ==
    worker.pc = "page" =>
        \A t \in Thread : Acked(t) => \A p \in Touches(thread[t]) \ Paged :
            /\ row[p].kind = "none"
            /\ 0 < worker.from.rev /\ worker.from.rev < thread[t].rev /\ thread[t].rev <= worker.next.rev
            => Beyond \/ blind = Path

(* A path the server has forgotten and the page does not list.             *)
PageForgets ==
    worker.pc = "page" /\ cursor = worker.from /\ 0 < cursor.rev =>
        \A p \in Path \ (blind \union Paged) : row[p].kind = "none" => mirror[p] = Missing \/ Beyond

(* The mirror up to the cursor.                                            *)
MirrorBehind == blind = Path \/ \A p \in Path : mirror[p].rev <= cursor.rev
Caught(p) ==
    IF row[p].kind # "none" THEN Follows(p, cursor) \/ mirror[p] = Image(row[p])
    ELSE Predates(cursor.rev) \/ cursor = Start \/ mirror[p] = Missing
MirrorCaught == \A p \in Path \ blind : Caught(p)

(* After a page that was not full the mirror has everything up to the      *)
(* cursor's revision.                                                      *)
Complete(p) ==
    IF row[p].kind # "none" THEN row[p].rev <= cursor.rev => mirror[p] = Image(row[p])
    ELSE prunedBefore <= cursor.rev + 1 => mirror[p] = Missing
Passed ==
    \/ worker.pc = "applied" /\ ~worker.full
    \/ worker.pc = "verdict"
    \/ worker.pc = "idle" /\ conn.up /\ subGen = conn.gen
MirrorComplete == Passed => \A p \in Path \ blind : Complete(p)

(* The verdict is about the cursor, unless a wake is there to revise it.   *)
FreshSound ==
    /\ worker.pc = "applied" => wake \/ cursor.rev = worker.rev
    /\ worker.pc = "verdict" /\ worker.fresh => wake \/ cursor.rev >= target
    /\ worker.pc = "idle" /\ conn.up /\ subGen = conn.gen /\ fresh => wake \/ cursor.rev >= target

FeedInv ==
    /\ RowsNumbered /\ SubHears /\ AckedStand
    /\ QuerySound /\ PageSound /\ PageKeepsAcked /\ PageForgets
    /\ MirrorBehind /\ MirrorCaught /\ MirrorComplete /\ FreshSound

-----------------------------------------------------------------------------
(* Order and pages.                                                        *)

LEMMA Constants ==
    /\ NPath \in Nat /\ NPath > 0 /\ Limit \in Nat /\ Limit > 0
    /\ MaxRev \in Nat /\ MaxOwn \in Nat /\ MaxPrune \in Nat /\ MaxDrop \in Nat
BY FeedAssumption

\* A set of numbers has a least one ...
LEMMA Least ==
    ASSUME NEW T \in SUBSET Nat, T # {}
    PROVE  \E x \in T : \A y \in T : x <= y
<1>1. PICK x \in T : \A y \in T : ~(<<y, x>> \in OpToRel(<, Nat))
  BY NatLessThanWellFounded, WFMin, Zenon
<1>2. \A y \in T : ~(y < x)
  BY <1>1 DEF OpToRel
<1> QED
  BY <1>2

\* ... and, below a bound, a greatest one.
LEMMA Greatest ==
    ASSUME NEW n \in Nat, NEW T \in SUBSET (0 .. n), T # {}
    PROVE  \E x \in T : \A y \in T : y <= x
<1> DEFINE U == {n - y : y \in T}
<1>1. U \in SUBSET Nat /\ U # {}
  OBVIOUS
<1>2. PICK u \in U : \A v \in U : u <= v
  BY <1>1, Least
<1>3. PICK x \in T : u = n - x
  OBVIOUS
<1>4. ASSUME NEW y \in T PROVE y <= x
  <2>1. n - y \in U
    OBVIOUS
  <2>2. n - x <= n - y
    BY <1>2, <1>3, <2>1
  <2>3. x \in 0 .. n /\ y \in 0 .. n
    OBVIOUS
  <2> QED
    BY <2>2, <2>3
<1> QED
  BY <1>4

RowTypes == row \in [Path -> FeedRows \union {Nothing}]

LEMMA RowFields ==
    ASSUME RowTypes, NEW p \in Path
    PROVE  /\ p \in Nat /\ 0 < p /\ p <= NPath
           /\ row[p].kind \in {"live", "tombstone", "none"}
           /\ row[p].rev \in Rev /\ row[p].rev \in Nat
           /\ row[p].val \in Rev \union {Absent}
           /\ row[p].kind = "none" => row[p] = Nothing
           /\ row[p].kind # "none" => row[p].rev > 0 /\ row[p] \in FeedRows
           /\ row[p].kind # "live" => row[p].val = Absent
<1>1. row[p] \in FeedRows \union {Nothing}
  BY DEF RowTypes
<1>2. p \in Nat /\ 0 < p /\ p <= NPath
  BY Constants DEF Path
<1>3. CASE row[p] = Nothing
  BY <1>2, <1>3, Constants DEF Nothing, Rev
<1>4. CASE row[p] \in FeedRows
  BY <1>2, <1>4, Constants DEF FeedRows, Rev, Version
<1> QED
  BY <1>1, <1>3, <1>4

LEMMA PrecedesTotal ==
    ASSUME RowTypes, NEW p \in Path, NEW q \in Path
    PROVE  /\ p = q \/ Precedes(p, q) \/ Precedes(q, p)
           /\ ~(Precedes(p, q) /\ Precedes(q, p))
           /\ ~Precedes(p, p)
<1>1. row[p].rev \in Nat /\ row[q].rev \in Nat /\ p \in Nat /\ q \in Nat
  BY RowFields
<1> QED
  BY <1>1 DEF Precedes

LEMMA PrecedesTransitive ==
    ASSUME RowTypes, NEW p \in Path, NEW q \in Path, NEW r \in Path,
           Precedes(p, q), Precedes(q, r)
    PROVE  Precedes(p, r)
<1>1. row[p].rev \in Nat /\ row[q].rev \in Nat /\ row[r].rev \in Nat /\ p \in Nat /\ q \in Nat /\ r \in Nat
  BY RowFields
<1> QED
  BY <1>1 DEF Precedes

LEMMA FirstOf ==
    ASSUME RowTypes, NEW S \in SUBSET Path, S # {}
    PROVE  \E p \in S : \A q \in S : p = q \/ Precedes(p, q)
<1>1. \A p \in S : row[p].rev \in Nat /\ p \in Nat
  BY RowFields
<1> DEFINE R == {row[p].rev : p \in S}
<1>2. R \in SUBSET Nat /\ R # {}
  BY <1>1
<1>3. PICK x \in R : \A y \in R : x <= y
  BY <1>2, Least
<1> DEFINE T == {p \in S : row[p].rev = x}
<1>4. T \in SUBSET Nat /\ T # {}
  BY <1>1
<1>5. PICK p \in T : \A q \in T : p <= q
  BY <1>4, Least
<1>6. ASSUME NEW q \in S PROVE p = q \/ Precedes(p, q)
  <2>1. row[q].rev \in R /\ row[p].rev = x
    OBVIOUS
  <2>2. x <= row[q].rev
    BY <1>3, <2>1
  <2>3. row[q].rev = x => p <= q
    BY <1>5
  <2> QED
    BY <1>1, <2>1, <2>2, <2>3 DEF Precedes
<1> QED
  BY <1>6

LEMMA LastOf ==
    ASSUME RowTypes, NEW S \in SUBSET Path, S # {}
    PROVE  \E p \in S : \A q \in S : p = q \/ Precedes(q, p)
<1>1. \A p \in S : row[p].rev \in 0 .. MaxRev /\ p \in 0 .. NPath /\ p \in Nat /\ row[p].rev \in Nat
  BY RowFields, Constants DEF Rev
<1> DEFINE R == {row[p].rev : p \in S}
<1>2. R \in SUBSET (0 .. MaxRev) /\ R # {}
  BY <1>1
<1>3. PICK x \in R : \A y \in R : y <= x
  BY <1>2, Greatest, Constants
<1> DEFINE T == {p \in S : row[p].rev = x}
<1>4. T \in SUBSET (0 .. NPath) /\ T # {}
  BY <1>1
<1>5. PICK p \in T : \A q \in T : q <= p
  BY <1>4, Greatest, Constants
<1>6. ASSUME NEW q \in S PROVE p = q \/ Precedes(q, p)
  <2>1. row[q].rev \in R /\ row[p].rev = x
    OBVIOUS
  <2>2. row[q].rev <= x
    BY <1>3, <2>1
  <2>3. row[q].rev = x => q <= p
    BY <1>5
  <2> QED
    BY <1>1, <2>1, <2>2, <2>3 DEF Precedes
<1> QED
  BY <1>6

\* A page is the first rows after the cursor: all of them unless it is full,
\* and then every row it leaves out comes after every row it lists.
LEMMA PageFacts ==
    ASSUME RowTypes, NEW c
    PROVE  LET after == {p \in Path : Follows(p, c)}
               page == queryChanges(c)
           IN  /\ page \subseteq after
               /\ \A p \in after \ page : \A q \in page : Precedes(q, p)
               /\ Cardinality(page) # Limit => page = after
               /\ Cardinality(page) = Limit => page # {}
<1> DEFINE after == {p \in Path : Follows(p, c)}
           page == queryChanges(c)
           Before(p) == {q \in after : Precedes(q, p)}
<1>1. page = {p \in after : Cardinality(Before(p)) < Limit}
  BY DEF queryChanges
<1>2. after \in SUBSET Path /\ page \in SUBSET Path
  BY <1>1
<1>3. IsFiniteSet(after)
  <2>1. IsFiniteSet(Path)
    BY FS_Interval, Constants DEF Path
  <2> QED
    BY <1>2, <2>1, FS_Subset
<1>4. \A p : Before(p) \in SUBSET after /\ IsFiniteSet(Before(p)) /\ Cardinality(Before(p)) \in Nat
  <2> SUFFICES ASSUME NEW p PROVE IsFiniteSet(Before(p)) /\ Cardinality(Before(p)) \in Nat
    OBVIOUS
  <2>1. Before(p) \in SUBSET after
    OBVIOUS
  <2>2. IsFiniteSet(Before(p))
    BY <1>3, <2>1, FS_Subset
  <2> QED
    BY <2>2, FS_CardinalityType
<1>5. IsFiniteSet(page) /\ Cardinality(page) \in Nat
  BY <1>1, <1>3, FS_Subset, FS_CardinalityType
<1> HIDE DEF after, page, Before
<1>6. ASSUME NEW p \in after \ page, NEW q \in page PROVE Precedes(q, p)
  <2>1. p \in Path /\ q \in Path /\ q \in after /\ p \in after
    BY <1>1, <1>2
  <2>2. CASE p = q
    BY <2>2
  <2>3. CASE Precedes(p, q)
    <3>1. Before(p) \subseteq Before(q)
      BY <1>2, <2>1, <2>3, PrecedesTransitive DEF Before
    <3>2. Cardinality(Before(p)) <= Cardinality(Before(q))
      BY <1>4, <3>1, FS_Subset
    <3>3. Cardinality(Before(q)) < Limit /\ ~(Cardinality(Before(p)) < Limit)
      BY <1>1, <2>1
    <3> QED
      BY <1>4, <3>2, <3>3, Constants
  <2> QED
    BY <2>1, <2>2, <2>3, PrecedesTotal
<1>7. Cardinality(page) = Limit => page # {}
  BY FS_EmptySet, Constants
<1>8. ASSUME page # after PROVE Cardinality(page) = Limit
  <2>1. after \ page # {} /\ after \ page \in SUBSET Path
    BY <1>1, <1>2, <1>8
  <2>2. PICK p \in after \ page : \A q \in after \ page : p = q \/ Precedes(p, q)
    BY <2>1, FirstOf
  <2>3. Before(p) = page
    <3>1. ASSUME NEW q \in page PROVE q \in Before(p)
      BY <1>1, <1>6, <2>2, <3>1 DEF Before
    <3>2. ASSUME NEW q \in Before(p), q \notin page PROVE FALSE
      <4>1. q \in after /\ Precedes(q, p) /\ q \in Path /\ p \in Path
        BY <1>2, <3>2, <2>2 DEF Before
      <4>2. p = q \/ Precedes(p, q)
        BY <2>2, <3>2, <4>1
      <4> QED
        BY <4>1, <4>2, PrecedesTotal
    <3> QED
      BY <3>1, <3>2
  <2>4. Cardinality(page) >= Limit
    <3>1. ~(Cardinality(Before(p)) < Limit)
      BY <1>1, <2>2
    <3> QED
      BY <1>5, <2>3, <3>1, Constants
  <2>5. page # {}
    BY <2>4, FS_EmptySet, Constants
  <2>6. PICK f \in page : \A q \in page : f = q \/ Precedes(q, f)
    BY <1>2, <2>5, LastOf
  <2>7. page \ {f} \subseteq Before(f)
    BY <1>1, <2>6 DEF Before
  <2>8. Cardinality(page \ {f}) = Cardinality(page) - 1
    BY <1>5, <2>6, FS_RemoveElement
  <2>9. Cardinality(page \ {f}) <= Cardinality(Before(f))
    BY <1>4, <2>7, FS_Subset
  <2>10. Cardinality(Before(f)) < Limit
    BY <1>1, <2>6
  <2> QED
    BY <1>4, <1>5, <2>4, <2>8, <2>9, <2>10, Constants
<1> QED
  BY <1>1, <1>6, <1>7, <1>8 DEF after, page

\* The cursor after a page: what it has passed is in the page.
LEMMA NextFacts ==
    ASSUME RowTypes, lastRev \in Rev, \A p \in Path : row[p].kind # "none" => row[p].rev <= lastRev,
           NEW c \in Cursor, NEW last \in Rev, c.rev <= last, last <= lastRev
    PROVE  LET page == queryChanges(c)
               next == NextCursor(page, last)
           IN  /\ page \subseteq Path /\ next \in Cursor
               /\ c.rev <= next.rev /\ next.rev <= lastRev /\ (next.rev = 0 => next = Start)
               /\ \A p \in page : row[p].kind # "none" /\ c.rev <= row[p].rev /\ row[p].rev <= next.rev
               /\ \A p \in Path \ page : Follows(p, c) => Cardinality(page) = Limit /\ Follows(p, next)
<1> DEFINE page == queryChanges(c)
           next == NextCursor(page, last)
           final == CHOOSE p \in page : \A q \in page : p = q \/ Precedes(q, p)
<1>1. /\ page \subseteq {p \in Path : Follows(p, c)}
      /\ \A p \in {q \in Path : Follows(q, c)} \ page : \A q \in page : Precedes(q, p)
      /\ Cardinality(page) # Limit => page = {p \in Path : Follows(p, c)}
      /\ Cardinality(page) = Limit => page # {}
  BY PageFacts
<1> HIDE DEF page
<1>2. page # {} => final \in page /\ \A q \in page : q = final \/ Precedes(q, final)
  <2> SUFFICES ASSUME page # {} PROVE \E p \in page : \A q \in page : p = q \/ Precedes(q, p)
    OBVIOUS
  <2> QED
    BY <1>1, LastOf
<1>3. next = IF page # {} /\ (Cardinality(page) = Limit \/ row[final].rev >= last)
             THEN At(final) ELSE [rev |-> last, path |-> 0]
  BY DEF NextCursor
<1> HIDE DEF next, final
<1>4. c.rev \in Nat /\ c.path \in Nat /\ last \in Nat /\ lastRev \in Nat
  BY Constants DEF Cursor, Rev
<1>5. \A p \in page : /\ p \in Path /\ row[p].kind # "none" /\ c.rev <= row[p].rev /\ row[p].rev <= lastRev
                      /\ row[p].rev \in Rev /\ row[p].rev \in Nat /\ row[p].rev > 0
  <2> SUFFICES ASSUME NEW p \in page
               PROVE  /\ p \in Path /\ row[p].kind # "none" /\ c.rev <= row[p].rev /\ row[p].rev <= lastRev
                      /\ row[p].rev \in Rev /\ row[p].rev \in Nat /\ row[p].rev > 0
    OBVIOUS
  <2>1. p \in Path /\ Follows(p, c)
    BY <1>1
  <2>2. row[p].rev \in Nat /\ row[p].rev \in Rev
    BY <2>1, RowFields
  <2>3. row[p].kind # "none"
    BY <2>1 DEF Follows
  <2>4. c.rev <= row[p].rev
    BY <1>4, <2>1, <2>2 DEF Follows
  <2> QED
    BY <2>1, <2>2, <2>3, <2>4, RowFields
<1>6. CASE page # {} /\ (Cardinality(page) = Limit \/ row[final].rev >= last)
  <2>1. next = [rev |-> row[final].rev, path |-> final]
    BY <1>3, <1>6 DEF At
  <2>2. final \in page /\ \A q \in page : q = final \/ Precedes(q, final)
    BY <1>2, <1>6
  <2>3. final \in Path /\ final \in 0 .. NPath /\ final \in Nat
    BY <1>5, <2>2, Constants DEF Path
  <2>4. next \in Cursor /\ c.rev <= next.rev /\ next.rev <= lastRev /\ next.rev # 0
    BY <1>5, <2>1, <2>2, <2>3 DEF Cursor
  <2>5. \A p \in page : row[p].rev <= next.rev
    BY <1>5, <2>1, <2>2 DEF Precedes
  <2>6. ASSUME NEW p \in Path \ page, Follows(p, c) PROVE Cardinality(page) = Limit /\ Follows(p, next)
    <3>1. Cardinality(page) = Limit /\ Precedes(final, p)
      BY <1>1, <2>2, <2>6
    <3>2. p \in Nat
      BY Constants DEF Path
    <3> QED
      BY <2>1, <2>6, <3>1, <3>2 DEF Follows, Precedes
  <2> QED
    BY <1>1, <1>5, <2>4, <2>5, <2>6 DEF page, next
<1>7. CASE ~(page # {} /\ (Cardinality(page) = Limit \/ row[final].rev >= last))
  <2>1. next = [rev |-> last, path |-> 0]
    BY <1>3, <1>7
  <2>2. next \in Cursor /\ c.rev <= next.rev /\ next.rev <= lastRev /\ (next.rev = 0 => next = Start)
    BY <2>1, Constants DEF Cursor, Start
  <2>3. \A p \in page : row[p].rev <= next.rev
    <3> SUFFICES ASSUME NEW p \in page PROVE row[p].rev <= last
      BY <2>1
    <3>1. final \in page /\ (p = final \/ Precedes(p, final)) /\ row[final].rev < last
      BY <1>2, <1>4, <1>5, <1>7
    <3> QED
      BY <1>4, <1>5, <3>1 DEF Precedes
  <2>4. page = {p \in Path : Follows(p, c)}
    BY <1>1, <1>7
  <2> QED
    BY <1>1, <1>5, <2>2, <2>3, <2>4 DEF page, next
<1> QED
  BY <1>6, <1>7

-----------------------------------------------------------------------------
(* Types.                                                                  *)

LEMMA CursorFields ==
    ASSUME NEW c \in Cursor
    PROVE  c.rev \in Rev /\ c.rev \in Nat /\ c.path \in Nat
BY Constants DEF Cursor, Rev

LEMMA PassFields ==
    ASSUME NEW w \in Pass
    PROVE  /\ w.pc \in {"idle", "subscribe", "subscribed", "state", "resync", "query", "page", "applied", "verdict"}
           /\ w.pc = "idle" => w = Idle
           /\ w.pc \in {"subscribe", "subscribed"} => w.gen \in Nat /\ w \in [pc : {"subscribe", "subscribed"}, gen : Nat]
           /\ w.pc \in {"state", "resync"} => w \in [pc : {"state", "resync"}]
           /\ w.pc = "query" => w.from \in Cursor /\ w.last \in Rev /\ w.horizon \in Nat
           /\ w.pc = "page" => /\ w.from \in Cursor /\ w.next \in Cursor /\ w.full \in BOOLEAN /\ w.current \in Rev
                              /\ \E S \in SUBSET Path : w.rows \in [S -> FeedRows]
           /\ w.pc = "applied" => w.rev \in Rev /\ w.full \in BOOLEAN
           /\ w.pc = "verdict" => w.fresh \in BOOLEAN
<1>1. CASE w = Idle
  BY <1>1 DEF Idle
<1>2. CASE w \in [pc : {"subscribe", "subscribed"}, gen : Nat]
  BY <1>2
<1>3. CASE w \in [pc : {"state", "resync"}]
  BY <1>3
<1>4. CASE w \in [pc : {"query"}, from : Cursor, last : Rev, horizon : 0 .. MaxRev + 1]
  BY <1>4, Constants
<1>5. CASE w \in [pc : {"page"}, from : Cursor, next : Cursor, full : BOOLEAN, current : Rev,
                  rows : UNION {[S -> FeedRows] : S \in SUBSET Path}]
  <2>1. w.rows \in UNION {[S -> FeedRows] : S \in SUBSET Path}
    BY <1>5
  <2>2. \E S \in SUBSET Path : w.rows \in [S -> FeedRows]
    BY <2>1
  <2> QED
    BY <1>5, <2>2
<1>6. CASE w \in [pc : {"applied"}, rev : Rev, full : BOOLEAN]
  BY <1>6
<1>7. CASE w \in [pc : {"verdict"}, fresh : BOOLEAN]
  BY <1>7
<1> QED
  BY <1>1, <1>2, <1>3, <1>4, <1>5, <1>6, <1>7 DEF Pass

LEMMA OperationFields ==
    ASSUME NEW o \in Operation
    PROVE  /\ o.pc \in {"idle", "sent", "acked", "failed", "resolve", "wipe"}
           /\ o.pc = "idle" => o = Idle
           /\ o.pc \notin {"idle", "wipe"} => o.path \in Path /\ o.op \in {"put", "delete", "unlink", "rename"}
           /\ o.pc = "sent" /\ o.op = "rename" => o.to \in Path
           /\ o.pc = "sent" /\ o.op = "unlink" => o \in [pc : {"sent"}, op : {"put", "delete", "unlink"}, path : Path]
           /\ o.pc = "acked" => o \in [pc : {"acked"}, op : {"put", "delete", "rename", "unlink"},
                                       path : Path, to : Path, rev : Version]
           /\ o.pc \in {"acked", "resolve"} => o.to \in Path /\ o.rev \in Version /\ o.rev \in Nat
           /\ o.pc = "resolve" => o.op = "unlink"
<1> Version \subseteq Nat
  BY Constants DEF Version, Rev
<1>1. CASE o = Idle
  BY <1>1 DEF Idle
<1>2. CASE o \in [pc : {"sent"}, op : {"put", "delete", "unlink"}, path : Path]
  BY <1>2
<1>3. CASE o \in [pc : {"sent"}, op : {"rename"}, path : Path, to : Path]
  BY <1>3
<1>4. CASE o \in [pc : {"acked"}, op : {"put", "delete", "rename", "unlink"}, path : Path, to : Path, rev : Version]
  BY <1>4
<1>5. CASE o \in [pc : {"failed"}, op : {"unlink"}, path : Path]
  BY <1>5
<1>6. CASE o \in [pc : {"resolve", "failed"}, op : {"unlink"}, path : Path, to : Path, rev : Version]
  BY <1>6
<1>7. CASE o \in [pc : {"wipe"}]
  BY <1>7
<1> QED
  BY <1>1, <1>2, <1>3, <1>4, <1>5, <1>6, <1>7 DEF Operation

LEMMA LargerFacts ==
    ASSUME NEW a \in Int, NEW b \in Int
    PROVE  Larger(a, b) \in {a, b} /\ Larger(a, b) >= a /\ Larger(a, b) >= b
BY DEF Larger

LEMMA TypeParts ==
    ASSUME TypeOK
    PROVE  /\ RowTypes /\ lastRev \in Rev /\ lastRev \in Nat /\ prunedBefore \in Nat
           /\ target \in Nat /\ applied \in Nat
           /\ conn.up \in BOOLEAN /\ conn.gen \in Nat /\ conn = [up |-> conn.up, gen |-> conn.gen]
           /\ sub.on \in BOOLEAN /\ sub.rev \in Rev /\ sub.signal \in BOOLEAN /\ sub.rev \in Nat
           /\ cursor.rev \in Rev /\ cursor.rev \in Nat /\ cursor.path \in Nat
           /\ subGen \in Int
           /\ worker \in Pass /\ \A t \in Thread : thread[t] \in Operation
           /\ \A p \in Path : mirror[p] \in [rev : Rev, val : Rev \union {Absent}] /\ mirror[p].rev \in Nat
<1>1. Rev \subseteq Nat
  BY Constants DEF Rev
<1>2. cursor.rev \in Rev /\ cursor.rev \in Nat /\ cursor.path \in Nat
  BY CursorFields DEF TypeOK
<1>3. subGen \in Int
  BY DEF TypeOK, Never
<1>4. prunedBefore \in Nat
  BY Constants DEF TypeOK
<1> QED
  BY <1>1, <1>2, <1>3, <1>4 DEF TypeOK, RowTypes

\* A thread whose unlink stays in flight, starts, or ends.
LEMMA ThreadKeepsTypes ==
    ASSUME TypeOK, NEW t \in Thread, NEW o \in Operation, thread' = [thread EXCEPT ![t] = o],
           \/ pending' = pending /\ (Unlinking(thread[t]) => Unlinking(o) /\ o.path = thread[t].path)
           \/ pending' = pending \union {o.path} /\ Unlinking(o) /\ ~Unlinking(thread[t])
           \/ pending' = pending \ {thread[t].path}
    PROVE  /\ thread' \in [Thread -> Operation]
           /\ pending' \subseteq {thread'[u].path : u \in {v \in Thread : Unlinking(thread'[v])}}
<1>1. thread' \in [Thread -> Operation] /\ thread'[t] = o /\ \A u \in Thread \ {t} : thread'[u] = thread[u]
  BY DEF TypeOK
<1>2. ASSUME NEW p \in pending' PROVE \E u \in Thread : Unlinking(thread'[u]) /\ thread'[u].path = p
  <2>1. CASE p \in pending
    <3>1. PICK u \in Thread : Unlinking(thread[u]) /\ thread[u].path = p
      BY <2>1 DEF TypeOK
    <3>2. CASE u # t
      BY <1>1, <3>1, <3>2
    <3>3. CASE u = t
      BY <1>1, <1>2, <3>1, <3>3
    <3> QED
      BY <3>2, <3>3
  <2>2. CASE p \notin pending
    BY <1>1, <1>2, <2>2
  <2> QED
    BY <2>1, <2>2
<1> QED
  BY <1>1, <1>2

LEMMA CommitTypes ==
    ASSUME TypeOK, NEW rows, Commit(rows), rows \in [Path -> FeedRows \union {Nothing}]
    PROVE  row' \in [Path -> FeedRows \union {Nothing}] /\ lastRev' \in Rev /\ ringing' \subseteq Rev
<1>1. lastRev + 1 \in Rev
  BY Constants DEF TypeOK, Commit, Rev
<1> QED
  BY <1>1 DEF Commit, TypeOK, NewRev

LEMMA WrittenTypes ==
    ASSUME TypeOK, NEW p \in Path, lastRev < MaxRev
    PROVE  /\ Written(p) \in [Path -> FeedRows \union {Nothing}]
           /\ Deleted(p) \in [Path -> FeedRows \union {Nothing}]
           /\ \A q \in Path : p \in exists => Moved(p, q) \in [Path -> FeedRows \union {Nothing}]
<1>1. NewRev \in Version /\ NewRev \in Rev
  BY Constants DEF TypeOK, NewRev, Version, Rev
<1>2. Live(NewRev, NewRev) \in FeedRows /\ Tombstone(NewRev) \in FeedRows
  BY <1>1 DEF Live, Tombstone, FeedRows
<1>3. ASSUME p \in exists PROVE Live(NewRev, row[p].val) \in FeedRows
  <2>1. row[p] \in FeedRows /\ row[p].kind = "live"
    BY <1>3, TypeParts, RowFields DEF exists
  <2>2. row[p].val \in Rev
    BY <2>1 DEF FeedRows
  <2> QED
    BY <1>1, <2>2 DEF Live, FeedRows
<1> QED
  BY <1>2, <1>3 DEF TypeOK, Written, Deleted, Moved

LEMMA TypeInit == Init => TypeOK
<1> SUFFICES ASSUME Init PROVE TypeOK
  OBVIOUS
<1>1. 0 \in Rev /\ 0 \in 0 .. MaxRev + 1 /\ 0 \in 0 .. NPath
  BY Constants DEF Rev
<1>2. Missing \in [rev : Rev, val : Rev \union {Absent}] /\ Start \in Cursor
  BY <1>1 DEF Missing, Start, Cursor
<1>3. Idle \in Pass /\ Idle \in Operation
  BY DEF Pass, Operation
<1>4. FALSE \in BOOLEAN /\ TRUE \in BOOLEAN
  OBVIOUS
<1>5. mirror \in [Path -> [rev : Rev, val : Rev \union {Absent}]] /\ cursor \in Cursor
  BY <1>2 DEF Init, wiped
<1>6. sub \in [on : BOOLEAN, rev : Rev, signal : BOOLEAN] /\ conn \in [up : BOOLEAN, gen : Nat]
  BY <1>1 DEF Init, NoSub
<1>7. worker \in Pass /\ thread \in [Thread -> Operation]
  BY <1>3 DEF Init
<1>8. fresh \in BOOLEAN /\ wake \in BOOLEAN
  BY <1>4, Zenon DEF Init
<1> QED
  BY <1>1, <1>5, <1>6, <1>7, <1>8 DEF Init, TypeOK

\* The steps of the sync worker.
LEMMA SyncTypes == TypeOK /\ Sync => TypeOK'
<1> SUFFICES ASSUME TypeOK, Sync PROVE TypeOK'
  OBVIOUS
<1> USE TypeParts
<1>1. 0 \in Rev /\ Missing \in [rev : Rev, val : Rev \union {Absent}] /\ Start \in Cursor
  BY Constants DEF Rev, Missing, Start, Cursor
<1>2. CASE SyncStart
  <2>1. [pc |-> "subscribe", gen |-> conn.gen] \in Pass /\ [pc |-> "state"] \in Pass
    BY DEF Pass
  <2>2. worker' \in Pass
    BY <1>2, <2>1 DEF SyncStart
  <2>3. fresh' \in BOOLEAN /\ wake' \in BOOLEAN
    BY <1>2, Zenon DEF SyncStart, TypeOK
  <2> QED
    BY <1>2, <2>1, <2>2, <2>3 DEF SyncStart, TypeOK, tables, link, store, counts, Unlinking
<1>3. CASE SubscribeRegister
  <2>1. worker \in [pc : {"subscribe", "subscribed"}, gen : Nat]
    BY <1>3, PassFields DEF SubscribeRegister
  <2>2. [worker EXCEPT !.pc = "subscribed"] \in [pc : {"subscribe", "subscribed"}, gen : Nat]
    BY <2>1
  <2>3. worker' \in Pass
    BY <1>3, <2>2 DEF SubscribeRegister, Goto, Pass
  <2> QED
    BY <1>1, <1>3, <2>3 DEF SubscribeRegister, TypeOK, tables, store, atomics, counts, Unlinking
<1>4. CASE SubscribeReply
  <2>1. worker' \in Pass
    BY <1>4 DEF SubscribeReply, Pass
  <2>2. subGen' \in Nat
    BY <1>4, PassFields DEF SubscribeReply
  <2>3. target' \in Rev
    BY <1>4, LargerFacts DEF SubscribeReply, TypeOK
  <2> QED
    BY <1>4, <2>1, <2>2, <2>3 DEF SubscribeReply, TypeOK, tables, link, store, counts, Unlinking
<1>5. CASE FetchState
  <2>1. worker' \in Pass
    <3>1. [pc |-> "resync"] \in Pass
      BY DEF Pass
    <3>2. [pc |-> "query", from |-> cursor, last |-> lastRev, horizon |-> prunedBefore] \in Pass
      BY DEF Pass, TypeOK
    <3> QED
      BY <1>5, <3>1, <3>2 DEF FetchState
  <2> QED
    BY <1>5, <2>1 DEF FetchState, TypeOK, tables, link, store, atomics, counts, Unlinking
<1>6. CASE Resync
  <2>1. worker \in [pc : {"state", "resync"}]
    BY <1>6, PassFields DEF Resync
  <2>2. worker' \in Pass
    BY <1>6, <2>1 DEF Resync, Goto, Pass
  <2>3. fresh' \in BOOLEAN
    BY <1>6, Zenon DEF Resync, wipe
  <2>4. mirror' \in [Path -> [rev : Rev, val : Rev \union {Absent}]] /\ cursor' \in Cursor /\ applied' \in Rev
    BY <1>1, <1>6 DEF Resync, wipe, wiped
  <2> QED
    BY <1>6, <2>2, <2>3, <2>4 DEF Resync, TypeOK, tables, link, counts, Unlinking
<1>7. CASE FetchPage
  <2> DEFINE page == queryChanges(worker.from)
             next == NextCursor(page, worker.last)
             cur == IF Cardinality(page) = Limit THEN worker.last ELSE Larger(worker.last, next.rev)
  <2>1. worker.from \in Cursor /\ worker.last \in Rev
    BY <1>7, PassFields DEF FetchPage
  <2>2. page \subseteq Path /\ \A p \in page : row[p].kind # "none"
    <3>1. page \subseteq {p \in Path : Follows(p, worker.from)}
      BY PageFacts
    <3> QED
      BY <3>1 DEF Follows
  <2>3. next \in Cursor
    <3>1. page # {} => \E p \in page : \A q \in page : p = q \/ Precedes(q, p)
      BY <2>2, LastOf
    <3>2. \A p \in page : At(p) \in Cursor
      BY <2>2, RowFields DEF At, Cursor
    <3>3. [rev |-> worker.last, path |-> 0] \in Cursor
      BY <2>1, Constants DEF Cursor
    <3> HIDE DEF page
    <3> QED
      BY <3>1, <3>2, <3>3 DEF NextCursor
  <2>4. [p \in page |-> row[p]] \in [page -> FeedRows]
    BY <2>2, RowFields
  <2>5. cur \in Rev
    <3>1. next.rev \in Rev /\ next.rev \in Nat /\ worker.last \in Nat
      BY <2>1, <2>3, CursorFields, Constants DEF Rev
    <3> HIDE DEF next, page
    <3> QED
      BY <2>1, <3>1, LargerFacts
  <2>6. worker' = [pc |-> "page", from |-> worker.from, next |-> next, full |-> Cardinality(page) = Limit,
                   current |-> cur, rows |-> [p \in page |-> row[p]]]
    BY <1>7 DEF FetchPage
  <2> HIDE DEF page, next, cur
  <2>7. worker' \in Pass
    BY <2>1, <2>2, <2>3, <2>4, <2>5, <2>6 DEF Pass
  <2>8. blind' \subseteq Path
    BY <1>7 DEF FetchPage, TypeOK
  <2> QED
    BY <1>7, <2>7, <2>8 DEF FetchPage, TypeOK, tables, link, store, atomics, counts, Unlinking
<1>8. CASE apply_page
  <2>1. /\ worker.next \in Cursor /\ worker.full \in BOOLEAN /\ worker.current \in Rev
        /\ \E S \in SUBSET Path : worker.rows \in [S -> FeedRows]
    BY <1>8, PassFields DEF apply_page
  <2>2. \A p \in DOMAIN worker.rows : p \in Path /\ worker.rows[p] \in FeedRows
    BY <2>1
  <2>3. \A p \in DOMAIN worker.rows : Fed(p, worker.rows[p]) \in [rev : Rev, val : Rev \union {Absent}]
    <3> SUFFICES ASSUME NEW p \in DOMAIN worker.rows
                 PROVE  Fed(p, worker.rows[p]) \in [rev : Rev, val : Rev \union {Absent}]
      OBVIOUS
    <3>1. worker.rows[p] \in FeedRows /\ mirror[p] \in [rev : Rev, val : Rev \union {Absent}]
      BY <2>2
    <3>2. worker.rows[p].rev \in Rev /\ worker.rows[p].val \in Rev \union {Absent}
      BY <3>1 DEF FeedRows, Version
    <3> QED
      BY <1>1, <3>1, <3>2 DEF Fed
  <2>4. mirror' \in [Path -> [rev : Rev, val : Rev \union {Absent}]]
    BY <1>8, <2>3 DEF apply_page
  <2>5. worker' \in Pass
    BY <1>8, <2>1, CursorFields DEF apply_page, Pass
  <2>6. target' \in Rev
    <3>1. worker.current \in Nat
      BY <2>1, Constants DEF Rev
    <3> QED
      BY <1>8, <2>1, <3>1, LargerFacts DEF apply_page, TypeOK
  <2>7. blind' \subseteq Path
    BY <1>8 DEF apply_page, TypeOK
  <2> QED
    BY <1>8, <2>1, <2>4, <2>5, <2>6, <2>7 DEF apply_page, TypeOK, tables, link, counts, Unlinking
<1>9. CASE StoreApplied
  <2>1. worker.rev \in Rev
    BY <1>9, PassFields DEF StoreApplied
  <2>2. CaughtUp(worker.rev) \in BOOLEAN
    BY DEF CaughtUp
  <2>3. worker' \in Pass
    BY <1>9, <2>2 DEF StoreApplied, Pass
  <2> QED
    BY <1>9, <2>1, <2>3 DEF StoreApplied, TypeOK, tables, link, store, counts, Unlinking
<1>10. CASE StoreFresh
  <2>1. worker.fresh \in BOOLEAN /\ Idle \in Pass
    BY <1>10, PassFields DEF StoreFresh, Pass
  <2> QED
    BY <1>10, <2>1 DEF StoreFresh, TypeOK, tables, link, store, counts, Unlinking
<1> QED
  BY <1>2, <1>3, <1>4, <1>5, <1>6, <1>7, <1>8, <1>9, <1>10 DEF Sync

\* The steps of the server and of the connection.
LEMMA ServerTypes == TypeOK /\ (OtherMutation \/ pruneTombstones \/ Ring \/ Dial \/ Disconnect) => TypeOK'
<1> SUFFICES ASSUME TypeOK, OtherMutation \/ pruneTombstones \/ Ring \/ Dial \/ Disconnect PROVE TypeOK'
  OBVIOUS
<1> USE TypeParts
<1>1. CASE OtherMutation
  <2>1. row' \in [Path -> FeedRows \union {Nothing}] /\ lastRev' \in Rev /\ ringing' \subseteq Rev
        /\ UNCHANGED <<prunedBefore, sub>>
    <3>1. PICK p \in Path : Commit(Written(p)) \/ Commit(Deleted(p))
      BY <1>1 DEF OtherMutation
    <3>2. lastRev < MaxRev /\ UNCHANGED <<prunedBefore, sub>>
      BY <3>1 DEF Commit
    <3> QED
      BY <3>1, <3>2, WrittenTypes, CommitTypes
  <2> QED
    BY <1>1, <2>1 DEF OtherMutation, TypeOK, store, atomics, counts, Unlinking
<1>2. CASE pruneTombstones
  <2>1. PICK p \in Path :
           LET old == {q \in Path : row[q].kind = "tombstone" /\ row[q].rev <= row[p].rev} IN
           /\ p \in old
           /\ row' = [q \in Path |-> IF q \in old THEN Nothing ELSE row[q]]
           /\ prunedBefore' = Larger(prunedBefore, Watermark(row[p].rev))
    BY <1>2 DEF pruneTombstones
  <2>2. row' \in [Path -> FeedRows \union {Nothing}]
    BY <2>1 DEF TypeOK
  <2>3. row[p].rev \in 0 .. MaxRev
    BY RowFields DEF Rev
  <2>4. prunedBefore' \in 0 .. MaxRev + 1
    BY <2>1, <2>3, Constants DEF Larger, Watermark, TypeOK
  <2> QED
    BY <1>2, <2>2, <2>4 DEF pruneTombstones, TypeOK, link, store, atomics, counts, Unlinking
<1>3. ASSUME NEW rev \in ringing, Notify(rev) PROVE TypeOK'
  <2>0. rev \in Rev
    BY DEF TypeOK
  <2>1. Larger(sub.rev, rev) \in Rev
    BY <2>0, LargerFacts, Constants DEF Rev
  <2>2. [on |-> TRUE, rev |-> Larger(sub.rev, rev), signal |-> TRUE] \in [on : BOOLEAN, rev : Rev, signal : BOOLEAN]
    BY <2>1
  <2>3. sub' \in [on : BOOLEAN, rev : Rev, signal : BOOLEAN]
    BY <1>3, <2>2 DEF Notify, TypeOK
  <2> QED
    BY <1>3, <2>3 DEF Notify, TypeOK, tables, store, atomics, counts, Unlinking
<1>4. CASE changesEventPump
  <2>1. sub' \in [on : BOOLEAN, rev : Rev, signal : BOOLEAN]
    BY <1>4 DEF changesEventPump, TypeOK
  <2>2. target' \in Rev
    BY <1>4, LargerFacts DEF changesEventPump, note_target, TypeOK
  <2>3. fresh' \in BOOLEAN /\ wake' \in BOOLEAN
    BY <1>4 DEF changesEventPump, note_target
  <2> QED
    BY <1>4, <2>1, <2>2, <2>3 DEF changesEventPump, TypeOK, tables, store, counts, Unlinking
<1>5. CASE Dial
  <2>1. conn' \in [up : BOOLEAN, gen : Nat]
    BY <1>5 DEF Dial
  <2> QED
    BY <1>5, <2>1 DEF Dial, TypeOK, tables, link, store, atomics, counts, Unlinking
<1>6. CASE Disconnect
  <2>1. conn' \in [up : BOOLEAN, gen : Nat]
    BY <1>6 DEF Disconnect, TypeOK
  <2>2. sub' \in [on : BOOLEAN, rev : Rev, signal : BOOLEAN]
    BY <1>6, Constants DEF Disconnect, NoSub, Rev
  <2>3. worker' \in Pass
    BY <1>6 DEF Disconnect, Pass
  <2>4. \A t \in Thread : /\ thread'[t] \in Operation
                          /\ Unlinking(thread[t]) => Unlinking(thread'[t]) /\ thread'[t].path = thread[t].path
    <3> SUFFICES ASSUME NEW t \in Thread
                 PROVE  /\ thread'[t] \in Operation
                        /\ Unlinking(thread[t]) => Unlinking(thread'[t]) /\ thread'[t].path = thread[t].path
      OBVIOUS
    <3> DEFINE o == thread[t]
    <3>1. o \in Operation
      OBVIOUS
    <3>2. thread'[t] = IF o.pc \in {"sent", "acked"} /\ o.op = "unlink" THEN [o EXCEPT !.pc = "failed"]
                       ELSE IF o.pc = "sent" THEN Idle ELSE o
      BY <1>6 DEF Disconnect
    <3> HIDE DEF o
    <3>3. CASE o.pc = "sent" /\ o.op = "unlink"
      <4>1. o \in [pc : {"sent"}, op : {"put", "delete", "unlink"}, path : Path]
        BY <3>1, <3>3, OperationFields
      <4>2. [o EXCEPT !.pc = "failed"] \in [pc : {"failed"}, op : {"unlink"}, path : Path]
        BY <3>3, <4>1
      <4>3. thread'[t] = [o EXCEPT !.pc = "failed"]
        BY <3>2, <3>3
      <4>4. thread'[t].pc = "failed" /\ thread'[t].op = "unlink" /\ thread'[t].path = o.path
        BY <4>1, <4>2, <4>3
      <4> QED
        BY <4>2, <4>3, <4>4 DEF Operation, Unlinking, o
    <3>4. CASE o.pc = "acked" /\ o.op = "unlink"
      <4>1. o \in [pc : {"acked"}, op : {"put", "delete", "rename", "unlink"}, path : Path, to : Path, rev : Version]
        BY <3>1, <3>4, OperationFields
      <4>2. [o EXCEPT !.pc = "failed"] \in [pc : {"resolve", "failed"}, op : {"unlink"}, path : Path, to : Path, rev : Version]
        BY <3>4, <4>1
      <4>3. thread'[t] = [o EXCEPT !.pc = "failed"]
        BY <3>2, <3>4
      <4>4. thread'[t].pc = "failed" /\ thread'[t].op = "unlink" /\ thread'[t].path = o.path
        BY <3>4, <4>1, <4>3
      <4> QED
        BY <4>2, <4>3, <4>4 DEF Operation, Unlinking, o
    <3>5. CASE ~(o.pc \in {"sent", "acked"} /\ o.op = "unlink") /\ o.pc = "sent"
      BY <3>2, <3>5 DEF Operation, Unlinking, o
    <3>6. CASE ~(o.pc \in {"sent", "acked"} /\ o.op = "unlink") /\ o.pc # "sent"
      BY <3>1, <3>2, <3>6 DEF o
    <3> QED
      BY <3>3, <3>4, <3>5, <3>6
  <2>5. thread' \in [Thread -> Operation]
    <3>1. thread' = [t \in Thread |-> thread'[t]]
      BY <1>6 DEF Disconnect
    <3> QED
      BY <2>4, <3>1
  <2>6. pending' \subseteq {thread'[t].path : t \in {u \in Thread : Unlinking(thread'[u])}}
    <3> SUFFICES ASSUME NEW p \in pending PROVE \E u \in Thread : Unlinking(thread'[u]) /\ thread'[u].path = p
      BY ZenonT(60), <1>6 DEF Disconnect
    <3>1. PICK u \in Thread : Unlinking(thread[u]) /\ thread[u].path = p
      BY DEF TypeOK
    <3> QED
      BY <2>4, <3>1
  <2>7. {owns, prunes, drops}' \subseteq Nat
    BY <1>6 DEF Disconnect, TypeOK
  <2>8. UNCHANGED <<tables, ringing, store, atomics, pending, wake, blind>>
    BY <1>6 DEF Disconnect
  <2> QED
    BY <2>1, <2>2, <2>3, <2>5, <2>6, <2>7, <2>8 DEF TypeOK, tables, store, atomics
<1> QED
  BY <1>1, <1>2, <1>3, <1>4, <1>5, <1>6 DEF Ring

LEMMA LocallyTypes ==
    ASSUME TypeOK, NEW t \in Thread, thread[t].pc \in {"acked", "resolve"}
    PROVE  /\ Locally(thread[t]) \in [Path -> [rev : Rev, val : Rev \union {Absent}]]
           /\ Crossed(thread[t]) \subseteq Path
           /\ \A p \in Path \ {thread[t].path, thread[t].to} : Locally(thread[t])[p] = mirror[p]
<1> DEFINE o == thread[t]
           Entry == [rev : Rev, val : Rev \union {Absent}]
<1>1. o.path \in Path /\ o.to \in Path /\ o.rev \in Rev /\ o.op \in {"put", "delete", "unlink", "rename"}
  <2>1. o \in Operation
    BY TypeParts
  <2> QED
    BY <2>1, OperationFields DEF Version
<1>2. Missing \in Entry
  BY Constants DEF Missing, Rev
<1>3. mirror \in [Path -> Entry]
  BY DEF TypeOK
<1> HIDE DEF o
<1>4. CASE o.op = "put"
  <2>1. Locally(o) = [mirror EXCEPT ![o.path] = [mirror[o.path] EXCEPT !.val = o.rev]]
    BY <1>1, <1>3, <1>4 DEF Locally
  <2>2. [mirror[o.path] EXCEPT !.val = o.rev] \in Entry
    BY <1>1, <1>3
  <2> QED
    BY <1>1, <1>3, <2>1, <2>2 DEF Crossed, o
<1>5. CASE o.op = "rename"
  <2>1. Locally(o) = [mirror EXCEPT ![o.to] = mirror[o.path], ![o.path] = Missing]
    BY <1>5 DEF Locally
  <2> QED
    BY <1>1, <1>2, <1>3, <2>1 DEF Crossed, o
<1>6. CASE o.op # "put" /\ o.op # "rename"
  <2>1. Locally(o) = [mirror EXCEPT ![o.path] = Missing]
    BY <1>6 DEF Locally
  <2> QED
    BY <1>1, <1>2, <1>3, <2>1 DEF Crossed, o
<1> QED
  BY <1>4, <1>5, <1>6

\* The steps of the mount's threads.
LEMMA ThreadTypes == ASSUME TypeOK, NEW t \in Thread, Begin(t) \/ Finish(t) PROVE TypeOK'
<1> USE TypeParts
<1> DEFINE o == thread[t]
           Threads == {thread'[u].path : u \in {v \in Thread : Unlinking(thread'[v])}}
<1>1. o \in Operation /\ Idle \in Operation /\ [pc |-> "wipe"] \in Operation
  BY DEF Operation
<1>2. Missing \in [rev : Rev, val : Rev \union {Absent}] /\ Start \in Cursor /\ 0 \in Rev
  BY Constants DEF Rev, Missing, Start, Cursor
<1>3. CASE Begin(t)
  <2>1. ASSUME NEW n \in Operation, Send(t, n),
               pending' = pending \/ (pending' = pending \union {n.path} /\ Unlinking(n))
        PROVE  thread' \in [Thread -> Operation] /\ pending' \subseteq Threads
    <3>1. ~Unlinking(thread[t]) /\ thread' = [thread EXCEPT ![t] = n]
      BY <2>1 DEF Send, Unlinking
    <3> QED
      BY <2>1, <3>1, ThreadKeepsTypes
  <2>2. \A p \in Path : \A op \in {"put", "delete", "unlink"} : [pc |-> "sent", op |-> op, path |-> p] \in Operation
    BY DEF Operation
  <2>3. \A p, q \in Path : [pc |-> "sent", op |-> "rename", path |-> p, to |-> q] \in Operation
    BY DEF Operation
  <2>4. thread' \in [Thread -> Operation] /\ pending' \subseteq Threads
    <3>1. CASE \E p \in Path : Send(t, [pc |-> "sent", op |-> "put", path |-> p]) /\ UNCHANGED pending
      BY <2>1, <2>2, <3>1
    <3>2. CASE \E p \in Path : Send(t, [pc |-> "sent", op |-> "delete", path |-> p]) /\ UNCHANGED pending
      BY <2>1, <2>2, <3>2
    <3>3. CASE /\ \E p, q \in Path : p # q /\ Send(t, [pc |-> "sent", op |-> "rename", path |-> p, to |-> q])
               /\ UNCHANGED pending
      BY <2>1, <2>3, <3>3
    <3>4. CASE \E p \in Path :
                 Send(t, [pc |-> "sent", op |-> "unlink", path |-> p]) /\ pending' = pending \union {p}
      <4>1. PICK p \in Path : Send(t, [pc |-> "sent", op |-> "unlink", path |-> p]) /\ pending' = pending \union {p}
        BY <3>4
      <4> DEFINE n == [pc |-> "sent", op |-> "unlink", path |-> p]
      <4>2. n \in Operation /\ n.path = p /\ Unlinking(n)
        BY <2>2 DEF Unlinking
      <4> HIDE DEF n
      <4> QED
        BY <2>1, <4>1, <4>2 DEF n
    <3> QED
      BY <1>3, <3>1, <3>2, <3>3, <3>4 DEF Begin
  <2>5. {owns, prunes, drops}' \subseteq Nat
    BY <1>3 DEF Begin, TypeOK
  <2> QED
    BY <1>3, <2>4, <2>5 DEF Begin, TypeOK, tables, link, store, atomics
<1>4. CASE Serve(t)
  <2>1. o.path \in Path /\ o.op \in {"put", "delete", "unlink", "rename"} /\ (o.op = "rename" => o.to \in Path)
    BY <1>1, <1>4, OperationFields DEF Serve
  <2>2. /\ row' \in [Path -> FeedRows \union {Nothing}] /\ lastRev' \in Rev /\ ringing' \subseteq Rev
        /\ UNCHANGED <<prunedBefore, sub>> /\ NewRev \in Version
    <3>1. PICK rows \in {Written(o.path), Deleted(o.path), Moved(o.path, o.to)} :
             Commit(rows) /\ (rows \in {Written(o.path), Deleted(o.path)} \/ (o.op = "rename" /\ o.path \in exists))
      BY <1>4 DEF Serve
    <3>2. lastRev < MaxRev /\ UNCHANGED <<prunedBefore, sub>>
      BY <3>1 DEF Commit
    <3>3. rows \in [Path -> FeedRows \union {Nothing}]
      BY <2>1, <3>1, <3>2, WrittenTypes
    <3>4. NewRev \in Version
      BY <3>2, Constants DEF NewRev, Version, Rev
    <3> QED
      BY <3>1, <3>2, <3>3, <3>4, CommitTypes
  <2> DEFINE n == [rev |-> NewRev, path |-> o.path, op |-> o.op, pc |-> "acked",
                   to |-> IF o.op = "rename" THEN o.to ELSE o.path]
  <2>3. n \in Operation
    BY <2>1, <2>2 DEF Operation
  <2>4. thread' = [thread EXCEPT ![t] = n] /\ pending' = pending /\ n.path = o.path /\ n.op = o.op /\ n.pc = "acked"
    BY <1>4 DEF Serve
  <2> HIDE DEF n
  <2>5. thread' \in [Thread -> Operation] /\ pending' \subseteq Threads
    BY <2>3, <2>4, ThreadKeepsTypes DEF Unlinking
  <2>6. UNCHANGED <<conn, store, atomics, wake, worker, blind, counts>>
    BY <1>4 DEF Serve
  <2> QED
    BY <2>2, <2>5, <2>6 DEF TypeOK, store, atomics, counts
<1>5. CASE Refuse(t)
  <2> DEFINE n == IF o.op = "unlink" THEN [o EXCEPT !.pc = "failed"] ELSE Idle
  <2>1. n \in Operation /\ (Unlinking(o) => Unlinking(n) /\ n.path = o.path)
    <3>1. CASE o.op = "unlink"
      <4>1. o \in [pc : {"sent"}, op : {"put", "delete", "unlink"}, path : Path]
        BY <1>1, <1>5, <3>1, OperationFields DEF Refuse
      <4> HIDE DEF o
      <4>2. n \in [pc : {"failed"}, op : {"unlink"}, path : Path] /\ n.path = o.path
        BY <3>1, <4>1
      <4> HIDE DEF n
      <4>3. Unlinking(n)
        BY <4>2 DEF Unlinking
      <4> QED
        BY <4>2, <4>3 DEF Operation
    <3>2. CASE o.op # "unlink"
      BY <1>1, <3>2 DEF Unlinking
    <3> QED
      BY <3>1, <3>2
  <2>2. thread' = [thread EXCEPT ![t] = n] /\ pending' = pending
    BY <1>5 DEF Refuse
  <2> HIDE DEF n
  <2>3. thread' \in [Thread -> Operation] /\ pending' \subseteq Threads
    BY <2>1, <2>2, ThreadKeepsTypes
  <2> QED
    BY <1>5, <2>3 DEF Refuse, TypeOK, tables, link, store, atomics, counts
<1>6. CASE apply_local(t)
  <2> DEFINE n == IF o.op = "unlink" THEN [o EXCEPT !.pc = "resolve"] ELSE Idle
  <2>1. n \in Operation /\ (Unlinking(o) => Unlinking(n) /\ n.path = o.path)
    <3>1. CASE o.op = "unlink"
      <4>1. o \in [pc : {"acked"}, op : {"put", "delete", "rename", "unlink"}, path : Path, to : Path, rev : Version]
        BY <1>1, <1>6, <3>1, OperationFields DEF apply_local
      <4> HIDE DEF o
      <4>2. n \in [pc : {"resolve", "failed"}, op : {"unlink"}, path : Path, to : Path, rev : Version] /\ n.path = o.path
        BY <3>1, <4>1
      <4> HIDE DEF n
      <4>3. Unlinking(n)
        BY <4>2 DEF Unlinking
      <4> QED
        BY <4>2, <4>3 DEF Operation
    <3>2. CASE o.op # "unlink"
      BY <1>1, <3>2 DEF Unlinking
    <3> QED
      BY <3>1, <3>2
  <2>2. thread' = [thread EXCEPT ![t] = n] /\ pending' = pending
    BY <1>6 DEF apply_local
  <2> HIDE DEF n
  <2>3. thread' \in [Thread -> Operation] /\ pending' \subseteq Threads
    BY <2>1, <2>2, ThreadKeepsTypes
  <2>4. mirror' \in [Path -> [rev : Rev, val : Rev \union {Absent}]] /\ blind' \subseteq Path
    BY <1>6, LocallyTypes DEF apply_local, TypeOK
  <2> QED
    BY <1>6, <2>3, <2>4 DEF apply_local, TypeOK, tables, link, atomics, counts
<1>7. CASE ResolveOk(t)
  <2>1. thread' \in [Thread -> Operation] /\ pending' \subseteq Threads
    BY <1>1, <1>7, ThreadKeepsTypes DEF ResolveOk
  <2>2. mirror' \in [Path -> [rev : Rev, val : Rev \union {Absent}]] /\ blind' \subseteq Path
    BY <1>7, LocallyTypes DEF ResolveOk, TypeOK
  <2> QED
    BY <1>7, <2>1, <2>2 DEF ResolveOk, TypeOK, tables, link, atomics, counts
<1>8. CASE ResolveFailed(t)
  <2>1. thread' \in [Thread -> Operation] /\ pending' \subseteq Threads
    BY <1>1, <1>8, ThreadKeepsTypes DEF ResolveFailed
  <2>2. fresh' \in BOOLEAN
    BY <1>8, Zenon DEF ResolveFailed
  <2> QED
    BY <1>8, <2>1, <2>2 DEF ResolveFailed, TypeOK, tables, link, store, counts
<1>9. CASE WipeEntries(t)
  <2>1. thread' \in [Thread -> Operation] /\ pending' \subseteq Threads
    BY <1>1, <1>9, ThreadKeepsTypes DEF WipeEntries, Unlinking
  <2>2. wake' \in BOOLEAN
    BY <1>9, Zenon DEF WipeEntries
  <2>3. mirror' \in [Path -> [rev : Rev, val : Rev \union {Absent}]] /\ cursor' \in Cursor /\ applied' \in Rev
    BY <1>2, <1>9 DEF WipeEntries, wiped
  <2> QED
    BY <1>9, <2>1, <2>2, <2>3 DEF WipeEntries, TypeOK, tables, link, counts
<1> QED
  BY <1>3, <1>4, <1>5, <1>6, <1>7, <1>8, <1>9 DEF Finish

LEMMA TypeStep == TypeOK /\ [Next]_vars => TypeOK'
<1>1. ASSUME TypeOK, Next PROVE TypeOK'
  BY <1>1, ServerTypes, SyncTypes, ThreadTypes DEF Next
<1>2. ASSUME TypeOK, UNCHANGED vars PROVE TypeOK'
  BY <1>2 DEF vars, TypeOK, tables, link, store, atomics, counts, Unlinking
<1> QED
  BY <1>1, <1>2

\* Every variable always has its type, and what the mirror hides of its own
\* unlinks (pending_unlinks, mirror.rs) is only what a thread still answers for.
THEOREM FeedTypes == Spec => []TypeOK
<1> QED
  BY TypeInit, TypeStep, PTL DEF Spec

-----------------------------------------------------------------------------
(* What a step leaves alone.                                               *)

LEMMA TablesKept ==
    ASSUME FeedInv, UNCHANGED tables
    PROVE  /\ UNCHANGED cursor => RowsNumbered'
           /\ UNCHANGED thread => AckedStand'
           /\ UNCHANGED worker => QuerySound' /\ PageSound'
           /\ UNCHANGED <<worker, thread, blind>> => PageKeepsAcked'
           /\ UNCHANGED <<worker, store, blind>> => PageForgets'
           /\ UNCHANGED <<store, blind>> => MirrorCaught'
           /\ UNCHANGED <<store, blind, worker, conn, subGen>> => MirrorComplete'
<1> USE DEF tables, store
<1>1. UNCHANGED cursor => RowsNumbered'
  BY DEF FeedInv, RowsNumbered
<1>2. UNCHANGED thread => AckedStand'
  BY DEF FeedInv, AckedStand, Acked, Stands, Touches
<1>3. UNCHANGED worker => QuerySound' /\ PageSound'
  BY DEF FeedInv, QuerySound, PageSound, Predates, Follows, Ahead, Beyond, Paged
<1>4. UNCHANGED <<worker, thread, blind>> => PageKeepsAcked'
  BY DEF FeedInv, PageKeepsAcked, Beyond, Paged, Acked, Touches
<1>5. UNCHANGED <<worker, store, blind>> => PageForgets'
  BY DEF FeedInv, PageForgets, Beyond, Paged
<1>6. UNCHANGED <<store, blind>> => MirrorCaught'
  BY DEF FeedInv, MirrorCaught, Caught, Predates, Follows
<1>7. UNCHANGED <<store, blind, worker, conn, subGen>> => MirrorComplete'
  BY DEF FeedInv, MirrorComplete, Complete, Passed
<1> QED
  BY <1>1, <1>2, <1>3, <1>4, <1>5, <1>6, <1>7

LEMMA OthersKept ==
    ASSUME FeedInv
    PROVE  /\ UNCHANGED <<store, blind>> => MirrorBehind'
           /\ UNCHANGED <<subGen, conn, worker, link, lastRev, target>> => SubHears'
           /\ UNCHANGED <<worker, wake, cursor, target, conn, subGen, fresh>> => FreshSound'
           /\ worker'.pc # "query" => QuerySound'
           /\ worker'.pc # "page" => PageSound' /\ PageKeepsAcked' /\ PageForgets'
<1>1. UNCHANGED <<store, blind>> => MirrorBehind'
  BY DEF FeedInv, MirrorBehind, store
<1>2. UNCHANGED <<subGen, conn, worker, link, lastRev, target>> => SubHears'
  BY DEF FeedInv, SubHears, link
<1>3. UNCHANGED <<worker, wake, cursor, target, conn, subGen, fresh>> => FreshSound'
  BY DEF FeedInv, FreshSound
<1>4. worker'.pc # "query" => QuerySound'
  BY DEF QuerySound
<1>5. worker'.pc # "page" => PageSound' /\ PageKeepsAcked' /\ PageForgets'
  BY DEF PageSound, PageKeepsAcked, PageForgets
<1> QED
  BY <1>1, <1>2, <1>3, <1>4, <1>5

-----------------------------------------------------------------------------
(* Commits and prunes.                                                     *)

\* A commit stamps rows with a revision no cursor, page or acknowledgement has.
Stamps == \A p \in Path : row'[p] = row[p] \/ (row'[p].kind # "none" /\ row'[p].rev = NewRev)

LEMMA WorkerNumbers ==
    ASSUME TypeOK
    PROVE  /\ worker.pc = "query" => worker.from.rev \in Nat /\ worker.last \in Nat
           /\ worker.pc = "page" =>
                /\ worker.from.rev \in Nat /\ worker.next.rev \in Nat
                /\ worker.from.path \in Nat /\ worker.next.path \in Nat
                /\ worker.full \in BOOLEAN
                /\ \A p \in Paged : /\ p \in Path /\ worker.rows[p] \in FeedRows
                                    /\ worker.rows[p].rev \in Nat
                                    /\ worker.rows[p].kind \in {"live", "tombstone"}
           /\ worker.pc = "applied" => worker.rev \in Nat
<1>1. Rev \subseteq Nat
  BY Constants DEF Rev
<1>2. worker \in Pass
  BY TypeParts
<1>3. CASE worker.pc = "page"
  <2>1. worker.from \in Cursor /\ worker.next \in Cursor /\ worker.full \in BOOLEAN
        /\ \E S \in SUBSET Path : worker.rows \in [S -> FeedRows]
    BY <1>2, <1>3, PassFields
  <2>2. ASSUME NEW p \in Paged PROVE p \in Path /\ worker.rows[p] \in FeedRows
    BY <2>1, <2>2 DEF Paged
  <2>3. ASSUME NEW r \in FeedRows PROVE r.rev \in Nat /\ r.kind \in {"live", "tombstone"}
    BY <1>1, <2>3 DEF FeedRows, Version
  <2> QED
    BY <1>3, <2>1, <2>2, <2>3, CursorFields
<1> QED
  BY <1>1, <1>2, <1>3, PassFields, CursorFields

LEMMA CommitInv ==
    ASSUME TypeOK, TypeOK', FeedInv, NEW rows, Commit(rows), Stamps,
           UNCHANGED <<conn, store, atomics, wake, worker, blind>>
    PROVE  /\ RowsNumbered' /\ SubHears' /\ QuerySound' /\ PageSound' /\ PageForgets'
           /\ MirrorBehind' /\ MirrorCaught' /\ MirrorComplete' /\ FreshSound'
           /\ \A p \in Path : row'[p].kind = "none" => row[p].kind = "none"
           /\ \A o : \A p \in Path : o.rev \in Nat /\ o.rev <= lastRev /\ Stands(o, p) => Stands(o, p)'
<1> USE TypeParts
<1>1. /\ lastRev' = lastRev + 1 /\ prunedBefore' = prunedBefore /\ sub' = sub
      /\ ringing' = ringing \union {lastRev + 1}
      /\ UNCHANGED <<conn, mirror, cursor, target, fresh, subGen, wake, worker, blind>>
  BY DEF Commit, NewRev, store, atomics
<1>2. \A p \in Path : row'[p] = row[p] \/ (row'[p].kind # "none" /\ row'[p].rev = lastRev + 1)
  BY DEF Stamps, NewRev
<1>3. \A p \in Path : row[p].rev \in Nat /\ (row[p].kind # "none" => row[p].rev <= lastRev)
  BY RowFields DEF FeedInv, RowsNumbered
<1>4. RowsNumbered'
  BY <1>1, <1>2, <1>3 DEF FeedInv, RowsNumbered
<1>5. SubHears'
  BY <1>1 DEF FeedInv, SubHears
<1>6. QuerySound'
  BY <1>1, WorkerNumbers DEF FeedInv, QuerySound, Predates
<1>7. PageSound'
  <2> SUFFICES ASSUME worker.pc = "page" PROVE PageSound'
    BY <1>1 DEF PageSound
  <2>1. worker.next.rev <= lastRev /\ worker.next.rev \in Nat
    BY WorkerNumbers DEF FeedInv, PageSound
  <2>2. \A p \in Path : row'[p] = row[p] \/ (row'[p].kind # "none" /\ row'[p].rev > worker.next.rev)
    BY <1>1, <1>2, <2>1
  <2>3. \A p \in Path : row'[p].rev > worker.next.rev /\ row'[p].kind # "none" => Ahead(p)'
    BY <1>1 DEF Ahead, Follows
  <2>4. \A p \in Path : row'[p] = row[p] => (Ahead(p)' <=> Ahead(p)) /\ (Follows(p, worker.from)' <=> Follows(p, worker.from))
    BY <1>1 DEF Ahead, Follows
  <2>5. Beyond' <=> Beyond
    BY <1>1 DEF Beyond
  <2> HIDE DEF Ahead, Beyond, Follows
  <2>6. \A p \in Path : row'[p].kind # "none" /\ Follows(p, worker.from)' =>
                           Ahead(p)' \/ (p \in Paged /\ worker.rows[p] = row'[p])
    BY <2>2, <2>3, <2>4 DEF FeedInv, PageSound
  <2>7. \A p \in Paged :
               \/ worker.rows[p] = row'[p]
               \/ row'[p].kind # "none" /\ Ahead(p)'
               \/ row'[p].kind = "none" /\ (worker.rows[p].kind = "tombstone" \/ Beyond')
    BY <2>2, <2>3, <2>4, <2>5, WorkerNumbers DEF FeedInv, PageSound
  <2> QED
    BY <1>1, <2>1, <2>6, <2>7 DEF FeedInv, PageSound, Paged
<1>8. PageForgets'
  <2>1. \A p \in Path : row'[p].kind = "none" => row[p].kind = "none"
    BY <1>2
  <2>2. Beyond' <=> Beyond
    BY <1>1 DEF Beyond
  <2> QED
    BY <1>1, <2>1, <2>2 DEF FeedInv, PageForgets, Paged
<1>9. MirrorBehind'
  BY OthersKept DEF store
<1>10. ASSUME NEW p \in Path, Caught(p) PROVE Caught(p)'
  BY <1>1, <1>2, <1>3, <1>10 DEF FeedInv, RowsNumbered, Caught, Predates, Follows
<1>11. ASSUME NEW p \in Path, Complete(p) PROVE Complete(p)'
  BY <1>1, <1>2, <1>3, <1>11 DEF FeedInv, RowsNumbered, Complete
<1>12. MirrorCaught' /\ MirrorComplete' /\ FreshSound'
  BY <1>1, <1>10, <1>11 DEF FeedInv, MirrorCaught, MirrorComplete, FreshSound, Passed
<1>13. ASSUME NEW o, NEW p \in Path, o.rev \in Nat, o.rev <= lastRev, Stands(o, p) PROVE Stands(o, p)'
  BY <1>1, <1>2, <1>3, <1>13 DEF Stands
<1> QED
  BY <1>2, <1>4, <1>5, <1>6, <1>7, <1>8, <1>9, <1>12, <1>13

LEMMA OtherMutationKeeps ==
    ASSUME TypeOK, TypeOK', FeedInv, OtherMutation
    PROVE  FeedInv'
<1>1. PICK rows : Commit(rows) /\ Stamps
  <2>1. PICK p \in Path : Commit(Written(p)) \/ Commit(Deleted(p))
    BY DEF OtherMutation
  <2>2. row \in [Path -> FeedRows \union {Nothing}]
    BY DEF TypeOK
  <2>3. CASE Commit(Written(p))
    BY <2>2, <2>3 DEF Commit, Written, Stamps, Live
  <2>4. CASE Commit(Deleted(p))
    BY <2>2, <2>4 DEF Commit, Deleted, Stamps, Tombstone
  <2> QED
    BY <2>1, <2>3, <2>4
<1>2. UNCHANGED <<conn, store, atomics, wake, worker, blind, thread>>
  BY DEF OtherMutation
<1>3. /\ RowsNumbered' /\ SubHears' /\ QuerySound' /\ PageSound' /\ PageForgets'
      /\ MirrorBehind' /\ MirrorCaught' /\ MirrorComplete' /\ FreshSound'
      /\ \A p \in Path : row'[p].kind = "none" => row[p].kind = "none"
      /\ \A o : \A p \in Path : o.rev \in Nat /\ o.rev <= lastRev /\ Stands(o, p) => Stands(o, p)'
  BY <1>1, <1>2, CommitInv
<1>4. lastRev' = lastRev + 1 /\ prunedBefore' = prunedBefore /\ lastRev \in Nat
  BY <1>1, TypeParts DEF Commit, NewRev
<1>5. \A t \in Thread : Acked(t) => /\ thread[t].rev \in Nat /\ Touches(thread[t]) \subseteq Path
  BY TypeParts, OperationFields DEF Acked, Touches
<1>6. AckedStand'
  BY <1>2, <1>3, <1>4, <1>5 DEF FeedInv, AckedStand, Acked, Touches
<1>7. PageKeepsAcked'
  BY <1>2, <1>3, <1>4, <1>5 DEF FeedInv, PageKeepsAcked, Acked, Touches, Beyond, Paged
<1> QED
  BY <1>3, <1>6, <1>7 DEF FeedInv

LEMMA ServeKeeps ==
    ASSUME TypeOK, TypeOK', FeedInv, NEW t \in Thread, Serve(t)
    PROVE  FeedInv'
<1> DEFINE o == thread[t]
<1>1. o.path \in Path /\ o.op \in {"put", "delete", "unlink", "rename"} /\ (o.op = "rename" => o.to \in Path)
  BY TypeParts, OperationFields DEF Serve
<1>2. row \in [Path -> FeedRows \union {Nothing}]
  BY DEF TypeOK
<1>3. UNCHANGED <<conn, store, atomics, wake, worker, blind>>
  BY DEF Serve
<1>4. /\ thread'[t] = [rev |-> NewRev, path |-> o.path, op |-> o.op, pc |-> "acked",
                       to |-> IF o.op = "rename" THEN o.to ELSE o.path]
      /\ \A u \in Thread \ {t} : thread'[u] = thread[u]
  BY DEF Serve, TypeOK
<1> DEFINE n == thread'[t]
<1>5. n.rev = NewRev /\ n.op = o.op /\ n.path = o.path /\ n.to = (IF o.op = "rename" THEN o.to ELSE o.path)
  BY <1>4
<1>6. \E rows : /\ Commit(rows) /\ Stamps
                /\ \A p \in {n.path, n.to} : row'[p].kind # "none" /\ row'[p].rev = NewRev
                /\ o.op # "rename" => row'[o.path] = (IF o.op = "put" THEN Live(NewRev, NewRev) ELSE Tombstone(NewRev))
  <2>1. CASE o.op = "put" /\ Commit(Written(o.path))
    <3>1. row' = [row EXCEPT ![o.path] = Live(NewRev, NewRev)]
      BY <2>1 DEF Commit, Written
    <3> HIDE DEF n
    <3> QED
      BY <1>1, <1>2, <1>5, <2>1, <3>1 DEF Stamps, Live
  <2>2. CASE o.op \in {"delete", "unlink"} /\ Commit(Deleted(o.path))
    <3>1. row' = [row EXCEPT ![o.path] = Tombstone(NewRev)]
      BY <2>2 DEF Commit, Deleted
    <3> HIDE DEF n
    <3> QED
      BY <1>1, <1>2, <1>5, <2>2, <3>1 DEF Stamps, Tombstone
  <2>3. CASE o.op = "rename" /\ Commit(Moved(o.path, o.to))
    <3>1. row' = [row EXCEPT ![o.path] = Tombstone(NewRev), ![o.to] = Live(NewRev, row[o.path].val)]
      BY <2>3 DEF Commit, Moved
    <3> HIDE DEF n
    <3> QED
      BY <1>1, <1>2, <1>5, <2>3, <3>1 DEF Stamps, Tombstone, Live
  <2> QED
    BY <2>1, <2>2, <2>3 DEF Serve
<1> HIDE DEF o, n
<1>7. /\ RowsNumbered' /\ SubHears' /\ QuerySound' /\ PageSound' /\ PageForgets'
      /\ MirrorBehind' /\ MirrorCaught' /\ MirrorComplete' /\ FreshSound'
      /\ \A p \in Path : row'[p].kind = "none" => row[p].kind = "none"
      /\ \A m : \A p \in Path : m.rev \in Nat /\ m.rev <= lastRev /\ Stands(m, p) => Stands(m, p)'
  BY <1>3, <1>6, CommitInv
<1>8. lastRev' = lastRev + 1 /\ prunedBefore' = prunedBefore /\ lastRev \in Nat /\ NewRev = lastRev + 1
  BY <1>6, TypeParts DEF Commit, NewRev
<1>9. \A u \in Thread : Acked(u) => /\ thread[u].rev \in Nat /\ Touches(thread[u]) \subseteq Path
  BY TypeParts, OperationFields DEF Acked, Touches
<1>10. n.to \in Path /\ n.path \in Path
  BY <1>1, <1>5
<1>11. AckedStand'
  <2>1. ASSUME NEW u \in Thread \ {t}, Acked(u)'
        PROVE  /\ thread'[u].rev <= lastRev'
               /\ thread'[u].op # "rename" => thread'[u].to = thread'[u].path
               /\ \A p \in Touches(thread'[u]) : Stands(thread[u], p)'
    BY <1>4, <1>7, <1>8, <1>9, <2>1 DEF FeedInv, AckedStand, Acked, Touches
  <2>2. n.rev <= lastRev' /\ (n.op # "rename" => n.to = n.path)
    BY <1>5, <1>8
  <2>3. \A p \in {n.path, n.to} : Stands(thread[t], p)'
    BY <1>5, <1>6, <1>10 DEF Stands, Effect, n
  <2> QED
    BY <2>1, <2>2, <2>3 DEF AckedStand, Touches, n
<1>12. PageKeepsAcked'
  <2> SUFFICES ASSUME worker.pc = "page", NEW u \in Thread, Acked(u)', NEW p \in Touches(thread'[u]) \ Paged,
                      row'[p].kind = "none", 0 < worker.from.rev, worker.from.rev < thread'[u].rev,
                      thread'[u].rev <= worker.next.rev
               PROVE  Beyond' \/ blind' = Path
    BY <1>3 DEF PageKeepsAcked, Paged
  <2>1. CASE u = t
    BY <1>6, <2>1 DEF Touches, n
  <2>2. CASE u # t
    <3>1. Acked(u) /\ thread'[u] = thread[u] /\ p \in Path /\ row[p].kind = "none"
      BY <1>4, <1>7, <1>9, <2>2 DEF Acked
    <3> QED
      BY <1>3, <1>8, <3>1 DEF FeedInv, PageKeepsAcked, Beyond
  <2> QED
    BY <2>1, <2>2
<1> QED
  BY <1>7, <1>11, <1>12 DEF FeedInv

\* A prune forgets tombstones below the watermark it leaves.
LEMMA PruneKeeps ==
    ASSUME TypeOK, TypeOK', FeedInv, pruneTombstones
    PROVE  FeedInv'
<1> USE TypeParts
<1>1. /\ \A p \in Path : \/ row'[p] = row[p]
                         \/ row[p].kind = "tombstone" /\ row'[p] = Nothing /\ prunedBefore' > row[p].rev
      /\ prunedBefore' >= prunedBefore /\ prunedBefore' <= lastRev + 1
  <2>1. PICK r \in Path :
           LET old == {q \in Path : row[q].kind = "tombstone" /\ row[q].rev <= row[r].rev} IN
           /\ r \in old
           /\ row' = [q \in Path |-> IF q \in old THEN Nothing ELSE row[q]]
           /\ prunedBefore' = Larger(prunedBefore, Watermark(row[r].rev))
    BY DEF pruneTombstones
  <2>2. row[r].rev \in Nat /\ row[r].rev <= lastRev
    BY <2>1, RowFields DEF FeedInv, RowsNumbered
  <2>3. prunedBefore' >= prunedBefore /\ prunedBefore' > row[r].rev /\ prunedBefore' <= lastRev + 1
    BY <2>1, <2>2 DEF Larger, Watermark, FeedInv, RowsNumbered
  <2>4. ASSUME NEW p \in Path
        PROVE  \/ row'[p] = row[p]
               \/ row[p].kind = "tombstone" /\ row'[p] = Nothing /\ prunedBefore' > row[p].rev
    <3>1. row[p].rev \in Nat
      BY RowFields
    <3>2. prunedBefore' \in Nat
      BY DEF TypeOK
    <3> QED
      BY <2>1, <2>2, <2>3, <3>1, <3>2
  <2> QED
    BY <2>3, <2>4
<1>2. UNCHANGED <<lastRev, conn, ringing, sub, mirror, cursor, target, fresh, subGen, wake, worker, blind, thread>>
  BY DEF pruneTombstones, link, store, atomics
<1>3. \A p \in Path : row[p].rev \in Nat /\ (row[p].kind # "none" => row[p].rev > 0)
  BY RowFields
<1>4. Nothing.kind = "none"
  BY DEF Nothing
<1>5. RowsNumbered'
  BY <1>1, <1>2, <1>4 DEF FeedInv, RowsNumbered
<1>6. SubHears' /\ FreshSound' /\ MirrorBehind'
  BY <1>2, OthersKept DEF link, store
<1>7. prunedBefore' \in Nat
  BY DEF TypeOK
<1>8. AckedStand'
  <2>1. \A t \in Thread : Acked(t) => thread[t].rev \in Nat /\ Touches(thread[t]) \subseteq Path
    BY OperationFields DEF Acked, Touches
  <2>2. ASSUME NEW t \in Thread, Acked(t), NEW p \in Touches(thread[t]) PROVE Stands(thread[t], p)'
    <3>1. Stands(thread[t], p) /\ thread[t].rev \in Nat /\ p \in Path
      BY <2>1, <2>2 DEF FeedInv, AckedStand
    <3> QED
      BY <1>1, <1>2, <1>3, <1>4, <1>7, <3>1 DEF Stands
  <2> QED
    BY <1>2, <2>2 DEF FeedInv, AckedStand, Acked, Touches
<1>9. QuerySound'
  <2> SUFFICES ASSUME worker.pc = "query" PROVE QuerySound'
    BY <1>2 DEF QuerySound
  <2>1. worker.from.rev \in Nat /\ worker.horizon \in Nat
    BY WorkerNumbers, PassFields
  <2>2. worker.horizon <= prunedBefore /\ (prunedBefore = worker.horizon => ~Predates(worker.from.rev))
    BY DEF FeedInv, QuerySound
  <2>3. prunedBefore' = worker.horizon => ~(0 < worker.from.rev /\ worker.from.rev < prunedBefore')
    BY <1>1, <1>2, <1>7, <2>1, <2>2 DEF Predates
  <2>4. worker.horizon <= prunedBefore'
    BY <1>1, <1>7, <2>1, <2>2
  <2> QED
    BY <1>2, <2>3, <2>4 DEF FeedInv, QuerySound, Predates
<1>10. ASSUME worker.pc = "page" PROVE Beyond => Beyond'
  BY <1>1, <1>2, <1>7, <1>10, WorkerNumbers DEF Beyond
<1>11. ASSUME worker.pc = "page", NEW p \in Path, row[p].kind # "none", row'[p].kind = "none", Ahead(p) PROVE Beyond'
  <2>1. row[p].rev >= worker.next.rev /\ (~worker.full => row[p].rev > worker.next.rev)
    BY <1>3, <1>11, WorkerNumbers DEF Ahead, Follows
  <2>2. prunedBefore' > row[p].rev
    BY <1>1, <1>11
  <2> QED
    BY <1>2, <1>3, <1>7, <1>11, <2>1, <2>2, WorkerNumbers DEF Beyond
<1>12. PageSound'
  <2> SUFFICES ASSUME worker.pc = "page" PROVE PageSound'
    BY <1>2 DEF PageSound
  <2>1. \A p \in Path : row'[p].kind # "none" =>
            row'[p] = row[p] /\ (Ahead(p)' <=> Ahead(p)) /\ (Follows(p, worker.from)' <=> Follows(p, worker.from))
    BY <1>1, <1>2, <1>4 DEF Ahead, Follows
  <2>2. \A p \in Path : row'[p].kind # "none" /\ Follows(p, worker.from)' =>
                           Ahead(p)' \/ (p \in Paged /\ worker.rows[p] = row'[p])
    BY <2>1 DEF FeedInv, PageSound
  <2>3. ASSUME NEW p \in Paged
        PROVE  \/ worker.rows[p] = row'[p]
               \/ row'[p].kind # "none" /\ Ahead(p)'
               \/ row'[p].kind = "none" /\ (worker.rows[p].kind = "tombstone" \/ Beyond')
    <3>1. p \in Path
      BY WorkerNumbers
    <3>2. \/ worker.rows[p] = row[p]
          \/ row[p].kind # "none" /\ Ahead(p)
          \/ row[p].kind = "none" /\ (worker.rows[p].kind = "tombstone" \/ Beyond)
      BY DEF FeedInv, PageSound
    <3>3. CASE row'[p] = row[p]
      BY <1>10, <2>1, <3>1, <3>2, <3>3
    <3>4. CASE row[p].kind = "tombstone" /\ row'[p].kind = "none"
      BY <1>11, <3>1, <3>2, <3>4
    <3> QED
      BY <1>1, <1>4, <3>1, <3>3, <3>4
  <2> QED
    BY <1>2, <2>2, <2>3 DEF FeedInv, PageSound, Paged
<1>13. \A p \in Path : Caught(p) => Caught(p)'
  <2> SUFFICES ASSUME NEW p \in Path, Caught(p) PROVE Caught(p)'
    OBVIOUS
  <2>1. CASE row'[p] = row[p]
    BY <1>1, <1>2, <1>7, <2>1 DEF Caught, Follows, Predates
  <2>2. CASE row[p].kind = "tombstone" /\ row'[p] = Nothing /\ prunedBefore' > row[p].rev
    <3>1. CASE Follows(p, cursor)
      BY <1>2, <1>3, <1>4, <1>7, <2>2, <3>1 DEF FeedInv, RowsNumbered, Caught, Follows, Predates
    <3>2. CASE mirror[p] = Image(row[p])
      BY <1>2, <1>4, <2>2, <3>2 DEF Caught, Image
    <3> QED
      BY <2>2, <3>1, <3>2 DEF Caught
  <2> QED
    BY <1>1, <2>1, <2>2
<1>14. \A p \in Path : Complete(p) => Complete(p)'
  <2> SUFFICES ASSUME NEW p \in Path, Complete(p) PROVE Complete(p)'
    OBVIOUS
  <2>1. CASE row'[p] = row[p]
    BY <1>1, <1>2, <1>7, <2>1 DEF Complete
  <2>2. CASE row[p].kind = "tombstone" /\ row'[p] = Nothing /\ prunedBefore' > row[p].rev
    BY <1>2, <1>3, <1>4, <1>7, <2>2 DEF Complete, Image
  <2> QED
    BY <1>1, <2>1, <2>2
<1>15. MirrorCaught' /\ MirrorComplete'
  BY <1>2, <1>13, <1>14 DEF FeedInv, MirrorCaught, MirrorComplete, Passed
<1>16. PageKeepsAcked'
  <2> SUFFICES ASSUME worker.pc = "page", NEW t \in Thread, Acked(t), NEW p \in Touches(thread[t]) \ Paged,
                      row'[p].kind = "none", 0 < worker.from.rev, worker.from.rev < thread[t].rev,
                      thread[t].rev <= worker.next.rev
               PROVE  Beyond' \/ blind = Path
    BY <1>2 DEF PageKeepsAcked, Paged, Acked, Touches
  <2>1. p \in Path /\ thread[t].rev \in Nat /\ Stands(thread[t], p)
    BY OperationFields DEF Acked, Touches, FeedInv, AckedStand
  <2>2. CASE row[p].kind = "none"
    BY <1>10, <2>2 DEF FeedInv, PageKeepsAcked
  <2>3. CASE row[p].kind # "none"
    <3>1. row[p].rev > worker.from.rev
      BY <1>3, <2>1, <2>3, WorkerNumbers DEF Stands
    <3>2. Follows(p, worker.from)
      BY <2>3, <3>1 DEF Follows
    <3>3. Ahead(p)
      BY <2>1, <2>3, <3>2 DEF FeedInv, PageSound
    <3> QED
      BY <1>11, <2>1, <2>3, <3>3
  <2> QED
    BY <2>2, <2>3
<1>17. PageForgets'
  <2> SUFFICES ASSUME worker.pc = "page", cursor = worker.from, 0 < cursor.rev,
                      NEW p \in Path \ (blind \union Paged), row'[p].kind = "none"
               PROVE  mirror[p] = Missing \/ Beyond'
    BY <1>2 DEF PageForgets, Paged
  <2>1. CASE row[p].kind = "none"
    BY <1>10, <2>1 DEF FeedInv, PageForgets
  <2>2. CASE row[p].kind # "none"
    <3>1. row[p].kind = "tombstone"
      BY <1>1, <2>2
    <3>2. Caught(p)
      BY DEF FeedInv, MirrorCaught
    <3>3. CASE Follows(p, cursor)
      <4>1. Ahead(p)
        BY <2>2, <3>3 DEF FeedInv, PageSound
      <4> QED
        BY <1>11, <2>2, <4>1
    <3>4. CASE mirror[p] = Image(row[p])
      BY <3>1, <3>4 DEF Image
    <3> QED
      BY <2>2, <3>2, <3>3, <3>4 DEF Caught
  <2> QED
    BY <2>1, <2>2
<1> QED
  BY <1>5, <1>6, <1>8, <1>9, <1>12, <1>15, <1>16, <1>17 DEF FeedInv

-----------------------------------------------------------------------------
(* Doorbells and the connection.                                           *)

LEMMA RingKeeps ==
    ASSUME TypeOK, TypeOK', FeedInv, Ring
    PROVE  FeedInv'
<1> USE TypeParts
<1>1. UNCHANGED <<tables, conn, store, applied, subGen, pending, worker, thread, blind>>
  BY DEF Ring, Notify, changesEventPump, atomics
<1>2. /\ RowsNumbered' /\ AckedStand' /\ QuerySound' /\ PageSound' /\ PageKeepsAcked' /\ PageForgets'
      /\ MirrorCaught' /\ MirrorComplete' /\ MirrorBehind'
  BY <1>1, TablesKept, OthersKept DEF store
<1>3. CASE \E rev \in ringing : Notify(rev)
  <2>1. PICK rev \in ringing : Notify(rev)
    BY <1>3
  <2>2. rev \in Nat
    BY Constants DEF TypeOK, Rev
  <2>3. /\ ringing' = ringing \ {rev}
        /\ sub.on => sub'.on /\ sub'.signal /\ sub'.rev >= sub.rev /\ sub'.rev >= rev
        /\ ~sub.on => sub' = sub
        /\ UNCHANGED <<target, wake, fresh>>
    BY <2>1, <2>2, LargerFacts DEF Notify, atomics
  <2>4. sub'.rev \in Nat
    BY Constants DEF TypeOK, Rev
  <2>5. SubHears'
    BY <1>1, <2>2, <2>3, <2>4 DEF FeedInv, SubHears, tables
  <2>6. FreshSound'
    BY <1>1, <2>3, OthersKept DEF store
  <2> QED
    BY <1>2, <2>5, <2>6 DEF FeedInv
<1>4. CASE changesEventPump
  <2>1. /\ sub.signal /\ sub' = [sub EXCEPT !.signal = FALSE] /\ ringing' = ringing
        /\ target' = Larger(target, sub.rev) /\ wake' = TRUE
    BY <1>4 DEF changesEventPump, note_target
  <2>2. sub'.on = sub.on /\ target' >= target /\ target' >= sub.rev /\ target' \in Nat
    BY <2>1, LargerFacts DEF TypeOK
  <2>3. SubHears'
    BY <1>1, <2>1, <2>2 DEF FeedInv, SubHears, tables
  <2>4. FreshSound'
    BY <1>1, <2>1 DEF FeedInv, FreshSound, store
  <2> QED
    BY <1>2, <2>3, <2>4 DEF FeedInv
<1> QED
  BY <1>3, <1>4 DEF Ring

LEMMA DialKeeps ==
    ASSUME TypeOK, TypeOK', FeedInv, Dial
    PROVE  FeedInv'
<1> USE TypeParts
<1>1. /\ UNCHANGED <<tables, link, store, atomics, wake, worker, thread, blind>>
      /\ ~conn.up /\ conn'.gen = conn.gen + 1
  BY DEF Dial
<1>2. /\ RowsNumbered' /\ AckedStand' /\ QuerySound' /\ PageSound' /\ PageKeepsAcked' /\ PageForgets'
      /\ MirrorCaught' /\ MirrorBehind'
  BY <1>1, TablesKept, OthersKept DEF store
<1>3. subGen' # conn'.gen /\ subGen' <= conn'.gen
  BY <1>1 DEF FeedInv, SubHears, atomics
<1>4. SubHears'
  <2>1. worker.pc \in {"subscribe", "subscribed"} => worker.gen \in Nat
    BY PassFields
  <2> QED
    BY <1>1, <1>3, <2>1 DEF FeedInv, SubHears, link, atomics
<1>5. MirrorComplete' /\ FreshSound'
  BY <1>1, <1>3 DEF FeedInv, MirrorComplete, FreshSound, Passed, Complete, tables, store, atomics
<1> QED
  BY <1>2, <1>4, <1>5 DEF FeedInv

LEMMA DisconnectKeeps ==
    ASSUME TypeOK, TypeOK', FeedInv, Disconnect
    PROVE  FeedInv'
<1> USE TypeParts
<1>1. /\ UNCHANGED <<tables, ringing, store, atomics, wake, blind>>
      /\ ~conn'.up /\ conn'.gen = conn.gen
      /\ worker' = IF worker.pc \in {"subscribe", "subscribed", "state", "query"} THEN Idle ELSE worker
  BY DEF Disconnect
<1>2. RowsNumbered' /\ MirrorCaught' /\ MirrorBehind'
  BY <1>1, TablesKept, OthersKept DEF store
<1>3. \A t \in Thread : Acked(t)' => Acked(t) /\ thread'[t] = thread[t]
  <2> SUFFICES ASSUME NEW t \in Thread, Acked(t)' PROVE Acked(t) /\ thread'[t] = thread[t]
    OBVIOUS
  <2>1. thread'[t] = IF thread[t].pc \in {"sent", "acked"} /\ thread[t].op = "unlink" THEN [thread[t] EXCEPT !.pc = "failed"]
                     ELSE IF thread[t].pc = "sent" THEN Idle ELSE thread[t]
    BY DEF Disconnect
  <2>2. CASE thread[t].pc = "sent" /\ thread[t].op = "unlink"
    <3>1. thread[t] \in [pc : {"sent"}, op : {"put", "delete", "unlink"}, path : Path]
      BY <2>2, OperationFields
    <3> QED
      BY <2>1, <2>2, <3>1 DEF Acked
  <2>3. CASE thread[t].pc = "acked" /\ thread[t].op = "unlink"
    <3>1. thread[t] \in [pc : {"acked"}, op : {"put", "delete", "rename", "unlink"}, path : Path, to : Path, rev : Version]
      BY <2>3, OperationFields
    <3> QED
      BY <2>1, <2>3, <3>1 DEF Acked
  <2>4. CASE ~(thread[t].pc \in {"sent", "acked"} /\ thread[t].op = "unlink") /\ thread[t].pc = "sent"
    BY <2>1, <2>4 DEF Acked, Idle
  <2>5. CASE ~(thread[t].pc \in {"sent", "acked"} /\ thread[t].op = "unlink") /\ thread[t].pc # "sent"
    BY <2>1, <2>5 DEF Acked
  <2> QED
    BY <2>2, <2>3, <2>4, <2>5
<1>4. AckedStand'
  BY <1>1, <1>3 DEF FeedInv, AckedStand, Touches, Stands, tables
<1>5. Idle.pc = "idle"
  BY DEF Idle
<1>6. QuerySound' /\ PageSound' /\ PageKeepsAcked' /\ PageForgets'
  <2>1. CASE worker'.pc = "page"
    <3>1. worker' = worker /\ worker.pc = "page"
      BY <1>1, <1>5, <2>1
    <3>2. PageKeepsAcked'
      BY <1>1, <1>3, <3>1 DEF FeedInv, PageKeepsAcked, Touches, Beyond, Paged, tables
    <3> QED
      BY <1>1, <3>1, <3>2, TablesKept DEF store
  <2>2. CASE worker'.pc # "page"
    <3>1. worker'.pc # "query"
      BY <1>1, <1>5
    <3> QED
      BY <2>2, <3>1, OthersKept
  <2> QED
    BY <2>1, <2>2
<1>7. SubHears'
  BY <1>1, <1>5 DEF FeedInv, SubHears, atomics
<1>8. MirrorComplete'
  BY <1>1, <1>5 DEF FeedInv, MirrorComplete, Passed, Complete, tables, store
<1>9. FreshSound'
  BY <1>1, <1>5 DEF FeedInv, FreshSound, store, atomics
<1> QED
  BY <1>2, <1>4, <1>6, <1>7, <1>8, <1>9 DEF FeedInv

-----------------------------------------------------------------------------
(* The sync worker.                                                        *)

LEMMA SubscribeKeeps ==
    ASSUME TypeOK, TypeOK', FeedInv, SyncStart \/ SubscribeRegister \/ SubscribeReply
    PROVE  FeedInv'
<1> USE TypeParts
<1>1. UNCHANGED <<tables, conn, store, ringing, thread, blind>>
  BY DEF SyncStart, SubscribeRegister, SubscribeReply, link
<1>2. worker'.pc \in {"subscribe", "subscribed", "state"}
  <2>1. CASE SubscribeRegister
    <3>1. worker \in [pc : {"subscribe", "subscribed"}, gen : Nat]
      BY <2>1, PassFields DEF SubscribeRegister
    <3> QED
      BY <2>1, <3>1 DEF SubscribeRegister, Goto
  <2> QED
    BY <2>1 DEF SyncStart, SubscribeReply
<1>3. /\ RowsNumbered' /\ AckedStand' /\ QuerySound' /\ PageSound' /\ PageKeepsAcked' /\ PageForgets'
      /\ MirrorCaught' /\ MirrorBehind'
  BY <1>1, <1>2, TablesKept, OthersKept DEF store
<1>4. MirrorComplete' /\ FreshSound'
  BY <1>2 DEF MirrorComplete, FreshSound, Passed
<1>5. CASE SyncStart
  <2>1. /\ worker' = IF subGen # conn.gen THEN [pc |-> "subscribe", gen |-> conn.gen] ELSE [pc |-> "state"]
        /\ UNCHANGED <<sub, target, subGen>>
    BY <1>5 DEF SyncStart, link
  <2>2. SubHears'
    BY <1>1, <2>1 DEF FeedInv, SubHears, tables
  <2> QED
    BY <1>3, <1>4, <2>2 DEF FeedInv
<1>6. CASE SubscribeRegister
  <2>1. worker \in [pc : {"subscribe", "subscribed"}, gen : Nat] /\ worker.pc = "subscribe"
    BY <1>6, PassFields DEF SubscribeRegister
  <2>2. worker'.gen = worker.gen /\ worker'.pc = "subscribed"
    BY <1>6, <2>1 DEF SubscribeRegister, Goto
  <2>3. sub'.on /\ conn.up /\ UNCHANGED <<target, subGen>>
    BY <1>6 DEF SubscribeRegister, atomics
  <2>4. SubHears'
    BY <1>1, <2>1, <2>2, <2>3 DEF FeedInv, SubHears, tables
  <2> QED
    BY <1>3, <1>4, <2>4 DEF FeedInv
<1>7. CASE SubscribeReply
  <2>1. worker.gen \in Nat /\ worker.pc = "subscribed"
    BY <1>7, PassFields DEF SubscribeReply
  <2>2. /\ subGen' = worker.gen /\ worker'.pc = "state" /\ sub' = sub
        /\ target' >= lastRev
    BY <1>7, LargerFacts DEF SubscribeReply, link
  <2>3. SubHears'
    BY <1>1, <2>1, <2>2 DEF FeedInv, SubHears, tables
  <2> QED
    BY <1>3, <1>4, <2>3 DEF FeedInv
<1> QED
  BY <1>5, <1>6, <1>7

LEMMA FetchStateKeeps ==
    ASSUME TypeOK, TypeOK', FeedInv, FetchState \/ Resync
    PROVE  FeedInv'
<1> USE TypeParts
<1>1. UNCHANGED <<tables, link, conn, target, subGen, thread, wake, blind>> /\ worker.pc \in {"state", "resync"}
  BY DEF FetchState, Resync, atomics
<1>2. worker'.pc \in {"state", "resync", "query"}
  <2>1. CASE Resync
    <3>1. worker \in [pc : {"state", "resync"}]
      BY <2>1, PassFields DEF Resync
    <3> QED
      BY <2>1, <3>1 DEF Resync, Goto
  <2> QED
    BY <2>1 DEF FetchState
<1>3. AckedStand' /\ PageSound' /\ PageKeepsAcked' /\ PageForgets'
  BY <1>1, <1>2, TablesKept, OthersKept
<1>4. SubHears' /\ MirrorComplete' /\ FreshSound'
  BY <1>1, <1>2 DEF FeedInv, SubHears, MirrorComplete, FreshSound, Passed, tables, link
<1>5. CASE FetchState
  <2>1. UNCHANGED store
    BY <1>5 DEF FetchState
  <2>2. RowsNumbered' /\ MirrorBehind' /\ MirrorCaught'
    BY <1>1, <2>1, TablesKept, OthersKept DEF store
  <2>3. QuerySound'
    <3>1. CASE Predates(cursor.rev)
      BY <1>5, <3>1 DEF FetchState, QuerySound
    <3>2. CASE ~Predates(cursor.rev)
      <4>1. worker' = [pc |-> "query", from |-> cursor, last |-> lastRev, horizon |-> prunedBefore]
        BY <1>5, <3>2 DEF FetchState
      <4> QED
        BY <1>1, <3>2, <4>1 DEF FeedInv, RowsNumbered, QuerySound, Predates, tables
    <3> QED
      BY <3>1, <3>2
  <2> QED
    BY <1>3, <1>4, <2>2, <2>3 DEF FeedInv
<1>6. CASE Resync
  <2>1. mirror' = [p \in Path |-> Missing] /\ cursor' = Start /\ worker'.pc # "query"
    <3>1. worker \in [pc : {"state", "resync"}]
      BY <1>6, PassFields DEF Resync
    <3> QED
      BY <1>6, <3>1 DEF Resync, wipe, wiped, Goto
  <2>2. Start.rev = 0 /\ Missing.rev = 0
    BY DEF Start, Missing
  <2>3. RowsNumbered'
    BY <1>1, <2>1, <2>2 DEF FeedInv, RowsNumbered, tables
  <2>4. MirrorBehind'
    BY <2>1, <2>2 DEF MirrorBehind
  <2>5. MirrorCaught'
    <3> SUFFICES ASSUME NEW p \in Path PROVE Caught(p)'
      BY DEF MirrorCaught
    <3>1. row'[p] = row[p] /\ row[p].rev \in Nat /\ (row[p].kind # "none" => row[p].rev > 0)
      BY <1>1, RowFields DEF tables
    <3> QED
      BY <2>1, <2>2, <3>1 DEF Caught, Follows
  <2>6. QuerySound'
    BY <2>1, OthersKept
  <2> QED
    BY <1>3, <1>4, <2>3, <2>4, <2>5, <2>6 DEF FeedInv
<1> QED
  BY <1>5, <1>6

\* The page read is what lies between its two cursors.
LEMMA FetchPageKeeps ==
    ASSUME TypeOK, TypeOK', FeedInv, FetchPage
    PROVE  FeedInv'
<1> USE TypeParts
<1> DEFINE page == queryChanges(worker.from)
           next == NextCursor(page, worker.last)
<1>1. /\ UNCHANGED <<tables, link, conn, store, atomics, wake, thread>> /\ worker.pc = "query"
      /\ worker'.pc = "page" /\ worker'.from = worker.from /\ worker'.next = next
      /\ worker'.full = (Cardinality(page) = Limit) /\ worker'.rows = [p \in page |-> row[p]]
      /\ blind' = IF prunedBefore # worker.horizon THEN Path ELSE blind
  BY DEF FetchPage
<1>2. worker.from \in Cursor /\ worker.last \in Rev
  BY <1>1, PassFields
<1>3. /\ worker.from.rev <= worker.last /\ worker.last <= lastRev
      /\ worker.from.rev = 0 => worker.from = Start
      /\ prunedBefore = worker.horizon => ~Predates(worker.from.rev)
  BY <1>1 DEF FeedInv, QuerySound
<1>4. /\ page \subseteq Path /\ next \in Cursor
      /\ worker.from.rev <= next.rev /\ next.rev <= lastRev /\ (next.rev = 0 => next = Start)
      /\ \A p \in page : row[p].kind # "none" /\ worker.from.rev <= row[p].rev /\ row[p].rev <= next.rev
      /\ \A p \in Path \ page : Follows(p, worker.from) => Cardinality(page) = Limit /\ Follows(p, next)
  <2>1. \A p \in Path : row[p].kind # "none" => row[p].rev <= lastRev
    BY DEF FeedInv, RowsNumbered
  <2> QED
    BY <1>2, <1>3, <2>1, NextFacts
<1> HIDE DEF page, next
<1>5. RowsNumbered' /\ AckedStand'
  BY <1>1, TablesKept DEF store
<1>6. SubHears' /\ QuerySound' /\ MirrorComplete' /\ FreshSound'
  BY <1>1 DEF FeedInv, SubHears, QuerySound, MirrorComplete, FreshSound, Passed, tables, link, atomics
<1>7. MirrorBehind' /\ MirrorCaught'
  <2>1. blind' = blind \/ blind' = Path
    BY <1>1
  <2>2. CASE blind' = Path
    BY <2>2 DEF MirrorBehind, MirrorCaught
  <2>3. CASE blind' = blind
    BY <1>1, <2>3, TablesKept, OthersKept DEF store
  <2> QED
    BY <2>1, <2>2, <2>3
<1>8. PageSound'
  <2>1. \A p \in Path \ page : Follows(p, worker.from) => Ahead(p)'
    BY <1>1, <1>4 DEF Ahead, Follows, tables
  <2>2. \A p \in Path : Follows(p, worker.from)' <=> Follows(p, worker.from)
    BY <1>1 DEF Follows, tables
  <2>3. row' = row /\ lastRev' = lastRev
    BY <1>1 DEF tables
  <2>4. \A p \in page : worker'.rows[p] = row'[p]
    BY <1>1, <2>3
  <2>5. Paged' = page
    BY <1>1 DEF Paged
  <2> HIDE DEF Follows, Ahead
  <2>6. \A p \in Path : row'[p].kind # "none" /\ Follows(p, worker.from)' =>
                           Ahead(p)' \/ (p \in Paged' /\ worker'.rows[p] = row'[p])
    BY <2>1, <2>2, <2>4, <2>5
  <2> QED
    BY <1>1, <1>3, <1>4, <2>3, <2>4, <2>5, <2>6 DEF PageSound
<1>9. PageKeepsAcked'
  <2> SUFFICES ASSUME NEW t \in Thread, Acked(t), NEW p \in Touches(thread[t]),
                      row[p].kind = "none", 0 < worker.from.rev, worker.from.rev < thread[t].rev
               PROVE  blind' = Path
    BY <1>1 DEF PageKeepsAcked, Acked, Touches, tables
  <2>1. prunedBefore > thread[t].rev
    BY DEF FeedInv, AckedStand, Stands
  <2>2. thread[t].rev \in Nat /\ worker.from.rev \in Nat
    BY <1>2, OperationFields, CursorFields DEF Acked
  <2>3. Predates(worker.from.rev)
    BY <2>1, <2>2 DEF Predates
  <2> QED
    BY <1>1, <1>3, <2>3
<1>10. PageForgets'
  <2> SUFFICES ASSUME cursor = worker.from, 0 < cursor.rev, NEW p \in Path \ blind, row[p].kind = "none",
                      prunedBefore = worker.horizon
               PROVE  mirror[p] = Missing
    BY <1>1 DEF PageForgets, store, tables
  <2>1. Caught(p) /\ ~Predates(cursor.rev) /\ cursor # Start
    BY <1>3 DEF FeedInv, MirrorCaught, Start
  <2> QED
    BY <2>1 DEF Caught
<1> QED
  BY <1>5, <1>6, <1>7, <1>8, <1>9, <1>10 DEF FeedInv

LEMMA StoreKeeps ==
    ASSUME TypeOK, TypeOK', FeedInv, StoreApplied \/ StoreFresh
    PROVE  FeedInv'
<1> USE TypeParts
<1>1. UNCHANGED <<tables, link, conn, store, target, subGen, wake, thread, blind>>
  BY DEF StoreApplied, StoreFresh
<1>2. worker'.pc \in {"state", "verdict", "idle"} /\ worker.pc \in {"applied", "verdict"}
  BY DEF StoreApplied, StoreFresh, Idle
<1>3. /\ RowsNumbered' /\ AckedStand' /\ QuerySound' /\ PageSound' /\ PageKeepsAcked' /\ PageForgets'
      /\ MirrorCaught' /\ MirrorBehind'
  BY <1>1, <1>2, TablesKept, OthersKept DEF store
<1>4. SubHears'
  BY <1>1, <1>2 DEF FeedInv, SubHears, tables, link
<1>5. CASE StoreApplied
  <2>1. /\ worker.pc = "applied" /\ fresh' = fresh
        /\ worker' = IF worker.full THEN [pc |-> "state"] ELSE [pc |-> "verdict", fresh |-> CaughtUp(worker.rev)]
    BY <1>5 DEF StoreApplied
  <2>2. MirrorComplete'
    BY <1>1, <2>1 DEF FeedInv, MirrorComplete, Passed, Complete, tables, store
  <2>3. FreshSound'
    BY <1>1, <2>1 DEF FeedInv, FreshSound, CaughtUp, store
  <2> QED
    BY <1>3, <1>4, <2>2, <2>3 DEF FeedInv
<1>6. CASE StoreFresh
  <2>1. worker.pc = "verdict" /\ fresh' = worker.fresh /\ worker'.pc = "idle"
    BY <1>6 DEF StoreFresh, Idle
  <2>2. MirrorComplete'
    BY <1>1, <2>1 DEF FeedInv, MirrorComplete, Passed, Complete, tables, store
  <2>3. FreshSound'
    BY <1>1, <2>1 DEF FeedInv, FreshSound, store
  <2> QED
    BY <1>3, <1>4, <2>2, <2>3 DEF FeedInv
<1> QED
  BY <1>5, <1>6

\* After a page the mirror has what lies up to its second cursor.
LEMMA ApplyPageKeeps ==
    ASSUME TypeOK, TypeOK', FeedInv, apply_page
    PROVE  FeedInv'
<1> USE TypeParts
<1>1. /\ UNCHANGED <<tables, link, conn, subGen, wake, thread>> /\ worker.pc = "page"
      /\ mirror' = [p \in Path |-> IF p \in Paged THEN Fed(p, worker.rows[p]) ELSE mirror[p]]
      /\ cursor' = worker.next /\ target' = Larger(target, worker.current)
      /\ worker' = [pc |-> "applied", rev |-> worker.next.rev, full |-> worker.full]
      /\ cursor # worker.from => blind' = Path
      /\ cursor = worker.from =>
             blind' = blind \union {p \in Path : worker.from.rev = 0 /\ row[p].kind = "none" /\ mirror[p] # Missing}
  BY DEF apply_page, Paged
<1>2. /\ worker.from.rev <= worker.next.rev /\ worker.next.rev <= lastRev
      /\ worker.from.rev = 0 => worker.from = Start
      /\ worker.next.rev = 0 => worker.next = Start
      /\ \A p \in Paged : worker.from.rev <= worker.rows[p].rev /\ worker.rows[p].rev <= worker.next.rev
  BY <1>1 DEF FeedInv, PageSound
<1>3. AckedStand' /\ QuerySound' /\ PageSound' /\ PageKeepsAcked' /\ PageForgets'
  BY <1>1, TablesKept, OthersKept
<1>4. RowsNumbered'
  BY <1>1, <1>2 DEF FeedInv, RowsNumbered, tables
<1>5. SubHears'
  <2>1. worker.current \in Nat
    BY <1>1, PassFields, Constants DEF Rev
  <2>2. target' >= target /\ target' \in Nat
    BY <1>1, <2>1, LargerFacts
  <2> QED
    BY <1>1, <2>2 DEF FeedInv, SubHears, tables, link
<1>6. FreshSound'
  BY <1>1 DEF FreshSound
<1>7. CASE blind' = Path
  BY <1>3, <1>4, <1>5, <1>6, <1>7 DEF FeedInv, MirrorBehind, MirrorCaught, MirrorComplete
<1>8. CASE blind' # Path
  <2>1. cursor = worker.from /\ blind \subseteq blind' /\ blind \subseteq Path /\ blind' \subseteq Path
    BY <1>1, <1>8 DEF TypeOK
  <2>2. \A p \in Path : mirror[p].rev <= cursor.rev
    BY <1>8, <2>1 DEF FeedInv, MirrorBehind
  <2>3. \A p \in Paged : /\ worker.rows[p].rev \in Nat /\ worker.rows[p].kind \in {"live", "tombstone"}
                         /\ p \in Path /\ mirror'[p] = Image(worker.rows[p])
    <3> SUFFICES ASSUME NEW p \in Paged PROVE worker.rows[p].rev \in Nat /\ worker.rows[p].kind \in {"live", "tombstone"}
                         /\ p \in Path /\ mirror'[p] = Image(worker.rows[p])
      OBVIOUS
    <3>1. p \in Path /\ worker.rows[p].rev \in Nat /\ worker.rows[p].kind \in {"live", "tombstone"}
      BY <1>1, WorkerNumbers
    <3>2. mirror[p].rev <= worker.rows[p].rev
      BY <1>1, <1>2, <2>1, <2>2, <3>1, WorkerNumbers
    <3>3. mirror'[p] = Fed(p, worker.rows[p])
      BY <1>1, <3>1
    <3> QED
      BY <3>1, <3>2, <3>3 DEF Fed, Image
  <2>4. \A p \in Path \ Paged : mirror'[p] = mirror[p]
    BY <1>1
  <2>5. MirrorBehind'
    <3> SUFFICES ASSUME NEW p \in Path PROVE mirror'[p].rev <= worker.next.rev
      BY <1>1 DEF MirrorBehind
    <3>1. CASE p \in Paged
      <4>1. mirror'[p].rev = worker.rows[p].rev \/ mirror'[p].rev = 0
        <5>1. Image(worker.rows[p]).rev = worker.rows[p].rev \/ Image(worker.rows[p]).rev = 0
          BY DEF Image, Missing
        <5> QED
          BY <2>3, <3>1, <5>1
      <4> QED
        BY <1>1, <1>2, <3>1, <4>1, WorkerNumbers
    <3>2. CASE p \notin Paged
      BY <1>1, <1>2, <2>1, <2>2, <2>4, <3>2, WorkerNumbers
    <3> QED
      BY <3>1, <3>2
  <2>6. ASSUME NEW p \in Path \ blind'
        PROVE  IF row[p].kind # "none" THEN Ahead(p) \/ mirror'[p] = Image(row[p]) ELSE mirror'[p] = Missing \/ Beyond
    <3>1. p \in Path /\ p \notin blind /\ Caught(p)
      BY <2>1 DEF FeedInv, MirrorCaught
    <3>2. CASE p \in Paged
      <4>1. \/ worker.rows[p] = row[p]
            \/ row[p].kind # "none" /\ Ahead(p)
            \/ row[p].kind = "none" /\ (worker.rows[p].kind = "tombstone" \/ Beyond)
        BY <1>1, <3>2 DEF FeedInv, PageSound
      <4> QED
        BY <2>3, <3>2, <4>1 DEF Image
    <3>3. CASE p \notin Paged /\ row[p].kind # "none"
      <4>1. Follows(p, cursor) \/ mirror[p] = Image(row[p])
        BY <3>1, <3>3 DEF Caught
      <4>2. Follows(p, worker.from) => Ahead(p)
        BY <1>1, <3>1, <3>3 DEF FeedInv, PageSound
      <4> QED
        BY <2>1, <2>4, <3>1, <3>3, <4>1, <4>2
    <3>4. CASE p \notin Paged /\ row[p].kind = "none"
      <4>1. CASE cursor.rev = 0
        BY <1>1, <2>1, <2>4, <2>6, <3>4, <4>1
      <4>2. CASE cursor.rev > 0
        <5>1. mirror[p] = Missing \/ Beyond
          BY <1>1, <2>1, <3>1, <3>4, <4>2 DEF FeedInv, PageForgets
        <5> QED
          BY <2>4, <3>1, <3>4, <5>1
      <4> QED
        BY <4>1, <4>2
    <3> QED
      BY <3>2, <3>3, <3>4
  <2>7. worker.next.rev \in Nat /\ worker.next.path \in Nat /\ worker.full \in BOOLEAN /\ row' = row /\ prunedBefore' = prunedBefore
    BY <1>1, WorkerNumbers DEF tables
  <2>8. MirrorCaught'
    <3> SUFFICES ASSUME NEW p \in Path \ blind' PROVE Caught(p)'
      BY DEF MirrorCaught
    <3>1. row[p].rev \in Nat /\ p \in Nat
      BY RowFields
    <3>2. CASE row[p].kind # "none"
      <4>1. Ahead(p) => Follows(p, worker.next)
        BY <2>7, <3>1, <3>2 DEF Ahead, Follows
      <4>2. Follows(p, worker.next) => Follows(p, cursor)'
        BY <1>1, <2>7 DEF Follows
      <4> QED
        BY <2>6, <2>7, <3>2, <4>1, <4>2 DEF Caught
    <3>3. CASE row[p].kind = "none"
      <4>1. Beyond => Predates(cursor.rev)' \/ cursor' = Start
        BY <1>1, <1>2, <2>7 DEF Beyond, Predates
      <4> QED
        BY <2>6, <2>7, <3>3, <4>1 DEF Caught
    <3> QED
      BY <3>2, <3>3
  <2>9. MirrorComplete'
    <3> SUFFICES ASSUME ~worker.full, NEW p \in Path \ blind' PROVE Complete(p)'
      BY <1>1 DEF MirrorComplete, Passed
    <3>1. row[p].rev \in Nat
      BY RowFields
    <3> QED
      BY <1>1, <2>6, <2>7, <3>1 DEF Complete, Ahead, Beyond
  <2> QED
    BY <1>3, <1>4, <1>5, <1>6, <2>5, <2>8, <2>9 DEF FeedInv
<1> QED
  BY <1>7, <1>8

-----------------------------------------------------------------------------
(* The mount's own mutations.                                              *)

\* Steps that leave the tables, the mirror and the worker alone.
LEMMA ThreadOnlyKeeps ==
    ASSUME TypeOK, TypeOK', FeedInv, NEW t \in Thread, Begin(t) \/ Refuse(t) \/ ResolveFailed(t)
    PROVE  FeedInv'
<1> USE TypeParts
<1>1. /\ UNCHANGED <<tables, link, conn, store, target, subGen, wake, worker, blind>>
      /\ fresh' = fresh \/ fresh' = FALSE
      /\ \A u \in Thread \ {t} : thread'[u] = thread[u]
  BY DEF Begin, Refuse, ResolveFailed, Send, atomics, TypeOK
<1>2. ~Acked(t)'
  <2>1. thread'[t].pc \notin {"acked", "resolve"}
    <3>1. thread \in [Thread -> Operation]
      BY DEF TypeOK
    <3>2. CASE Begin(t)
      BY <3>1, <3>2 DEF Begin, Send
    <3>3. CASE Refuse(t)
      <4>1. thread'[t] = IF thread[t].op = "unlink" THEN [thread[t] EXCEPT !.pc = "failed"] ELSE Idle
        BY <3>1, <3>3 DEF Refuse
      <4>2. thread[t].op = "unlink" => thread[t] \in [pc : {"sent"}, op : {"put", "delete", "unlink"}, path : Path]
        BY <3>3, OperationFields DEF Refuse
      <4> QED
        BY <4>1, <4>2 DEF Idle
    <3>4. CASE ResolveFailed(t)
      BY <3>1, <3>4 DEF ResolveFailed
    <3> QED
      BY <3>2, <3>3, <3>4
  <2> QED
    BY <2>1 DEF Acked
<1>3. \A u \in Thread : Acked(u)' => Acked(u) /\ thread'[u] = thread[u]
  BY <1>1, <1>2 DEF Acked
<1>4. /\ RowsNumbered' /\ SubHears' /\ QuerySound' /\ PageSound' /\ PageForgets'
      /\ MirrorBehind' /\ MirrorCaught' /\ MirrorComplete'
  BY <1>1, TablesKept, OthersKept DEF store, tables
<1>5. AckedStand'
  BY <1>1, <1>3 DEF FeedInv, AckedStand, Touches, Stands, tables
<1>6. PageKeepsAcked'
  BY <1>1, <1>3 DEF FeedInv, PageKeepsAcked, Touches, Beyond, Paged, tables
<1>7. FreshSound'
  BY <1>1 DEF FeedInv, FreshSound, store
<1> QED
  BY <1>4, <1>5, <1>6, <1>7 DEF FeedInv

\* The wipe after a failed unlink: everything follows the empty cursor.
LEMMA WipeKeeps ==
    ASSUME TypeOK, TypeOK', FeedInv, NEW t \in Thread, WipeEntries(t)
    PROVE  FeedInv'
<1> USE TypeParts
<1>1. /\ UNCHANGED <<tables, link, conn, target, fresh, subGen, worker, blind>>
      /\ mirror' = [p \in Path |-> Missing] /\ cursor' = Start /\ wake' = TRUE
      /\ thread' = [thread EXCEPT ![t] = Idle]
  BY DEF WipeEntries, wiped
<1>2. Start.rev = 0 /\ Missing.rev = 0
  BY DEF Start, Missing
<1>3. \A u \in Thread : Acked(u)' => Acked(u) /\ thread'[u] = thread[u]
  BY <1>1 DEF Acked, Idle, TypeOK
<1>4. SubHears' /\ QuerySound' /\ PageSound'
  BY <1>1, TablesKept, OthersKept DEF tables
<1>5. AckedStand'
  BY <1>1, <1>3 DEF FeedInv, AckedStand, Touches, Stands, tables
<1>6. PageKeepsAcked'
  BY <1>1, <1>3 DEF FeedInv, PageKeepsAcked, Touches, Beyond, Paged, tables
<1>7. RowsNumbered' /\ MirrorBehind' /\ PageForgets' /\ FreshSound'
  BY <1>1, <1>2 DEF FeedInv, RowsNumbered, MirrorBehind, PageForgets, FreshSound, tables
<1>8. \A p \in Path : row'[p] = row[p] /\ row[p].rev \in Nat /\ (row[p].kind # "none" => row[p].rev > 0)
  BY <1>1, RowFields DEF tables
<1>9. MirrorCaught' /\ MirrorComplete'
  <2>1. ASSUME NEW p \in Path PROVE Caught(p)' /\ Complete(p)'
    BY <1>1, <1>2, <1>8 DEF Caught, Complete, Follows
  <2> QED
    BY <2>1 DEF MirrorCaught, MirrorComplete
<1> QED
  BY <1>4, <1>5, <1>6, <1>7, <1>9 DEF FeedInv

LEMMA LocallyFacts ==
    ASSUME TypeOK, NEW t \in Thread, Acked(t)
    PROVE  LET o == thread[t] IN
           /\ o.op = "put" => Locally(o)[o.path] = [rev |-> mirror[o.path].rev, val |-> o.rev]
           /\ o.op \notin {"put", "rename"} => Locally(o)[o.path] = Missing
           /\ \A p \in Path : Locally(o)[p].rev \in {mirror[p].rev, mirror[o.path].rev, 0}
<1> DEFINE o == thread[t]
           Entry == [rev : Rev, val : Rev \union {Absent}]
<1>1. o.path \in Path /\ o.to \in Path /\ o.op \in {"put", "delete", "unlink", "rename"}
  BY TypeParts, OperationFields DEF Acked
<1>2. mirror \in [Path -> Entry] /\ Missing.rev = 0
  BY DEF TypeOK, Missing
<1> HIDE DEF o
<1>3. CASE o.op = "put"
  <2>1. Locally(o) = [mirror EXCEPT ![o.path] = [mirror[o.path] EXCEPT !.val = o.rev]]
    BY <1>1, <1>2, <1>3 DEF Locally
  <2>2. [mirror[o.path] EXCEPT !.val = o.rev] = [rev |-> mirror[o.path].rev, val |-> o.rev]
    BY <1>1, <1>2
  <2> QED
    BY <1>1, <1>2, <1>3, <2>1, <2>2 DEF o
<1>4. CASE o.op = "rename"
  <2>1. Locally(o) = [mirror EXCEPT ![o.to] = mirror[o.path], ![o.path] = Missing]
    BY <1>4 DEF Locally
  <2> QED
    BY <1>1, <1>2, <1>4, <2>1 DEF o
<1>5. CASE o.op # "put" /\ o.op # "rename"
  <2>1. Locally(o) = [mirror EXCEPT ![o.path] = Missing]
    BY <1>5 DEF Locally
  <2> QED
    BY <1>1, <1>2, <1>5, <2>1 DEF o
<1> QED
  BY <1>3, <1>4, <1>5

\* The local effect of an acknowledged mutation: what the feed has not passed
\* it will still deliver, and what it has passed is that mutation itself, or a
\* race.
LEMMA LocalKeeps ==
    ASSUME TypeOK, TypeOK', FeedInv, NEW t \in Thread, apply_local(t) \/ ResolveOk(t)
    PROVE  FeedInv'
<1> USE TypeParts
<1> DEFINE o == thread[t]
<1>1. /\ UNCHANGED <<tables, link, conn, cursor, target, fresh, subGen, wake, worker>>
      /\ mirror' = Locally(o) /\ blind' = blind \union Crossed(o) /\ Acked(t)
  BY DEF apply_local, ResolveOk, atomics, Acked
<1>2. /\ o.path \in Path /\ o.to \in Path /\ o.rev \in Nat /\ o.rev > 0
      /\ o.op \in {"put", "delete", "unlink", "rename"}
  <2>1. o.rev \in Version /\ o.path \in Path /\ o.to \in Path /\ o.op \in {"put", "delete", "unlink", "rename"}
    BY <1>1, OperationFields DEF Acked
  <2> QED
    BY <2>1, Constants DEF Version, Rev
<1>3. \A u \in Thread : Acked(u)' => /\ Acked(u) /\ thread'[u].rev = thread[u].rev /\ thread'[u].op = thread[u].op
                                     /\ thread'[u].path = thread[u].path /\ thread'[u].to = thread[u].to
  <2>1. thread \in [Thread -> Operation]
    BY DEF TypeOK
  <2>2. CASE apply_local(t)
    <3>1. o \in [pc : {"acked"}, op : {"put", "delete", "rename", "unlink"}, path : Path, to : Path, rev : Version]
      BY <2>2, OperationFields DEF apply_local
    <3>2. thread' = [thread EXCEPT ![t] = IF o.op = "unlink" THEN [o EXCEPT !.pc = "resolve"] ELSE Idle]
      BY <2>1, <2>2 DEF apply_local
    <3>3. Acked(t)' => /\ thread'[t].rev = o.rev /\ thread'[t].op = o.op
                       /\ thread'[t].path = o.path /\ thread'[t].to = o.to
      BY <2>1, <3>1, <3>2 DEF Acked, Idle
    <3>4. \A u \in Thread \ {t} : thread'[u] = thread[u]
      BY <2>1, <3>2
    <3> QED
      BY <1>1, <3>3, <3>4 DEF Acked
  <2>3. CASE ResolveOk(t)
    BY <2>1, <2>3 DEF ResolveOk, Acked, Idle
  <2> QED
    BY <2>2, <2>3
<1>4. /\ o.rev <= lastRev /\ (o.op # "rename" => o.to = o.path)
      /\ \A p \in Touches(o) : p \in Path /\ Stands(o, p)
  BY <1>1, <1>2 DEF FeedInv, AckedStand, Touches
<1>5. /\ o.op = "put" => mirror'[o.path] = [rev |-> mirror[o.path].rev, val |-> o.rev]
      /\ o.op \notin {"put", "rename"} => mirror'[o.path] = Missing
      /\ \A p \in Path : mirror'[p].rev \in {mirror[p].rev, mirror[o.path].rev, 0}
      /\ \A p \in Path \ Touches(o) : mirror'[p] = mirror[p]
  <2>1. thread[t].pc \in {"acked", "resolve"}
    BY <1>1 DEF Acked
  <2> QED
    BY <1>1, <2>1, LocallyFacts, LocallyTypes DEF Touches
<1>6. row' = row /\ lastRev' = lastRev /\ prunedBefore' = prunedBefore /\ cursor' = cursor
  BY <1>1 DEF tables
<1>7. RowsNumbered' /\ SubHears' /\ QuerySound' /\ PageSound' /\ FreshSound'
  BY <1>1, TablesKept, OthersKept DEF tables
<1> HIDE DEF o
<1>8. AckedStand'
  BY <1>3, <1>6 DEF FeedInv, AckedStand, Touches, Stands, Effect
<1>9. blind \subseteq blind' /\ blind' \subseteq Path /\ (Overtaken(o) => Touches(o) \subseteq blind')
  BY <1>1 DEF TypeOK, Crossed, Touches
<1>10. PageKeepsAcked'
  BY <1>1, <1>3, <1>6, <1>9 DEF FeedInv, PageKeepsAcked, Touches, Beyond, Paged
<1>11. MirrorBehind'
  <2>1. CASE blind = Path
    BY <1>9, <2>1 DEF MirrorBehind
  <2>2. CASE blind # Path
    <3>1. \A p \in Path : mirror[p].rev <= cursor.rev /\ mirror[p].rev \in Nat /\ cursor.rev \in Nat
      BY <2>2 DEF FeedInv, MirrorBehind
    <3>2. \A p \in Path : mirror'[p].rev <= cursor.rev
      BY <1>2, <1>5, <3>1
    <3> QED
      BY <1>6, <3>2 DEF MirrorBehind
  <2> QED
    BY <2>1, <2>2
\* A touched path: not yet passed by the cursor, or holding the mutation itself.
<1>12. ASSUME NEW p \in Touches(o) \ blind'
       PROVE  /\ p \in Path /\ row[p].rev \in Nat
              /\ \/ cursor.rev < o.rev /\ row[p].kind # "none" /\ row[p].rev > cursor.rev
                 \/ cursor.rev < o.rev /\ row[p].kind = "none" /\ prunedBefore > o.rev
                 \/ p = o.path /\ o.op # "rename" /\ row[p] = Effect(o)
  <2>1. p \in Path /\ Stands(o, p) /\ ~Overtaken(o)
    BY <1>4, <1>9
  <2>2. row[p].rev \in Nat
    BY <2>1, RowFields
  <2>3. CASE cursor.rev < o.rev
    BY <1>2, <2>1, <2>2, <2>3 DEF Stands
  <2>4. CASE cursor.rev >= o.rev
    <3>1. /\ ~(row[p].rev > o.rev) /\ ~(row[p].kind = "none" /\ prunedBefore > o.rev)
          /\ ~(o.op = "rename" /\ row[p].rev = o.rev)
      BY <2>1, <2>4 DEF Overtaken, Touches
    <3>2. o.op # "rename" /\ row[p] = Effect(o)
      BY <2>1, <3>1 DEF Stands
    <3> QED
      BY <1>4, <2>1, <2>2, <3>2 DEF Touches
  <2> QED
    BY <1>2, <2>1, <2>2, <2>3, <2>4
<1>13. ASSUME NEW p \in Touches(o) \ blind', row[p] = Effect(o), p = o.path, o.op # "rename"
       PROVE  row[p].kind # "none" /\ (mirror[p] = Image(row[p]) => mirror'[p] = Image(row[p]))
  <2>1. CASE o.op = "put"
    BY <1>5, <1>13, <2>1 DEF Effect, Image, Live
  <2>2. CASE o.op # "put"
    BY <1>5, <1>13, <2>2 DEF Effect, Image, Tombstone
  <2> QED
    BY <2>1, <2>2
<1>14. MirrorCaught'
  <2> SUFFICES ASSUME NEW p \in Path \ blind' PROVE Caught(p)'
    BY DEF MirrorCaught
  <2>1. Caught(p)
    BY <1>9 DEF FeedInv, MirrorCaught
  <2>2. Follows(p, cursor) => Follows(p, cursor)'
    BY <1>6 DEF Follows
  <2>3. CASE p \notin Touches(o)
    <3>1. mirror'[p] = mirror[p]
      BY <1>5, <2>3
    <3> QED
      BY <1>6, <2>1, <2>2, <3>1 DEF Caught, Predates
  <2>4. CASE p \in Touches(o)
    <3>1. CASE cursor.rev < o.rev /\ row[p].kind # "none" /\ row[p].rev > cursor.rev
      BY <1>6, <3>1 DEF Caught, Follows
    <3>2. CASE cursor.rev < o.rev /\ row[p].kind = "none" /\ prunedBefore > o.rev
      BY <1>2, <1>6, <3>2 DEF Caught, Predates, FeedInv, RowsNumbered
    <3>3. CASE p = o.path /\ o.op # "rename" /\ row[p] = Effect(o)
      <4>1. row[p].kind # "none" /\ (mirror[p] = Image(row[p]) => mirror'[p] = Image(row[p]))
        BY <1>13, <2>4, <3>3
      <4> QED
        BY <1>6, <2>1, <2>2, <4>1 DEF Caught
    <3> QED
      BY <1>12, <2>4, <3>1, <3>2, <3>3
  <2> QED
    BY <2>3, <2>4
<1>15. MirrorComplete'
  <2> SUFFICES ASSUME Passed, NEW p \in Path \ blind' PROVE Complete(p)'
    BY <1>1 DEF MirrorComplete, Passed
  <2>1. Complete(p)
    BY <1>9 DEF FeedInv, MirrorComplete
  <2>2. CASE p \notin Touches(o)
    <3>1. mirror'[p] = mirror[p]
      BY <1>5, <2>2
    <3> QED
      BY <1>6, <2>1, <3>1 DEF Complete
  <2>3. CASE p \in Touches(o)
    <3>1. CASE cursor.rev < o.rev /\ row[p].kind # "none" /\ row[p].rev > cursor.rev
      BY <1>6, <1>12, <2>3, <3>1 DEF Complete
    <3>2. CASE cursor.rev < o.rev /\ row[p].kind = "none" /\ prunedBefore > o.rev
      BY <1>2, <1>6, <3>2 DEF Complete
    <3>3. CASE p = o.path /\ o.op # "rename" /\ row[p] = Effect(o)
      <4>1. row[p].kind # "none" /\ (mirror[p] = Image(row[p]) => mirror'[p] = Image(row[p]))
        BY <1>13, <2>3, <3>3
      <4> QED
        BY <1>6, <2>1, <4>1 DEF Complete
    <3> QED
      BY <1>12, <2>3, <3>1, <3>2, <3>3
  <2> QED
    BY <2>2, <2>3
<1>16. PageForgets'
  <2> SUFFICES ASSUME worker.pc = "page", cursor = worker.from, 0 < cursor.rev,
                      NEW p \in Path \ (blind' \union Paged), row[p].kind = "none"
               PROVE  mirror'[p] = Missing \/ Beyond
    BY <1>1, <1>6 DEF PageForgets, Paged, Beyond
  <2>1. CASE p \notin Touches(o)
    <3>1. mirror'[p] = mirror[p]
      BY <1>5, <2>1
    <3> QED
      BY <1>9, <3>1 DEF FeedInv, PageForgets
  <2>2. CASE p \in Touches(o)
    <3>1. cursor.rev < o.rev /\ prunedBefore > o.rev
      <4>1. row[p] # Effect(o)
        BY DEF Effect, Live, Tombstone
      <4> QED
        BY <1>12, <2>2, <4>1
    <3>2. CASE o.rev <= worker.next.rev
      <4>1. Beyond \/ blind = Path
        BY <1>1, <2>2, <3>1, <3>2 DEF FeedInv, PageKeepsAcked, o
      <4> QED
        BY <1>9, <4>1
    <3>3. CASE o.rev > worker.next.rev
      BY <1>2, <3>1, <3>3, WorkerNumbers DEF Beyond
    <3> QED
      BY <1>2, <3>2, <3>3, WorkerNumbers
  <2> QED
    BY <2>1, <2>2
<1> QED
  BY <1>7, <1>8, <1>10, <1>11, <1>14, <1>15, <1>16 DEF FeedInv

-----------------------------------------------------------------------------
(* The theorems.                                                           *)

LEMMA FeedInit == Init => FeedInv
<1> SUFFICES ASSUME Init PROVE FeedInv
  OBVIOUS
<1>1. worker.pc = "idle" /\ \A t \in Thread : thread[t].pc = "idle"
  BY DEF Init, Idle
<1>2. cursor = Start /\ Start.rev = 0 /\ lastRev = 0 /\ prunedBefore = 0 /\ subGen = -1 /\ conn.gen = 0
  BY DEF Init, Start, Never
<1>3. \A p \in Path : row[p].kind = "none" /\ mirror[p] = Missing /\ Missing.rev = 0
  BY DEF Init, Nothing, wiped, Missing
<1>4. RowsNumbered /\ SubHears /\ AckedStand
  BY <1>1, <1>2, <1>3 DEF RowsNumbered, SubHears, AckedStand, Acked
<1>5. QuerySound /\ PageSound /\ PageKeepsAcked /\ PageForgets
  BY <1>1 DEF QuerySound, PageSound, PageKeepsAcked, PageForgets
<1>6. MirrorBehind /\ MirrorCaught /\ MirrorComplete /\ FreshSound
  BY <1>1, <1>2, <1>3 DEF MirrorBehind, MirrorCaught, Caught, MirrorComplete, Complete, FreshSound
<1> QED
  BY <1>4, <1>5, <1>6 DEF FeedInv

LEMMA FeedStep == TypeOK /\ FeedInv /\ [Next]_vars => TypeOK' /\ FeedInv'
<1> SUFFICES ASSUME TypeOK, FeedInv, [Next]_vars PROVE TypeOK' /\ FeedInv'
  OBVIOUS
<1>1. TypeOK'
  BY TypeStep
<1>2. CASE OtherMutation
  BY <1>1, <1>2, OtherMutationKeeps
<1>3. CASE pruneTombstones
  BY <1>1, <1>3, PruneKeeps
<1>4. CASE Ring
  BY <1>1, <1>4, RingKeeps
<1>5. CASE Dial
  BY <1>1, <1>5, DialKeeps
<1>6. CASE Disconnect
  BY <1>1, <1>6, DisconnectKeeps
<1>7. CASE Sync
  BY <1>1, <1>7, SubscribeKeeps, FetchStateKeeps, FetchPageKeeps, ApplyPageKeeps, StoreKeeps DEF Sync
<1>8. ASSUME NEW t \in Thread, Begin(t) \/ Finish(t) PROVE FeedInv'
  BY <1>1, <1>8, ServeKeeps, ThreadOnlyKeeps, WipeKeeps, LocalKeeps DEF Finish
<1>9. CASE UNCHANGED vars
  <2>1. UNCHANGED <<tables, link, conn, store, cursor, target, fresh, subGen, wake, worker, thread, blind, lastRev>>
    BY <1>9 DEF vars, tables, store, atomics
  <2>2. /\ RowsNumbered' /\ AckedStand' /\ QuerySound' /\ PageSound' /\ PageKeepsAcked' /\ PageForgets'
        /\ MirrorCaught' /\ MirrorComplete'
    BY <2>1, TablesKept
  <2>3. SubHears' /\ MirrorBehind' /\ FreshSound'
    BY <2>1, OthersKept
  <2> QED
    BY <1>1, <2>2, <2>3 DEF FeedInv
<1> QED
  BY <1>1, <1>2, <1>3, <1>4, <1>5, <1>6, <1>7, <1>8, <1>9 DEF Next

\* The feed and the mirror keep the whole invariant: what the mirror holds up
\* to its cursor, what a page in flight covers, and what an acknowledged
\* mutation of the mount may still find on the server.
THEOREM FeedInvariant == Spec => [](TypeOK /\ FeedInv)
<1> QED
  BY TypeInit, FeedInit, FeedStep, PTL DEF Spec

\* fetchChanges and apply_page never move the stored cursor past a change they
\* have not delivered: a live row behind the cursor has its revision in the
\* mirror, whatever other sessions, prunes, wipes and reconnects do between
\* the two reads of a fetch and the transaction that applies its page.
THEOREM CursorNeverSkips == Spec => []CursorSkipsNothing
<1>1. TypeOK /\ FeedInv => CursorSkipsNothing
  <2> SUFFICES ASSUME FeedInv, NEW p \in Path \ blind, row[p].kind = "live", ~Follows(p, cursor)
               PROVE  mirror[p].rev = row[p].rev
    BY DEF CursorSkipsNothing
  <2>1. Caught(p)
    BY DEF FeedInv, MirrorCaught
  <2> QED
    BY <2>1 DEF Caught, Image
<1> QED
  BY <1>1, FeedInvariant, PTL

\* pruneTombstones moves the watermark with the tombstones it takes, so that a
\* mount that still has a path the server has forgotten is told to start over
\* by its next changes_fetch.
THEOREM ForgottenAlwaysResynced == Spec => []ForgottenIsResynced
<1>1. TypeOK /\ FeedInv => ForgottenIsResynced
  <2> SUFFICES ASSUME FeedInv, NEW p \in Path \ blind, row[p].kind = "none", mirror[p].rev > 0
               PROVE  Predates(cursor.rev) \/ cursor = Start
    BY DEF ForgottenIsResynced
  <2>1. Caught(p) /\ mirror[p] # Missing
    BY DEF FeedInv, MirrorCaught, Missing
  <2> QED
    BY <2>1 DEF Caught
<1> QED
  BY <1>1, FeedInvariant, PTL

\* is_fresh, once nothing is on its way any more, means that every lookup the
\* mirror answers is what the server has, but for the paths one of the four
\* named races has touched, and while the connection is lost but for changes
\* the next fetch will tell: no doorbell is lost between subscribe's
\* registration and its read of the counter, a verdict is never about an older
\* cursor, and the cursor stands before all that the mirror has not heard.
THEOREM FreshAlwaysUnlessRaced == Spec => []FreshUnlessRaced
<1>1. TypeOK /\ FeedInv => FreshUnlessRaced
  <2> SUFFICES ASSUME TypeOK, FeedInv, Settled, NEW p \in Path \ blind
               PROVE  Answer(p) = row[p].val \/ (~conn.up /\ Untold(p))
    BY DEF FreshUnlessRaced
  <2> USE TypeParts
  <2>1. /\ fresh /\ subGen = conn.gen /\ ringing = {} /\ ~sub.signal /\ ~wake
        /\ worker.pc = "idle" /\ \A t \in Thread : thread[t].pc = "idle"
    BY DEF Settled, is_fresh
  <2>2. pending = {}
    BY <2>1 DEF TypeOK, Unlinking
  <2>3. row[p].kind # "live" => row[p].val = Absent
    BY RowFields
  <2>4. CASE ~conn.up
    <3>1. Caught(p)
      BY DEF FeedInv, MirrorCaught
    <3> QED
      BY <2>2, <2>3, <2>4, <3>1 DEF Caught, Untold, Answer, Image, Missing
  <2>5. CASE conn.up
    <3>1. lastRev <= target /\ target <= cursor.rev
      BY <2>1, <2>5 DEF FeedInv, SubHears, FreshSound
    <3>2. Complete(p)
      BY <2>1, <2>5 DEF FeedInv, MirrorComplete, Passed
    <3>3. CASE row[p].kind # "none"
      <4>1. row[p].rev <= cursor.rev
        BY <3>1, <3>3, RowFields DEF FeedInv, RowsNumbered
      <4>2. mirror[p] = Image(row[p])
        BY <3>2, <3>3, <4>1 DEF Complete
      <4> QED
        BY <2>2, <2>3, <4>2 DEF Answer, Image, Missing
    <3>4. CASE row[p].kind = "none"
      <4>1. prunedBefore <= cursor.rev + 1
        BY <3>1 DEF FeedInv, RowsNumbered
      <4>2. mirror[p] = Missing
        BY <3>2, <3>4, <4>1 DEF Complete
      <4> QED
        BY <2>2, <2>3, <3>4, <4>2 DEF Answer, Missing
    <3> QED
      BY <3>3, <3>4
  <2> QED
    BY <2>4, <2>5
<1> QED
  BY <1>1, FeedInvariant, PTL

=============================================================================
