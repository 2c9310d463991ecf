--------------------------- MODULE ReleaseProofs ---------------------------
(***************************************************************************)
(* What a release may rely on, for any number of pods, any data of earlier *)
(* releases and any overlap of migration jobs, as long as nobody reverts   *)
(* beside a job; and what the endpoints of the image answer, whatever      *)
(* meetings, plans, places and tokens there are.                           *)
(***************************************************************************)
EXTENDS Release, SubsequenceProofs

-----------------------------------------------------------------------------
(* The schema.                                                             *)

\* What the first n migrations build.
SchemaUpTo(n) ==
  CASE n = 0 -> {}
    [] n = 1 -> Adds(1)
    [] n = 2 -> Adds(1) \cup Adds(2)
    [] n = 3 -> (Adds(1) \cup Adds(2) \cup Adds(3)) \ Drops(3)
    [] n = 4 -> (Adds(1) \cup Adds(2) \cup Adds(3) \cup Adds(4)) \ Drops(3)

\* No two migrations add one thing; what is dropped was added by the first.
LEMMA AddsApart ==
  /\ Adds(1) \cap Adds(2) = {} /\ Adds(1) \cap Adds(3) = {} /\ Adds(1) \cap Adds(4) = {}
  /\ Adds(2) \cap Adds(3) = {} /\ Adds(2) \cap Adds(4) = {} /\ Adds(3) \cap Adds(4) = {}
BY DEF Adds, FirstTables, LocationTables, PlaceFlowColumns, PlaceFlowTables, CandidateColumns

LEMMA DropsFirst ==
  /\ Drops(3) \subseteq Adds(1) /\ Drops(3) # {}
  /\ Drops(1) = {} /\ Drops(2) = {} /\ Drops(4) = {}
BY DEF Drops, Adds, FirstTables

\* Each adds something that is never dropped.
LEMMA AddsStay ==
  /\ Adds(1) \ Drops(3) # {} /\ Adds(2) # {} /\ Adds(3) # {} /\ Adds(4) # {}
<1>1. "place" \in Adds(1) /\ "place" \notin Drops(3)
  BY DEF Adds, FirstTables, Drops
<1>2. "place.location" \in Adds(2) /\ "place_sync_job" \in Adds(3) /\ "course_candidate.name" \in Adds(4)
  BY DEF Adds, LocationTables, PlaceFlowTables, CandidateColumns
<1>3. QED BY <1>1, <1>2

LEMMA NeedsMet ==
  /\ Needs(1) = {} /\ Needs(2) \subseteq Adds(1)
  /\ Needs(3) \subseteq Adds(1) \cup Adds(2) /\ Needs(4) \subseteq Adds(1) \ Drops(3)
  /\ "meeting_location" \notin Adds(1)
BY DEF Needs, Adds, Drops, FirstTables, LocationTables

LEMMA SchemaBuilt ==
  ASSUME NEW n \in 0..4
  PROVE  (UNION {Adds(m) : m \in 1..n}) \ (UNION {Drops(m) : m \in 1..n}) = SchemaUpTo(n)
<1>0. n = 0 \/ n = 1 \/ n = 2 \/ n = 3 \/ n = 4
  OBVIOUS
<1>1. CASE n = 0
  <2>1. 1..n = {}
    BY <1>1
  <2>2. QED BY <1>1, <2>1 DEF SchemaUpTo
<1>2. CASE n = 1
  <2>1. 1..n = {1}
    BY <1>2
  <2>2. QED BY <1>2, <2>1, DropsFirst DEF SchemaUpTo
<1>3. CASE n = 2
  <2>1. 1..n = {1, 2}
    BY <1>3
  <2>2. QED BY <1>3, <2>1, DropsFirst DEF SchemaUpTo
<1>4. CASE n = 3
  <2>1. 1..n = {1, 2, 3}
    BY <1>4
  <2>2. QED BY <1>4, <2>1, DropsFirst DEF SchemaUpTo
<1>5. CASE n = 4
  <2>1. 1..n = {1, 2, 3, 4}
    BY <1>5
  <2>2. QED BY <1>5, <2>1, DropsFirst DEF SchemaUpTo
<1>6. QED BY <1>0, <1>1, <1>2, <1>3, <1>4, <1>5

\* On the schema of the first n migrations the next one fits, none of the
\* executed ones does, and the last one can be reverted.
LEMMA NextFits ==
  ASSUME NEW n \in 0..3, NEW d, d.schema = SchemaUpTo(n)
  PROVE  UpFits(n + 1, d) /\ (d.schema \ Drops(n + 1)) \cup Adds(n + 1) = SchemaUpTo(n + 1)
<1>0. n = 0 \/ n = 1 \/ n = 2 \/ n = 3
  OBVIOUS
<1>1. CASE n = 0
  BY <1>1, NeedsMet, DropsFirst DEF UpFits, SchemaUpTo
<1>2. CASE n = 1
  BY <1>2, NeedsMet, DropsFirst, AddsApart DEF UpFits, SchemaUpTo
<1>3. CASE n = 2
  <2>1. Needs(3) \subseteq d.schema
    BY <1>3, NeedsMet DEF SchemaUpTo
  <2>2. QED BY <1>3, <2>1, DropsFirst, AddsApart DEF UpFits, SchemaUpTo
<1>4. CASE n = 3
  <2>1. Needs(4) \subseteq d.schema
    BY <1>4, NeedsMet DEF SchemaUpTo
  <2>2. QED BY <1>4, <2>1, DropsFirst, AddsApart DEF UpFits, SchemaUpTo
<1>5. QED BY <1>0, <1>1, <1>2, <1>3, <1>4

LEMMA ExecutedRefused ==
  ASSUME NEW n \in 0..4, NEW m \in 1..n, NEW d, d.schema = SchemaUpTo(n)
  PROVE  ~UpFits(m, d)
<1>0. m \in 1..4 /\ n \in 1..4 /\ m <= n
  OBVIOUS
<1>1. Adds(m) \cap SchemaUpTo(n) # {}
  <2>1. CASE m = 1
    BY <1>0, <2>1, AddsStay DEF SchemaUpTo
  <2>2. CASE m = 2
    BY <1>0, <2>2, AddsStay, DropsFirst, AddsApart DEF SchemaUpTo
  <2>3. CASE m = 3
    BY <1>0, <2>3, AddsStay, DropsFirst, AddsApart DEF SchemaUpTo
  <2>4. CASE m = 4
    BY <1>0, <2>4, AddsStay, DropsFirst, AddsApart DEF SchemaUpTo
  <2>5. QED BY <1>0, <2>1, <2>2, <2>3, <2>4
<1>2. QED BY <1>1 DEF UpFits

LEMMA LastReverts ==
  ASSUME NEW n \in 1..4, NEW d, d.schema = SchemaUpTo(n)
  PROVE  DownFits(n, d) /\ (d.schema \ Adds(n)) \cup Drops(n) = SchemaUpTo(n - 1)
<1>0. n = 1 \/ n = 2 \/ n = 3 \/ n = 4
  OBVIOUS
<1>1. CASE n = 1
  BY <1>1, NeedsMet, DropsFirst DEF DownFits, SchemaUpTo
<1>2. CASE n = 2
  BY <1>2, DropsFirst, AddsApart DEF DownFits, SchemaUpTo
<1>3. CASE n = 3
  BY <1>3, DropsFirst, AddsApart DEF DownFits, SchemaUpTo
<1>4. CASE n = 4
  BY <1>4, DropsFirst, AddsApart DEF DownFits, SchemaUpTo
<1>5. QED BY <1>0, <1>1, <1>2, <1>3, <1>4

-----------------------------------------------------------------------------
(* What was executed.                                                      *)

\* A built database in terms of how many migrations it has.
LEMMA BuiltCounts ==
  ASSUME NEW d, Columns(d)
  PROVE  Built(d) <=>
           /\ Len(d.applied) \in 0..4
           /\ \A i \in 1..Len(d.applied) : d.applied[i] = i
           /\ d.schema = SchemaUpTo(Len(d.applied))
           /\ Len(d.applied) >= 3 => ~d.previewRequired
           /\ Len(d.applied) <= 1 => d.previewRequired
<1> DEFINE n == Len(d.applied)
           InOrder == \A i \in 1..n : d.applied[i] = i
<1>1. d.applied \in Seq(1..4) /\ DOMAIN d.applied = 1..n /\ n \in Nat
  BY DEF Columns, Versions
<1>2. ASSUME InOrder PROVE n \in 0..4 /\ RangeOf(d.applied) = 1..n
  <2>1. n # 0 => n \in 1..n /\ d.applied[n] \in 1..4 /\ d.applied[n] = n
    BY <1>1, <1>2
  <2> HIDE DEF n
  <2>2. n \in 0..4
    BY <1>1, <2>1
  <2> USE DEF n
  <2>3. RangeOf(d.applied) = {d.applied[i] : i \in 1..n}
    BY <1>1 DEF RangeOf
  <2>4. {d.applied[i] : i \in 1..n} = 1..n
    BY <1>2
  <2>5. QED BY <2>2, <2>3, <2>4
<1>3. ASSUME InOrder PROVE (3 \in 1..n <=> n >= 3) /\ (1..n \subseteq {1} <=> n <= 1)
  <2>1. 2 \in 1..n <=> n >= 2
    BY <1>1
  <2>2. n <= 1 => 1..n \subseteq {1}
    BY <1>1
  <2>3. 1..n \subseteq {1} => 2 \notin 1..n
    OBVIOUS
  <2>4. 3 \in 1..n <=> n >= 3
    BY <1>1
  <2> HIDE DEF n
  <2>5. QED BY <1>1, <2>1, <2>2, <2>3, <2>4
<1>4. ASSUME InOrder
      PROVE  (UNION {Adds(m) : m \in 1..n}) \ (UNION {Drops(m) : m \in 1..n}) = SchemaUpTo(n)
  BY <1>2, <1>4, SchemaBuilt
<1>5. QED BY <1>1, <1>2, <1>3, <1>4 DEF Built

-----------------------------------------------------------------------------
(* What a migration does to the columns of a database.                     *)

Fields == {"applied", "schema", "categories", "types", "joined", "nickname", "avatar",
           "member", "start", "location", "previewRequired", "previewNull", "google"}
IsRow(d) == d = [f \in Fields |-> d[f]]

\* Only the columns in F differ.
Kept(d, e, F) == \A f \in Fields \ F : e[f] = d[f]

LEMMA ColumnsRow == ASSUME NEW d, Columns(d) PROVE IsRow(d)
BY DEF Columns, Fields, IsRow

LEMMA ColumnsIntro ==
  ASSUME NEW d, IsRow(d),
         d.applied \in Seq(Versions), d.schema \in SUBSET Schema, d.joined \in SUBSET Users,
         d.nickname \in [Users -> Nicknames \cup {None}],
         d.avatar \in [Users -> Avatars \cup {None}],
         d.member \in [Users -> Avatars \cup {None}],
         d.start \in Addresses \cup {None}, d.location \in Addresses \cup {None},
         d.previewRequired \in BOOLEAN, d.previewNull \in BOOLEAN, d.google \in BOOLEAN,
         IsFiniteSet(DOMAIN d.categories),
         \A s \in DOMAIN d.categories :
           d.categories[s] \in [id : Nat \ {0}, name : LegacyNames \cup Slugs, order : Int],
         \A o \in DOMAIN d.types :
           d.types[o] \in [name : LegacyNames \cup Codes, code : Codes \cup {None}]
  PROVE  Columns(d)
<1>1. d \in [applied : {d.applied}, schema : {d.schema}, categories : {d.categories},
             types : {d.types}, joined : {d.joined}, nickname : {d.nickname},
             avatar : {d.avatar}, member : {d.member}, start : {d.start},
             location : {d.location}, previewRequired : {d.previewRequired},
             previewNull : {d.previewNull}, google : {d.google}]
  BY DEF Fields, IsRow
<1>2. QED BY <1>1 DEF Columns

\* The columns the row operations write.
LEMMA LocationRows ==
  ASSUME NEW d, IsRow(d)
  PROVE  /\ IsRow(LocationsCopied(d)) /\ IsRow(LocationsDropped(d))
         /\ LocationsCopied(d).location = d.start /\ LocationsCopied(d).previewRequired = FALSE
         /\ LocationsDropped(d).location = None /\ LocationsDropped(d).previewRequired = TRUE
         /\ Kept(d, LocationsCopied(d), {"location", "previewRequired"})
         /\ Kept(d, LocationsDropped(d), {"location", "previewRequired"})
BY DEF LocationsCopied, LocationsDropped, IsRow, Kept, Fields

LEMMA AvatarRows ==
  ASSUME NEW d, IsRow(d)
  PROVE  /\ IsRow(AvatarsMoved(d)) /\ IsRow(AvatarsReturned(d))
         /\ AvatarsMoved(d).member =
              [u \in Users |-> IF u \notin d.joined THEN None
                               ELSE IF d.avatar[u] = None THEN DefaultAvatar ELSE d.avatar[u]]
         /\ AvatarsMoved(d).avatar = Nobody
         /\ AvatarsReturned(d).avatar = [u \in Users |-> IF u \in d.joined THEN d.member[u] ELSE None]
         /\ AvatarsReturned(d).member = Nobody
         /\ Kept(d, AvatarsMoved(d), {"member", "avatar"})
         /\ Kept(d, AvatarsReturned(d), {"member", "avatar"})
BY DEF AvatarsMoved, AvatarsReturned, IsRow, Kept, Fields

LEMMA PlaceFlowRows ==
  ASSUME NEW d, IsRow(d)
  PROVE  /\ IsRow(PlaceFlowCompleted(d)) /\ IsRow(PlaceFlowReverted(d))
         /\ PlaceFlowCompleted(d).start = None /\ PlaceFlowReverted(d).start = None
         /\ PlaceFlowCompleted(d).previewRequired = FALSE
         /\ PlaceFlowReverted(d).previewRequired = TRUE
         /\ PlaceFlowCompleted(d).categories = CategoriesSeeded(d.categories)
         /\ PlaceFlowCompleted(d).types = TypesSeeded(d.types)
         /\ PlaceFlowReverted(d).types =
              [o \in DOMAIN d.types |-> [d.types[o] EXCEPT !.code = None]]
         /\ Kept(AvatarsMoved(d), PlaceFlowCompleted(d),
                 {"start", "previewRequired", "categories", "types"})
         /\ Kept(AvatarsReturned(d), PlaceFlowReverted(d), {"start", "previewRequired", "types"})
<1> DEFINE a == AvatarsMoved(d)
           b == AvatarsReturned(d)
           t == [o \in DOMAIN d.types |-> [d.types[o] EXCEPT !.code = None]]
<1>1. IsRow(a) /\ IsRow(b)
  BY AvatarRows
<1>2. PlaceFlowCompleted(d) =
        [a EXCEPT !.start = None, !.previewRequired = FALSE,
                  !.categories = CategoriesSeeded(d.categories), !.types = TypesSeeded(d.types)]
  BY DEF PlaceFlowCompleted
<1>3. PlaceFlowReverted(d) = [b EXCEPT !.start = None, !.previewRequired = TRUE, !.types = t]
  BY DEF PlaceFlowReverted
<1> HIDE DEF a, b, t
<1>4. /\ IsRow(PlaceFlowCompleted(d)) /\ PlaceFlowCompleted(d).start = None
      /\ PlaceFlowCompleted(d).previewRequired = FALSE
      /\ PlaceFlowCompleted(d).categories = CategoriesSeeded(d.categories)
      /\ PlaceFlowCompleted(d).types = TypesSeeded(d.types)
      /\ Kept(a, PlaceFlowCompleted(d), {"start", "previewRequired", "categories", "types"})
  BY <1>1, <1>2 DEF IsRow, Kept, Fields
<1>5. /\ IsRow(PlaceFlowReverted(d)) /\ PlaceFlowReverted(d).start = None
      /\ PlaceFlowReverted(d).previewRequired = TRUE /\ PlaceFlowReverted(d).types = t
      /\ Kept(b, PlaceFlowReverted(d), {"start", "previewRequired", "types"})
  BY <1>1, <1>3 DEF IsRow, Kept, Fields
<1>6. QED BY <1>4, <1>5 DEF a, b, t

LEMMA EmptyRow ==
  /\ IsRow(Empty)
  /\ Empty.applied = <<>> /\ Empty.schema = {} /\ Empty.categories = NoRows
  /\ Empty.types = NoRows /\ Empty.joined = {} /\ Empty.nickname = Nobody
  /\ Empty.avatar = Nobody /\ Empty.member = Nobody /\ Empty.start = None
  /\ Empty.location = None /\ Empty.previewRequired = TRUE
  /\ Empty.previewNull = FALSE /\ Empty.google = FALSE
BY DEF Empty, IsRow, Fields

LEMMA UpEffect ==
  ASSUME NEW d, IsRow(d), NEW m \in Versions
  PROVE  /\ IsRow(UpRows(m, d)) /\ IsRow(Up(m, d))
         /\ Up(m, d).applied = Append(d.applied, m)
         /\ Up(m, d).schema = (d.schema \ Drops(m)) \cup Adds(m)
         /\ Kept(UpRows(m, d), Up(m, d), {"applied", "schema"})
<1> DEFINE e == UpRows(m, d)
<1>1. IsRow(e)
  BY LocationRows, PlaceFlowRows DEF UpRows
<1>2. Up(m, d) = [e EXCEPT !.schema = (d.schema \ Drops(m)) \cup Adds(m),
                           !.applied = Append(d.applied, m)]
  BY DEF Up
<1> HIDE DEF e
<1>3. /\ IsRow(Up(m, d)) /\ Up(m, d).applied = Append(d.applied, m)
      /\ Up(m, d).schema = (d.schema \ Drops(m)) \cup Adds(m)
      /\ Kept(e, Up(m, d), {"applied", "schema"})
  BY <1>1, <1>2 DEF IsRow, Kept, Fields
<1>4. QED BY <1>1, <1>3 DEF e

LEMMA DownEffect ==
  ASSUME NEW d, IsRow(d), NEW m \in Versions
  PROVE  /\ IsRow(DownRows(m, d)) /\ IsRow(Down(m, d))
         /\ Down(m, d).applied = Keep(d.applied, Versions \ {m})
         /\ Down(m, d).schema = (d.schema \ Adds(m)) \cup Drops(m)
         /\ Kept(DownRows(m, d), Down(m, d), {"applied", "schema"})
<1> DEFINE e == DownRows(m, d)
<1>1. IsRow(e)
  <2>1. m = 1 \/ m = 2 \/ m = 3 \/ m = 4
    BY DEF Versions
  <2>2. DownRows(m, d) \in {Empty, LocationsDropped(d), PlaceFlowReverted(d), d}
    BY <2>1 DEF DownRows
  <2>3. IsRow(Empty) /\ IsRow(LocationsDropped(d)) /\ IsRow(PlaceFlowReverted(d))
    BY LocationRows, PlaceFlowRows, EmptyRow
  <2>4. QED BY <2>2, <2>3
<1>2. Down(m, d) = [e EXCEPT !.schema = (d.schema \ Adds(m)) \cup Drops(m),
                             !.applied = Keep(d.applied, Versions \ {m})]
  BY DEF Down
<1> HIDE DEF e
<1>3. /\ IsRow(Down(m, d)) /\ Down(m, d).applied = Keep(d.applied, Versions \ {m})
      /\ Down(m, d).schema = (d.schema \ Adds(m)) \cup Drops(m)
      /\ Kept(e, Down(m, d), {"applied", "schema"})
  BY <1>1, <1>2 DEF IsRow, Kept, Fields
<1>4. QED BY <1>1, <1>3 DEF e

-----------------------------------------------------------------------------
(* The seeds.                                                              *)

LEMMA SlugSeeds ==
  /\ DOMAIN SeedSlugs = 1..8 /\ DOMAIN SeedOrders = 1..8
  /\ Slugs = {SeedSlugs[k] : k \in 1..8}
  /\ \A k \in 1..8 : SeedSlugs[k] \in Slugs /\ SeedOrders[k] \in 1..8
  /\ \A j, k \in 1..8 : j # k => SeedSlugs[j] # SeedSlugs[k] /\ SeedOrders[j] # SeedOrders[k]
<1>1. DOMAIN SeedSlugs = 1..8 /\ DOMAIN SeedOrders = 1..8
  BY DEF SeedSlugs, SeedOrders
<1>2. \A k \in 1..8 : k = 1 \/ k = 2 \/ k = 3 \/ k = 4 \/ k = 5 \/ k = 6 \/ k = 7 \/ k = 8
  OBVIOUS
<1>3. /\ SeedSlugs[1] = "cafe" /\ SeedSlugs[2] = "restaurant" /\ SeedSlugs[3] = "walk"
      /\ SeedSlugs[4] = "bar" /\ SeedSlugs[5] = "shopping" /\ SeedSlugs[6] = "activity"
      /\ SeedSlugs[7] = "culture" /\ SeedSlugs[8] = "other"
  BY DEF SeedSlugs
<1>4. /\ SeedOrders[1] = 2 /\ SeedOrders[2] = 1 /\ SeedOrders[3] = 4 /\ SeedOrders[4] = 3
      /\ SeedOrders[5] = 5 /\ SeedOrders[6] = 6 /\ SeedOrders[7] = 7 /\ SeedOrders[8] = 8
  BY DEF SeedOrders
<1>5. Slugs = {SeedSlugs[k] : k \in 1..8}
  BY <1>1 DEF Slugs, RangeOf
<1>6. \A k \in 1..8 : SeedOrders[k] \in 1..8
  BY <1>2, <1>4
<1>7. ASSUME NEW j \in 1..8, NEW k \in 1..8, j # k PROVE SeedSlugs[j] # SeedSlugs[k]
  BY <1>2, <1>3, <1>7
<1>8. ASSUME NEW j \in 1..8, NEW k \in 1..8, j # k PROVE SeedOrders[j] # SeedOrders[k]
  BY <1>2, <1>4, <1>8
<1>9. QED BY <1>1, <1>5, <1>6, <1>7, <1>8

LEMMA TypeSeeds ==
  /\ DOMAIN SeedTypes = 1..9
  /\ Codes = {SeedTypes[k] : k \in 1..9}
<1>1. DOMAIN SeedTypes = 1..9
  BY DEF SeedTypes
<1>2. QED BY <1>1 DEF Codes, RangeOf

LEMMA SlugRanks ==
  /\ IsFiniteSet(Slugs)
  /\ \A k \in 1..8 : RankOf(SeedSlugs[k]) = k
  /\ \A s \in Slugs : RankOf(s) \in 1..8 /\ SeedSlugs[RankOf(s)] = s
<1> DEFINE f == [k \in 1..8 |-> SeedSlugs[k]]
<1>1. f \in Surjection(1..8, Slugs)
  BY SlugSeeds DEF Surjection
<1>2. IsFiniteSet(Slugs)
  <2> HIDE DEF f
  <2>1. IsFiniteSet(1..8)
    BY FS_Interval, 1 \in Int, 8 \in Int
  <2>2. QED BY <1>1, <2>1, FS_Surjection
<1>3. ASSUME NEW k \in 1..8 PROVE RankOf(SeedSlugs[k]) = k
  <2>1. \A j \in 1..8 : SeedSlugs[j] = SeedSlugs[k] => j = k
    BY SlugSeeds
  <2>2. QED BY <2>1, SlugSeeds DEF RankOf
<1>4. QED BY <1>2, <1>3, SlugSeeds

\* The new rows of a table of categories get ids beyond those in use.
LEMMA LastIdBounds ==
  ASSUME NEW rows, IsFiniteSet(DOMAIN rows), \A s \in DOMAIN rows : rows[s].id \in Nat \ {0}
  PROVE  LastId(rows) \in Nat /\ \A s \in DOMAIN rows : rows[s].id <= LastId(rows)
<1> DEFINE I == {rows[s].id : s \in DOMAIN rows}
           f == [s \in DOMAIN rows |-> rows[s].id]
<1>1. f \in Surjection(DOMAIN rows, I)
  BY DEF Surjection
<1>2. IsFiniteSet(I)
  BY <1>1, FS_Surjection
<1>3. IsFiniteSet({0} \cup I) /\ {0} \cup I \in SUBSET Nat /\ {0} \cup I # {}
  <2> DEFINE J == {0} \cup I
  <2>1. J \in SUBSET Nat /\ J # {} /\ J = I \cup {0}
    OBVIOUS
  <2> HIDE DEF I, J
  <2>2. IsFiniteSet(J)
    BY <1>2, <2>1, FS_AddElement
  <2>3. QED BY <2>1, <2>2 DEF J
<1>4. \E n \in {0} \cup I : \A i \in {0} \cup I : i <= n
  BY <1>3, GreatestExists
<1>5. \E n \in {0} \cup I : \A s \in DOMAIN rows : rows[s].id <= n
  BY <1>4
<1>6. QED BY <1>3, <1>5 DEF LastId

-----------------------------------------------------------------------------
(* A migration of a database with its columns leaves one.                  *)

LEMMA SeededTyped ==
  ASSUME NEW rows, IsFiniteSet(DOMAIN rows),
         \A s \in DOMAIN rows :
           rows[s] \in [id : Nat \ {0}, name : LegacyNames \cup Slugs, order : Int]
  PROVE  /\ IsFiniteSet(DOMAIN CategoriesSeeded(rows))
         /\ \A s \in DOMAIN CategoriesSeeded(rows) :
              CategoriesSeeded(rows)[s] \in [id : Nat \ {0}, name : LegacyNames \cup Slugs, order : Int]
<1>1. DOMAIN CategoriesSeeded(rows) = DOMAIN rows \cup Slugs
  BY DEF CategoriesSeeded
<1>2. IsFiniteSet(DOMAIN rows \cup Slugs)
  BY SlugRanks, FS_Union
<1>3. LastId(rows) \in Nat
  BY LastIdBounds
<1>4. ASSUME NEW s \in DOMAIN rows \cup Slugs
      PROVE  CategoriesSeeded(rows)[s] \in [id : Nat \ {0}, name : LegacyNames \cup Slugs, order : Int]
  <2>1. CASE s \in Slugs
    <3>1. RankOf(s) \in 1..8 /\ SeedOrders[RankOf(s)] \in Int /\ LastId(rows) + RankOf(s) \in Nat \ {0}
      BY <1>3, <2>1, SlugRanks, SlugSeeds
    <3>2. s \in DOMAIN rows => rows[s].id \in Nat \ {0}
      OBVIOUS
    <3>3. QED BY <2>1, <3>1, <3>2 DEF CategoriesSeeded
  <2>2. CASE s \notin Slugs
    <3>1. s \in DOMAIN rows /\ -rows[s].id \in Int
      BY <2>2
    <3>2. CategoriesSeeded(rows)[s] = [rows[s] EXCEPT !.order = -rows[s].id]
      BY <2>2 DEF CategoriesSeeded
    <3>3. QED BY <3>1, <3>2
  <2>3. QED BY <2>1, <2>2
<1>5. QED BY <1>1, <1>2, <1>4

LEMMA RecordedColumns ==
  ASSUME NEW e, Columns(e), NEW x, IsRow(x), Kept(e, x, {"applied", "schema"}),
         x.applied \in Seq(Versions), x.schema \in SUBSET Schema
  PROVE  Columns(x)
<1>1. /\ x.categories = e.categories /\ x.types = e.types /\ x.joined = e.joined
      /\ x.nickname = e.nickname /\ x.avatar = e.avatar /\ x.member = e.member
      /\ x.start = e.start /\ x.location = e.location
      /\ x.previewRequired = e.previewRequired /\ x.previewNull = e.previewNull
      /\ x.google = e.google
  BY DEF Kept, Fields
<1>2. QED BY <1>1, ColumnsIntro DEF Columns

LEMMA LocationColumns ==
  ASSUME NEW d, Columns(d)
  PROVE  Columns(LocationsCopied(d)) /\ Columns(LocationsDropped(d))
<1>1. ASSUME NEW x, IsRow(x), Kept(d, x, {"location", "previewRequired"}),
             x.location \in Addresses \cup {None}, x.previewRequired \in BOOLEAN
      PROVE  Columns(x)
  <2>1. /\ x.categories = d.categories /\ x.types = d.types /\ x.joined = d.joined
        /\ x.nickname = d.nickname /\ x.avatar = d.avatar /\ x.member = d.member
        /\ x.start = d.start /\ x.previewNull = d.previewNull /\ x.google = d.google
        /\ x.applied = d.applied /\ x.schema = d.schema
    BY <1>1 DEF Kept, Fields
  <2>2. QED BY <1>1, <2>1, ColumnsIntro DEF Columns
<1>2. IsRow(d) /\ d.start \in Addresses \cup {None}
  BY ColumnsRow DEF Columns
<1> DEFINE x == LocationsCopied(d)
           y == LocationsDropped(d)
<1>3. /\ IsRow(x) /\ Kept(d, x, {"location", "previewRequired"})
      /\ x.location \in Addresses \cup {None} /\ x.previewRequired \in BOOLEAN
      /\ IsRow(y) /\ Kept(d, y, {"location", "previewRequired"})
      /\ y.location \in Addresses \cup {None} /\ y.previewRequired \in BOOLEAN
  BY <1>2, LocationRows
<1> HIDE DEF x, y
<1>4. Columns(x) /\ Columns(y)
  BY <1>1, <1>3
<1>5. QED BY <1>4 DEF x, y

LEMMA CompletedColumns ==
  ASSUME NEW d, Columns(d), DOMAIN d.types \subseteq 1..9
  PROVE  Columns(PlaceFlowCompleted(d))
<1> DEFINE a == AvatarsMoved(d)
           x == PlaceFlowCompleted(d)
<1>1. IsRow(d)
  BY ColumnsRow
<1>2. /\ x.avatar = a.avatar /\ x.member = a.member /\ x.joined = d.joined
      /\ x.nickname = d.nickname /\ x.location = d.location
      /\ x.previewNull = d.previewNull /\ x.google = d.google
      /\ x.applied = d.applied /\ x.schema = d.schema
  <2>1. Kept(a, x, {"start", "previewRequired", "categories", "types"})
    BY <1>1, PlaceFlowRows
  <2>2. Kept(d, a, {"member", "avatar"})
    BY <1>1, AvatarRows
  <2> HIDE DEF a, x
  <2>3. QED BY <2>1, <2>2 DEF Kept, Fields
<1>3. a.avatar \in [Users -> Avatars \cup {None}] /\ a.member \in [Users -> Avatars \cup {None}]
  <2>1. d.avatar \in [Users -> Avatars \cup {None}]
    BY DEF Columns
  <2>2. /\ a.avatar = Nobody
        /\ a.member = [u \in Users |-> IF u \notin d.joined THEN None
                                        ELSE IF d.avatar[u] = None THEN DefaultAvatar
                                        ELSE d.avatar[u]]
    BY <1>1, AvatarRows
  <2> HIDE DEF a
  <2>3. QED BY <2>1, <2>2, DefaultAssumption DEF Nobody
<1>4. /\ IsFiniteSet(DOMAIN x.categories)
      /\ \A s \in DOMAIN x.categories :
           x.categories[s] \in [id : Nat \ {0}, name : LegacyNames \cup Slugs, order : Int]
  <2>1. x.categories = CategoriesSeeded(d.categories)
    BY <1>1, PlaceFlowRows
  <2>2. QED BY <2>1, SeededTyped DEF Columns
<1>5. \A o \in DOMAIN x.types :
        x.types[o] \in [name : LegacyNames \cup Codes, code : Codes \cup {None}]
  <2>1. x.types = TypesSeeded(d.types)
    BY <1>1, PlaceFlowRows
  <2>2. TypesSeeded(d.types) = [o \in 1..9 |-> [name |-> SeedTypes[o], code |-> SeedTypes[o]]]
    <3>1. DOMAIN d.types \cup DOMAIN SeedTypes = 1..9
      BY TypeSeeds
    <3>2. QED BY <3>1 DEF TypesSeeded
  <2>3. QED BY <2>1, <2>2, TypeSeeds
<1>6. IsRow(x) /\ x.start = None /\ x.previewRequired = FALSE
  BY <1>1, PlaceFlowRows
<1>7. Columns(x)
  <2> HIDE DEF a, x
  <2>1. QED BY <1>2, <1>3, <1>4, <1>5, <1>6, ColumnsIntro DEF Columns
<1>8. QED BY <1>7

LEMMA RevertedColumns ==
  ASSUME NEW d, Columns(d)
  PROVE  Columns(PlaceFlowReverted(d))
<1> DEFINE a == AvatarsReturned(d)
           x == PlaceFlowReverted(d)
<1>1. IsRow(d)
  BY ColumnsRow
<1>2. /\ x.avatar = a.avatar /\ x.member = a.member /\ x.joined = d.joined
      /\ x.nickname = d.nickname /\ x.location = d.location /\ x.categories = d.categories
      /\ x.previewNull = d.previewNull /\ x.google = d.google
      /\ x.applied = d.applied /\ x.schema = d.schema
  <2>1. Kept(a, x, {"start", "previewRequired", "types"})
    BY <1>1, PlaceFlowRows
  <2>2. Kept(d, a, {"member", "avatar"})
    BY <1>1, AvatarRows
  <2> HIDE DEF a, x
  <2>3. QED BY <2>1, <2>2 DEF Kept, Fields
<1>3. a.avatar \in [Users -> Avatars \cup {None}] /\ a.member \in [Users -> Avatars \cup {None}]
  <2>1. d.member \in [Users -> Avatars \cup {None}]
    BY DEF Columns
  <2>2. /\ a.member = Nobody
        /\ a.avatar = [u \in Users |-> IF u \in d.joined THEN d.member[u] ELSE None]
    BY <1>1, AvatarRows
  <2> HIDE DEF a
  <2>3. QED BY <2>1, <2>2 DEF Nobody
<1>4. \A o \in DOMAIN x.types :
        x.types[o] \in [name : LegacyNames \cup Codes, code : Codes \cup {None}]
  <2>1. x.types = [o \in DOMAIN d.types |-> [d.types[o] EXCEPT !.code = None]]
    BY <1>1, PlaceFlowRows
  <2>2. \A o \in DOMAIN d.types :
          d.types[o] \in [name : LegacyNames \cup Codes, code : Codes \cup {None}]
    BY DEF Columns
  <2>3. QED BY <2>1, <2>2
<1>5. IsRow(x) /\ x.start = None /\ x.previewRequired = TRUE
  BY <1>1, PlaceFlowRows
<1>6. Columns(x)
  <2> HIDE DEF a, x
  <2>1. QED BY <1>2, <1>3, <1>4, <1>5, ColumnsIntro DEF Columns
<1>7. QED BY <1>6

LEMMA EmptyColumns == Columns(Empty)
<1>1. DOMAIN NoRows = {} /\ IsFiniteSet({})
  BY FS_EmptySet DEF NoRows
<1>2. Nobody \in [Users -> Nicknames \cup {None}] /\ Nobody \in [Users -> Avatars \cup {None}]
  BY DEF Nobody
<1> DEFINE x == Empty
<1>3. /\ IsRow(x)
      /\ x.applied = <<>> /\ x.schema = {} /\ x.categories = NoRows /\ x.types = NoRows
      /\ x.joined = {} /\ x.nickname = Nobody /\ x.avatar = Nobody /\ x.member = Nobody
      /\ x.start = None /\ x.location = None /\ x.previewRequired = TRUE
      /\ x.previewNull = FALSE /\ x.google = FALSE
  BY EmptyRow
<1> HIDE DEF x
<1>4. /\ IsFiniteSet(DOMAIN x.categories)
      /\ \A s \in DOMAIN x.categories :
           x.categories[s] \in [id : Nat \ {0}, name : LegacyNames \cup Slugs, order : Int]
      /\ \A o \in DOMAIN x.types :
           x.types[o] \in [name : LegacyNames \cup Codes, code : Codes \cup {None}]
  BY <1>1, <1>3
<1>5. /\ x.applied \in Seq(Versions) /\ x.schema \in SUBSET Schema /\ x.joined \in SUBSET Users
      /\ x.nickname \in [Users -> Nicknames \cup {None}]
      /\ x.avatar \in [Users -> Avatars \cup {None}] /\ x.member \in [Users -> Avatars \cup {None}]
  <2>1. x.applied = <<>> /\ x.schema = {} /\ x.joined = {}
    BY <1>3
  <2>2. x.applied \in Seq(Versions) /\ x.schema \in SUBSET Schema /\ x.joined \in SUBSET Users
    BY <2>1
  <2>3. x.nickname = Nobody /\ x.avatar = Nobody /\ x.member = Nobody
    BY <1>3
  <2>4. QED BY <1>2, <2>2, <2>3
<1>9. x.previewRequired \in BOOLEAN /\ x.previewNull \in BOOLEAN /\ x.google \in BOOLEAN
  BY <1>3
<1>6. x.start \in Addresses \cup {None} /\ x.location \in Addresses \cup {None}
  <2>1. x.start = None /\ x.location = None
    BY <1>3
  <2>2. QED BY <2>1
<1>7. IsRow(x)
  BY <1>3
<1>8. Columns(x)
  BY <1>4, <1>5, <1>6, <1>7, <1>9, ColumnsIntro
<1>10. QED BY <1>8 DEF x

LEMMA UpColumns ==
  ASSUME NEW d, Columns(d), NEW m \in Versions, UpAdmits(m, d)
  PROVE  Columns(Up(m, d))
<1> DEFINE e == UpRows(m, d)
           x == Up(m, d)
<1>1. IsRow(d) /\ IsRow(x) /\ Kept(e, x, {"applied", "schema"})
  BY ColumnsRow, UpEffect
<1>2. x.applied \in Seq(Versions) /\ x.schema \in SUBSET Schema
  <2>1. d.applied \in Seq(Versions) /\ d.schema \in SUBSET Schema /\ Adds(m) \subseteq Schema
    BY DEF Columns, Schema
  <2>2. /\ x.applied = Append(d.applied, m)
        /\ x.schema = (d.schema \ Drops(m)) \cup Adds(m)
    BY <1>1, UpEffect
  <2> HIDE DEF x
  <2>3. QED BY <2>1, <2>2
<1>3. Columns(e)
  <2>1. e \in {d, LocationsCopied(d), PlaceFlowCompleted(d)} /\ (e = PlaceFlowCompleted(d) \/ m # 3)
    BY DEF UpRows
  <2>2. m = 3 => DOMAIN d.types \subseteq 1..9
    BY DEF UpAdmits
  <2>3. CASE m = 3
    BY <2>1, <2>2, <2>3, CompletedColumns
  <2>4. CASE m # 3
    <3>1. e = d \/ e = LocationsCopied(d)
      BY <2>4 DEF UpRows
    <3>2. QED BY <3>1, LocationColumns
  <2>5. QED BY <2>3, <2>4
<1> HIDE DEF e, x
<1>4. Columns(x)
  BY <1>1, <1>2, <1>3, RecordedColumns
<1>5. QED BY <1>4 DEF x

LEMMA DownColumns ==
  ASSUME NEW d, Columns(d), NEW m \in Versions
  PROVE  Columns(Down(m, d))
<1> DEFINE e == DownRows(m, d)
           x == Down(m, d)
<1>1. IsRow(d) /\ IsRow(x) /\ Kept(e, x, {"applied", "schema"})
  BY ColumnsRow, DownEffect
<1>2. x.applied \in Seq(Versions) /\ x.schema \in SUBSET Schema
  <2>1. d.applied \in Seq(Versions) /\ d.schema \in SUBSET Schema /\ Drops(m) \subseteq Schema
    BY DropsFirst DEF Columns, Schema, Versions, Drops
  <2>2. /\ x.applied = Keep(d.applied, Versions \ {m})
        /\ x.schema = (d.schema \ Adds(m)) \cup Drops(m)
    BY <1>1, DownEffect
  <2> HIDE DEF x
  <2>3. QED BY <2>1, <2>2, KeepType
<1>3. Columns(e)
  <2>1. m = 1 \/ m = 2 \/ m = 3 \/ m = 4
    BY DEF Versions
  <2>2. e \in {Empty, LocationsDropped(d), PlaceFlowReverted(d), d}
    BY <2>1 DEF DownRows
  <2>3. Columns(Empty) /\ Columns(LocationsDropped(d)) /\ Columns(PlaceFlowReverted(d))
    BY EmptyColumns, LocationColumns, RevertedColumns
  <2> HIDE DEF e
  <2>4. QED BY <2>2, <2>3
<1> HIDE DEF e, x
<1>4. Columns(x)
  BY <1>1, <1>2, <1>3, RecordedColumns
<1>5. QED BY <1>4 DEF x

-----------------------------------------------------------------------------
(* A migration of a built database leaves one.                             *)

\* What a list can still name beyond the executed migrations is the next one.
LEMMA UpBuilt ==
  ASSUME NEW d, Columns(d), Built(d), NEW m \in Versions, m <= Len(d.applied) + 1,
         UpFits(m, d), UpAdmits(m, d)
  PROVE  m = Len(d.applied) + 1 /\ Built(Up(m, d)) /\ Len(Up(m, d).applied) = m
<1> DEFINE n == Len(d.applied)
           e == UpRows(m, d)
           x == Up(m, d)
<1>1. /\ n \in 0..4 /\ \A i \in 1..n : d.applied[i] = i
      /\ d.schema = SchemaUpTo(n)
      /\ n >= 3 => ~d.previewRequired
      /\ n <= 1 => d.previewRequired
  BY BuiltCounts
<1>2. m = n + 1 /\ n \in 0..3
  <2> HIDE DEF n
  <2>1. m \in 1..4 /\ (m <= n => m \in 1..n)
    BY <1>1 DEF Versions
  <2>2. ~(m <= n)
    BY <1>1, <2>1, ExecutedRefused
  <2>3. m <= n + 1
    BY DEF n
  <2>4. QED BY <1>1, <2>1, <2>2, <2>3
<1>3. IsRow(d) /\ IsRow(x) /\ Kept(e, x, {"applied", "schema"}) /\ Columns(x)
  BY ColumnsRow, UpEffect, UpColumns
<1>4. x.applied = Append(d.applied, m) /\ x.schema = SchemaUpTo(m)
  <2>1. x.applied = Append(d.applied, m) /\ x.schema = (d.schema \ Drops(m)) \cup Adds(m)
    BY <1>3, UpEffect
  <2> HIDE DEF n, x
  <2>2. QED BY <1>1, <1>2, <2>1, NextFits
<1>5. Len(x.applied) = m /\ \A i \in 1..m : x.applied[i] = i
  <2>1. d.applied \in Seq(Versions)
    BY DEF Columns
  <2> HIDE DEF x
  <2>2. Len(x.applied) = n + 1 /\ \A i \in 1..(n + 1) : x.applied[i] = IF i <= n THEN d.applied[i] ELSE m
    BY <1>4, <2>1
  <2> HIDE DEF n
  <2>3. \A i \in 1..m : i <= n => i \in 1..n
    BY <1>1, <1>2
  <2>4. QED BY <1>1, <1>2, <2>2, <2>3
<1>6. x.previewRequired = e.previewRequired
  <2> HIDE DEF e, x
  <2>1. QED BY <1>3 DEF Kept, Fields
<1>7. (m >= 3 => ~e.previewRequired) /\ (m <= 1 => e.previewRequired)
  <2>1. CASE m = 1
    <3>1. e = d
      BY <2>1 DEF UpRows
    <3>2. n <= 1
      BY <1>2, <2>1
    <3>3. ~(m >= 3)
      BY <2>1
    <3> HIDE DEF e, n
    <3>4. QED BY <1>1, <3>1, <3>2, <3>3
  <2>2. CASE m = 2
    <3>1. ~(m >= 3) /\ ~(m <= 1)
      BY <2>2
    <3>2. QED BY <3>1
  <2>3. CASE m = 3
    <3>1. e = PlaceFlowCompleted(d)
      BY <2>3 DEF UpRows
    <3>2. e.previewRequired = FALSE
      BY <1>3, <3>1, PlaceFlowRows
    <3>3. ~(m <= 1)
      BY <2>3
    <3> HIDE DEF e
    <3>4. QED BY <3>2, <3>3
  <2>4. CASE m = 4
    <3>1. e = d
      BY <2>4 DEF UpRows
    <3>2. n >= 3
      BY <1>2, <2>4
    <3>3. ~(m <= 1)
      BY <2>4
    <3> HIDE DEF e, n
    <3>4. QED BY <1>1, <3>1, <3>2, <3>3
  <2>5. m = 1 \/ m = 2 \/ m = 3 \/ m = 4
    BY DEF Versions
  <2>6. QED BY <2>1, <2>2, <2>3, <2>4, <2>5
<1>8. Built(x)
  <2>1. m \in 0..4
    BY DEF Versions
  <2> HIDE DEF x, e
  <2>2. (m >= 3 => ~x.previewRequired) /\ (m <= 1 => x.previewRequired)
    BY <1>6, <1>7
  <2>3. /\ Len(x.applied) \in 0..4 /\ \A i \in 1..Len(x.applied) : x.applied[i] = i
        /\ x.schema = SchemaUpTo(Len(x.applied))
        /\ Len(x.applied) >= 3 => ~x.previewRequired
        /\ Len(x.applied) <= 1 => x.previewRequired
    BY <1>4, <1>5, <2>1, <2>2
  <2>4. QED BY <1>3, <2>3, BuiltCounts
<1>9. QED BY <1>2, <1>5, <1>8

LEMMA DownBuilt ==
  ASSUME NEW d, Columns(d), Built(d), d.applied # <<>>, NEW m, m = d.applied[Len(d.applied)]
  PROVE  /\ m = Len(d.applied) /\ m \in Versions /\ DownFits(m, d)
         /\ Built(Down(m, d)) /\ Down(m, d).applied = SubSeq(d.applied, 1, m - 1)
<1> DEFINE n == Len(d.applied)
           e == DownRows(m, d)
           x == Down(m, d)
<1>1. /\ n \in 0..4 /\ \A i \in 1..n : d.applied[i] = i
      /\ d.schema = SchemaUpTo(n)
      /\ n >= 3 => ~d.previewRequired
      /\ n <= 1 => d.previewRequired
  BY BuiltCounts
<1>2. d.applied \in Seq(Versions)
  BY DEF Columns
<1>3. m = n /\ m \in 1..4 /\ m \in Versions
  <2>1. n # 0
    BY <1>2
  <2>2. n \in 1..n
    BY <1>1, <2>1
  <2>3. m = n
    BY <1>1, <2>2
  <2> HIDE DEF n
  <2>4. QED BY <1>1, <2>1, <2>3 DEF Versions
<1>4. IsRow(d) /\ IsRow(x) /\ Kept(e, x, {"applied", "schema"}) /\ Columns(x)
  BY <1>3, ColumnsRow, DownEffect, DownColumns
<1>5. DownFits(m, d) /\ x.schema = SchemaUpTo(m - 1)
  <2>1. x.schema = (d.schema \ Adds(m)) \cup Drops(m)
    BY <1>3, <1>4, DownEffect
  <2> HIDE DEF n, x
  <2>2. QED BY <1>1, <1>3, <2>1, LastReverts
<1>6. x.applied = SubSeq(d.applied, 1, m - 1)
  <2>1. x.applied = Keep(d.applied, Versions \ {m})
    BY <1>3, <1>4, DownEffect
  <2>2. \A i \in 1..Len(d.applied) : d.applied[i] \in Versions \ {m} <=> 1 <= i /\ i <= m - 1
    <3>1. \A i \in 1..n : d.applied[i] = i /\ i \in 1..m
      BY <1>1, <1>3
    <3>0. m \in 1..4
      BY <1>3
    <3>2. ASSUME NEW i \in 1..m PROVE i \in 1..4 /\ (i # m <=> 1 <= i /\ i <= m - 1)
      BY <3>0
    <3>3. QED BY <3>1, <3>2 DEF Versions
  <2>3. 1 \in Nat /\ m - 1 \in Nat /\ 1 <= 1 /\ 1 <= m - 1 + 1 /\ m - 1 <= Len(d.applied)
    BY <1>3
  <2> HIDE DEF x
  <2>4. Keep(d.applied, Versions \ {m}) = SubSeq(d.applied, 1, m - 1)
    BY <1>2, <2>2, <2>3, KeepInterval
  <2>5. QED BY <2>1, <2>4
<1>7. Len(x.applied) = m - 1 /\ \A i \in 1..(m - 1) : x.applied[i] = i
  <2> HIDE DEF x
  <2>1. m - 1 \in 0..Len(d.applied) /\ \A i \in 1..(m - 1) : i \in 1..n
    BY <1>3
  <2>2. Len(x.applied) = m - 1 /\ \A i \in 1..(m - 1) : x.applied[i] = d.applied[i]
    BY <1>2, <1>3, <1>6, <2>1
  <2>3. QED BY <1>1, <2>1, <2>2
<1>8. x.previewRequired = e.previewRequired
  <2> HIDE DEF e, x
  <2>1. QED BY <1>4 DEF Kept, Fields
<1>9. (m - 1 >= 3 => ~e.previewRequired) /\ (m - 1 <= 1 => e.previewRequired)
  <2>1. CASE m = 1
    <3>1. e = Empty
      BY <2>1 DEF DownRows
    <3>2. e.previewRequired = TRUE
      BY <3>1, EmptyRow
    <3>3. ~(m - 1 >= 3)
      BY <2>1
    <3> HIDE DEF e
    <3>4. QED BY <3>2, <3>3
  <2>2. CASE m = 2
    <3>1. e = LocationsDropped(d)
      BY <2>2 DEF DownRows
    <3>2. e.previewRequired = TRUE
      BY <1>4, <3>1, LocationRows
    <3>3. ~(m - 1 >= 3)
      BY <2>2
    <3> HIDE DEF e
    <3>4. QED BY <3>2, <3>3
  <2>3. CASE m = 3
    <3>1. ~(m - 1 >= 3) /\ ~(m - 1 <= 1)
      BY <2>3
    <3>2. QED BY <3>1
  <2>4. CASE m = 4
    <3>1. e = d
      BY <2>4 DEF DownRows
    <3>2. n >= 3 /\ ~(m - 1 <= 1)
      BY <1>3, <2>4
    <3> HIDE DEF e, n
    <3>3. QED BY <1>1, <3>1, <3>2
  <2>5. m = 1 \/ m = 2 \/ m = 3 \/ m = 4
    BY <1>3
  <2>6. QED BY <2>1, <2>2, <2>3, <2>4, <2>5
<1>10. Built(x)
  <2>1. m - 1 \in 0..4
    BY <1>3
  <2> HIDE DEF x, e
  <2>2. (m - 1 >= 3 => ~x.previewRequired) /\ (m - 1 <= 1 => x.previewRequired)
    BY <1>8, <1>9
  <2>3. /\ Len(x.applied) \in 0..4 /\ \A i \in 1..Len(x.applied) : x.applied[i] = i
        /\ x.schema = SchemaUpTo(Len(x.applied))
        /\ Len(x.applied) >= 3 => ~x.previewRequired
        /\ Len(x.applied) <= 1 => x.previewRequired
    BY <1>5, <1>7, <2>1, <2>2
  <2>4. QED BY <1>4, <2>3, BuiltCounts
<1>11. QED BY <1>3, <1>5, <1>6, <1>10

-----------------------------------------------------------------------------
(* What the releases write.                                                *)

LEMMA LegacyUseWrites ==
  ASSUME IsRow(db), NEW c, LegacyUse(c)
  PROVE  /\ IsRow(db') /\ db'.categories = c.categories /\ db'.types = c.types
         /\ db'.joined = c.joined /\ db'.nickname = c.nickname
         /\ db'.avatar = c.avatar /\ db'.start = c.start
         /\ Kept(db, db', {"categories", "types", "joined", "nickname", "avatar", "start"})
BY DEF LegacyUse, IsRow, Kept, Fields

LEMMA JoinWrites ==
  ASSUME IsRow(db), NEW u, NEW a, NEW n, NEW l, Join(u, a, n, l)
  PROVE  /\ IsRow(db') /\ db'.joined = db.joined \cup {u}
         /\ db'.nickname = [db.nickname EXCEPT ![u] = n]
         /\ db'.member = [db.member EXCEPT ![u] = a]
         /\ db'.location = IF db.joined = {} THEN l ELSE db.location
         /\ Kept(db, db', {"joined", "nickname", "member", "location"})
<1> DEFINE d == db
           x == db'
           j == db.joined \cup {u}
           w == IF db.joined = {} THEN l ELSE db.location
<1>1. x = [d EXCEPT !.joined = j, !.nickname[u] = n, !.member[u] = a, !.location = w]
  BY DEF Join
<1>2. IsRow(d)
  OBVIOUS
<1> HIDE DEF d, x, j, w
<1>3. /\ IsRow(x) /\ x.joined = j /\ x.nickname = [d.nickname EXCEPT ![u] = n]
      /\ x.member = [d.member EXCEPT ![u] = a] /\ x.location = w
      /\ Kept(d, x, {"joined", "nickname", "member", "location"})
  BY <1>1, <1>2 DEF IsRow, Kept, Fields
<1>4. QED BY <1>3 DEF d, x, j, w

LEMMA StorePlaceWrites ==
  ASSUME IsRow(db), StorePlace
  PROVE  /\ IsRow(db') /\ db'.google = TRUE /\ db'.previewNull = TRUE
         /\ Kept(db, db', {"google", "previewNull"})
BY DEF StorePlace, IsRow, Kept, Fields

-----------------------------------------------------------------------------
(* Types.                                                                  *)

LEMMA LegacyUseColumns ==
  ASSUME Columns(db), NEW c \in Contents, LegacyUse(c)
  PROVE  Columns(db') /\ chosen' \in [Users -> Avatars \cup {None}]
<1> DEFINE x == db'
<1>1. IsRow(db)
  BY ColumnsRow
<1>2. /\ IsRow(x) /\ x.categories = c.categories /\ x.types = c.types
      /\ x.joined = c.joined /\ x.nickname = c.nickname
      /\ x.avatar = c.avatar /\ x.start = c.start
      /\ Kept(db, x, {"categories", "types", "joined", "nickname", "avatar", "start"})
  BY <1>1, LegacyUseWrites
<1> HIDE DEF x
<1>3. /\ x.applied = db.applied /\ x.schema = db.schema /\ x.member = db.member
      /\ x.location = db.location /\ x.previewRequired = db.previewRequired
      /\ x.previewNull = db.previewNull /\ x.google = db.google
  BY <1>2 DEF Kept, Fields
<1>4. /\ x.applied \in Seq(Versions) /\ x.schema \in SUBSET Schema
      /\ x.member \in [Users -> Avatars \cup {None}] /\ x.location \in Addresses \cup {None}
      /\ x.previewRequired \in BOOLEAN /\ x.previewNull \in BOOLEAN /\ x.google \in BOOLEAN
  BY <1>3 DEF Columns
<1>5. /\ IsFiniteSet(DOMAIN c.categories) /\ c.joined \in SUBSET Users
      /\ c.nickname \in [Users -> Nicknames \cup {None}]
      /\ c.avatar \in [Users -> Avatars \cup {None}]
      /\ c.start \in Addresses \cup {None}
  BY ContentsAssumption
<1>6. \A s \in DOMAIN c.categories :
        c.categories[s] \in [id : Nat \ {0}, name : LegacyNames, order : Int]
  BY ContentsAssumption
<1>7. \A o \in DOMAIN c.types : c.types[o] \in [name : LegacyNames, code : {None}]
  BY ContentsAssumption
<1>8. \A s \in DOMAIN c.categories :
        c.categories[s] \in [id : Nat \ {0}, name : LegacyNames \cup Slugs, order : Int]
  BY <1>6
<1>9. \A o \in DOMAIN c.types :
        c.types[o] \in [name : LegacyNames \cup Codes, code : Codes \cup {None}]
  BY <1>7
<1>10. Columns(x)
  BY <1>2, <1>4, <1>5, <1>8, <1>9, ColumnsIntro
<1>11. chosen' = c.avatar
  BY DEF LegacyUse
<1>12. QED BY <1>5, <1>10, <1>11 DEF x

LEMMA JoinColumns ==
  ASSUME Columns(db), NEW u \in Users, NEW a \in Avatars, NEW n \in Nicknames,
         NEW l \in Addresses, Join(u, a, n, l)
  PROVE  Columns(db')
<1> DEFINE x == db'
<1>1. IsRow(db)
  BY ColumnsRow
<1>2. /\ IsRow(x) /\ x.joined = db.joined \cup {u}
      /\ x.nickname = [db.nickname EXCEPT ![u] = n]
      /\ x.member = [db.member EXCEPT ![u] = a]
      /\ x.location = IF db.joined = {} THEN l ELSE db.location
      /\ Kept(db, x, {"joined", "nickname", "member", "location"})
  BY <1>1, JoinWrites
<1> HIDE DEF x
<1>3. /\ x.applied = db.applied /\ x.schema = db.schema /\ x.categories = db.categories
      /\ x.types = db.types /\ x.avatar = db.avatar /\ x.start = db.start
      /\ x.previewRequired = db.previewRequired
      /\ x.previewNull = db.previewNull /\ x.google = db.google
  BY <1>2 DEF Kept, Fields
<1>4. /\ x.applied \in Seq(Versions) /\ x.schema \in SUBSET Schema
      /\ x.avatar \in [Users -> Avatars \cup {None}] /\ x.start \in Addresses \cup {None}
      /\ x.previewRequired \in BOOLEAN /\ x.previewNull \in BOOLEAN /\ x.google \in BOOLEAN
  BY <1>3 DEF Columns
<1>5. /\ IsFiniteSet(DOMAIN x.categories)
      /\ \A s \in DOMAIN x.categories :
           x.categories[s] \in [id : Nat \ {0}, name : LegacyNames \cup Slugs, order : Int]
      /\ \A o \in DOMAIN x.types :
           x.types[o] \in [name : LegacyNames \cup Codes, code : Codes \cup {None}]
  BY <1>3 DEF Columns
<1>6. /\ db.joined \in SUBSET Users /\ db.nickname \in [Users -> Nicknames \cup {None}]
      /\ db.member \in [Users -> Avatars \cup {None}] /\ db.location \in Addresses \cup {None}
  BY DEF Columns
<1>7. /\ x.joined \in SUBSET Users /\ x.nickname \in [Users -> Nicknames \cup {None}]
      /\ x.member \in [Users -> Avatars \cup {None}] /\ x.location \in Addresses \cup {None}
  BY <1>2, <1>6
<1>8. Columns(x)
  BY <1>2, <1>4, <1>5, <1>7, ColumnsIntro
<1>9. QED BY <1>8 DEF x

LEMMA StorePlaceColumns ==
  ASSUME Columns(db), StorePlace
  PROVE  Columns(db')
<1> DEFINE x == db'
<1>1. IsRow(db)
  BY ColumnsRow
<1>2. /\ IsRow(x) /\ x.google \in BOOLEAN /\ x.previewNull \in BOOLEAN
      /\ Kept(db, x, {"google", "previewNull"})
  BY <1>1, StorePlaceWrites
<1> HIDE DEF x
<1>3. /\ x.applied = db.applied /\ x.schema = db.schema /\ x.categories = db.categories
      /\ x.types = db.types /\ x.joined = db.joined /\ x.nickname = db.nickname
      /\ x.avatar = db.avatar /\ x.member = db.member /\ x.start = db.start
      /\ x.location = db.location /\ x.previewRequired = db.previewRequired
  BY <1>2 DEF Kept, Fields
<1>4. QED BY <1>2, <1>3, ColumnsIntro DEF Columns, x

-----------------------------------------------------------------------------
(* Every step of the release procedure, by what it does to the databases.  *)

\* The databases stay, but a transaction may start with a copy or vanish.
Rests ==
  /\ db' = db /\ chosen' = chosen
  /\ tx' # None => (tx' = tx \/ (tx = None /\ tx'.work = db))

Commits ==
  /\ tx # None /\ db' = tx.work /\ tx' = None
  /\ chosen' = IF 1 \in RangeOf(tx.work.applied) THEN chosen ELSE Nobody

Used ==
  \/ \E c \in Contents : LegacyUse(c)
  \/ \E u \in Users, a \in Avatars, n \in Nicknames, l \in Addresses : Join(u, a, n, l)
  \/ StorePlace

LEMMA PendingType ==
  ASSUME release \in 0..4, NEW d
  PROVE  [i \in 1..release |-> i] \in Seq(Versions) /\ Pending(d) \in Seq(Versions)
<1>1. [i \in 1..release |-> i] \in Seq(Versions)
  BY DEF Versions
<1>2. QED BY <1>1, KeepType DEF Pending

LEMMA LatestType ==
  ASSUME NEW d, d.applied \in Seq(Versions)
  PROVE  /\ Latest(d) \in Seq(Versions)
         /\ Latest(d) # <<>> => d.applied # <<>> /\ Head(Latest(d)) = d.applied[Len(d.applied)]
                               /\ Tail(Latest(d)) = <<>>
<1>1. d.applied # <<>> => d.applied[Len(d.applied)] \in Versions
  OBVIOUS
<1>2. CASE d.applied = <<>>
  BY <1>2 DEF Latest
<1>3. CASE d.applied # <<>>
  <2> DEFINE m == d.applied[Len(d.applied)]
  <2>1. Latest(d) = <<m>> /\ m \in Versions
    BY <1>1, <1>3 DEF Latest
  <2> HIDE DEF m
  <2>2. Latest(d) \in Seq(Versions) /\ Head(Latest(d)) = m /\ Tail(Latest(d)) = <<>>
    BY <2>1
  <2>3. QED BY <1>3, <2>2 DEF m
<1>4. QED BY <1>2, <1>3

\* What Apply leaves of a transaction.
LEMMA ApplyWrites ==
  ASSUME TablesTyped, NEW r \in Actors, Apply(r)
  PROVE  /\ tx # None /\ tx.owner = r /\ tx.left # <<>> /\ tx.left \in Seq(Versions)
         /\ Head(tx.left) \in Versions
         /\ tx'.owner = r /\ tx'.left = Tail(tx.left) /\ tx'.fresh = tx.fresh
         /\ tx' \in [owner : Actors, left : Seq(Versions), work : {tx'.work}, fresh : BOOLEAN]
         /\ tx'.work = IF runner[r].dir = "run" THEN Up(Head(tx.left), tx.work)
                        ELSE Down(Head(tx.left), tx.work)
         /\ runner[r].dir = "run" =>
              UpFits(Head(tx.left), tx.work) /\ UpAdmits(Head(tx.left), tx.work)
         /\ runner[r].dir # "run" =>
              DownFits(Head(tx.left), tx.work) /\ DownAdmits(Head(tx.left), tx.work)
<1> DEFINE y == IF runner[r].dir = "run" THEN Up(Head(tx.left), tx.work)
                ELSE Down(Head(tx.left), tx.work)
<1>1. tx # None /\ tx.owner = r /\ tx.left # <<>> /\ Fits(r, tx.work)
  BY DEF Apply, Owns
<1>2. tx \in [owner : Actors, left : Seq(Versions), work : {tx.work}, fresh : BOOLEAN]
  BY <1>1 DEF TablesTyped
<1>3. tx' = [tx EXCEPT !.left = Tail(tx.left), !.work = y]
  BY DEF Apply
<1> HIDE DEF y
<1>4. Head(tx.left) \in Versions /\ Tail(tx.left) \in Seq(Versions)
  BY <1>1, <1>2
<1>5. tx'.owner = r /\ tx'.left = Tail(tx.left) /\ tx'.work = y /\ tx'.fresh = tx.fresh
  BY <1>1, <1>2, <1>3
<1>6. tx' \in [owner : Actors, left : Seq(Versions), work : {y}, fresh : BOOLEAN]
  BY <1>2, <1>3, <1>4
<1>7. QED BY <1>1, <1>2, <1>4, <1>5, <1>6 DEF Fits, y

LEMMA DatabaseSteps ==
  ASSUME [Next]_vars
  PROVE  Rests \/ (\E r \in Actors : Apply(r)) \/ Commits \/ Used
<1>1. CASE UNCHANGED vars
  BY <1>1 DEF vars, Rests
<1>2. ASSUME NEW n \in Versions, Deploy(n) PROVE Rests
  BY <1>2 DEF Deploy, Rests
<1>3. ASSUME NEW r \in Actors, LoadPending(r) \/ Begin(r) \/ Refuse(r) \/ Kill(r)
      PROVE  Rests
  <2>1. CASE LoadPending(r)
    BY <2>1 DEF LoadPending, Rests
  <2>2. CASE Begin(r)
    BY <2>2 DEF Begin, Rests
  <2>3. CASE Refuse(r)
    BY <2>3 DEF Refuse, Rests
  <2>4. CASE Kill(r)
    BY <2>4 DEF Kill, Rests
  <2>5. QED BY <1>3, <2>1, <2>2, <2>3, <2>4
<1>5. ASSUME NEW r \in Actors, Commit(r) PROVE Commits
  BY <1>5 DEF Commit, Commits, Owns
<1>6. ASSUME LoadLatest PROVE Rests
  BY <1>6 DEF LoadLatest, Rests
<1>7. QED BY <1>1, <1>2, <1>3, <1>5, <1>6 DEF Next, RunnerStep, Used

LEMMA RunnerTyped ==
  ASSUME TablesTyped, NEW r \in Actors,
         NEW pc \in {"idle", "loaded", "done", "failed"}, NEW dir \in {"run", "revert"},
         NEW l \in Seq(Versions)
  PROVE  [runner EXCEPT ![r] = [pc |-> pc, dir |-> dir, list |-> l]] \in
           [Actors -> [pc : {"idle", "loaded", "done", "failed"},
                       dir : {"run", "revert"}, list : Seq(Versions)]]
<1>1. runner \in [Actors -> [pc : {"idle", "loaded", "done", "failed"},
                            dir : {"run", "revert"}, list : Seq(Versions)]]
  BY DEF TablesTyped
<1>2. QED BY <1>1

LEMMA FinishTyped ==
  ASSUME TablesTyped, NEW r \in Actors, NEW pc \in {"done", "failed"}, Finish(r, pc)
  PROVE  /\ runner' \in [Actors -> [pc : {"idle", "loaded", "done", "failed"},
                                    dir : {"run", "revert"}, list : Seq(Versions)]]
         /\ runner' = [runner EXCEPT ![r] = [pc |-> pc, dir |-> "run", list |-> <<>>]]
<1>1. [Idle EXCEPT !.pc = pc] = [pc |-> pc, dir |-> "run", list |-> <<>>]
  BY DEF Idle
<1>2. runner' = [runner EXCEPT ![r] = [pc |-> pc, dir |-> "run", list |-> <<>>]]
  BY <1>1 DEF Finish
<1>3. <<>> \in Seq(Versions)
  OBVIOUS
<1>4. QED BY <1>2, <1>3, RunnerTyped

LEMMA TablesTypedInit == Init => TablesTyped
<1> SUFFICES ASSUME Init PROVE TablesTyped
  OBVIOUS
<1>1. Columns(db)
  BY EmptyColumns DEF Init
<1>2. chosen \in [Users -> Avatars \cup {None}]
  BY DEF Init, Nobody
<1>3. runner \in [Actors -> [pc : {"idle", "loaded", "done", "failed"},
                             dir : {"run", "revert"}, list : Seq(Versions)]]
  BY DEF Init, Idle
<1>4. QED BY <1>1, <1>2, <1>3 DEF Init, TablesTyped

\* The databases of the next state have their columns.
LEMMA ColumnsKept ==
  ASSUME TablesTyped, [Next]_vars
  PROVE  /\ Columns(db') /\ chosen' \in [Users -> Avatars \cup {None}]
         /\ tx' # None => Columns(tx'.work)
<1>1. /\ Columns(db) /\ chosen \in [Users -> Avatars \cup {None}]
      /\ tx # None => Columns(tx.work)
  BY DEF TablesTyped
<1>2. CASE Rests
  BY <1>1, <1>2 DEF Rests
<1>3. ASSUME NEW r \in Actors, Apply(r)
      PROVE  db' = db /\ chosen' = chosen /\ Columns(tx'.work)
  <2>1. db' = db /\ chosen' = chosen
    BY <1>3 DEF Apply
  <2>2. tx # None /\ Columns(tx.work)
    BY <1>1, <1>3, ApplyWrites
  <2>3. Columns(tx'.work)
    BY <1>3, <2>2, ApplyWrites, UpColumns, DownColumns
  <2>4. QED BY <2>1, <2>3
<1>4. CASE Commits
  BY <1>1, <1>4 DEF Commits, Nobody
<1>5. CASE Used
  <2>1. ASSUME NEW c \in Contents, LegacyUse(c)
        PROVE  tx' = None /\ Columns(db') /\ chosen' \in [Users -> Avatars \cup {None}]
    BY <1>1, <2>1, LegacyUseColumns DEF LegacyUse
  <2>2. ASSUME NEW u \in Users, NEW a \in Avatars, NEW n \in Nicknames, NEW l \in Addresses,
               Join(u, a, n, l)
        PROVE  tx' = None /\ Columns(db') /\ chosen' \in [Users -> Avatars \cup {None}]
    <3>1. tx' = None /\ chosen' = [chosen EXCEPT ![u] = a]
      BY <2>2 DEF Join
    <3>2. Columns(db')
      BY <1>1, <2>2, JoinColumns
    <3>3. QED BY <1>1, <3>1, <3>2
  <2>3. ASSUME StorePlace PROVE tx' = None /\ Columns(db') /\ chosen' = chosen
    BY <1>1, <2>3, StorePlaceColumns DEF StorePlace
  <2>4. QED BY <1>1, <1>5, <2>1, <2>2, <2>3 DEF Used
<1>6. QED BY <1>1, <1>2, <1>3, <1>4, <1>5, DatabaseSteps

LEMMA TablesTypedStep == TablesTyped /\ [Next]_vars => TablesTyped'
<1> SUFFICES ASSUME TablesTyped, [Next]_vars PROVE TablesTyped'
  OBVIOUS
<1> DEFINE TxShape == tx # None =>
             tx \in [owner : Actors, left : Seq(Versions), work : {tx.work}, fresh : BOOLEAN]
           RunnerShape == runner \in [Actors -> [pc : {"idle", "loaded", "done", "failed"},
                                      dir : {"run", "revert"}, list : Seq(Versions)]]
<1>1. TxShape /\ RunnerShape /\ release \in 0..4
  BY DEF TablesTyped
<1>2. TxShape' /\ RunnerShape' /\ (release \in 0..4)'
  <2>1. CASE UNCHANGED vars
    BY <1>1, <2>1 DEF vars
  <2>2. ASSUME NEW n \in Versions, Deploy(n)
        PROVE  TxShape' /\ RunnerShape' /\ (release \in 0..4)'
    BY <1>1, <2>2 DEF Deploy, Versions
  <2>3. ASSUME NEW r \in Actors, LoadPending(r)
        PROVE  TxShape' /\ RunnerShape' /\ (release \in 0..4)'
    <3>1. runner' = [runner EXCEPT ![r] = [pc |-> "loaded", dir |-> "run", list |-> Pending(db)]]
      BY <2>3 DEF LoadPending
    <3>2. Pending(db) \in Seq(Versions)
      BY <1>1, PendingType
    <3>3. RunnerShape'
      BY <3>1, <3>2, RunnerTyped
    <3>4. tx' = tx /\ release' = release
      BY <2>3 DEF LoadPending
    <3>5. QED BY <1>1, <3>3, <3>4
  <2>4. ASSUME NEW r \in Actors, Begin(r)
        PROVE  TxShape' /\ RunnerShape' /\ (release \in 0..4)'
    <3>1. tx' = [owner |-> r, left |-> runner[r].list, work |-> db,
                 fresh |-> runner[r].list = ToDo(r, db)]
      BY <2>4 DEF Begin
    <3>2. runner[r].list \in Seq(Versions) /\ (runner[r].list = ToDo(r, db)) \in BOOLEAN
      BY <1>1
    <3>3. TxShape'
      BY <3>1, <3>2
    <3>4. runner' = runner /\ release' = release
      BY <2>4 DEF Begin
    <3>5. QED BY <1>1, <3>3, <3>4
  <2>5. ASSUME NEW r \in Actors, Apply(r)
        PROVE  TxShape' /\ RunnerShape' /\ (release \in 0..4)'
    <3>1. TxShape'
      BY <2>5, ApplyWrites
    <3>2. runner' = runner /\ release' = release
      BY <2>5 DEF Apply
    <3>3. QED BY <1>1, <3>1, <3>2
  <2>6. ASSUME NEW r \in Actors, Refuse(r) \/ Commit(r) \/ Kill(r)
        PROVE  TxShape' /\ RunnerShape' /\ (release \in 0..4)'
    <3>1. \E pc \in {"done", "failed"} : Finish(r, pc)
      BY <2>6 DEF Refuse, Commit, Kill
    <3>2. RunnerShape'
      BY <3>1, FinishTyped
    <3>3. (tx' = None \/ tx' = tx) /\ release' = release
      BY <2>6 DEF Refuse, Commit, Kill
    <3>4. QED BY <1>1, <3>2, <3>3
  <2>7. ASSUME LoadLatest
        PROVE  TxShape' /\ RunnerShape' /\ (release \in 0..4)'
    <3>1. runner' = [runner EXCEPT ![Operator] = [pc |-> "loaded", dir |-> "revert", list |-> Latest(db)]]
      BY <2>7 DEF LoadLatest
    <3>2. Latest(db) \in Seq(Versions) /\ Operator \in Actors
      BY LatestType DEF TablesTyped, Columns, Actors
    <3>3. RunnerShape'
      BY <3>1, <3>2, RunnerTyped
    <3>4. tx' = tx /\ release' = release
      BY <2>7 DEF LoadLatest
    <3>5. QED BY <1>1, <3>3, <3>4
  <2>8. ASSUME Used
        PROVE  TxShape' /\ RunnerShape' /\ (release \in 0..4)'
    <3>1. tx' = tx /\ runner' = runner /\ release' = release
      BY <2>8 DEF Used, LegacyUse, Join, StorePlace
    <3>2. QED BY <1>1, <3>1
  <2>9. QED BY <2>1, <2>2, <2>3, <2>4, <2>5, <2>6, <2>7, <2>8 DEF Next, RunnerStep, Used
<1>3. Columns(db') /\ chosen' \in [Users -> Avatars \cup {None}] /\ (tx' # None => Columns(tx'.work))
  BY ColumnsKept
<1>4. QED BY <1>2, <1>3 DEF TablesTyped

-----------------------------------------------------------------------------
(* The lists that jobs and the operator read, and the schema.              *)

\* The pending migrations of a built database start after the executed ones.
LEMMA PendingNext ==
  ASSUME release \in 0..4, NEW d, Columns(d), Built(d)
  PROVE  /\ Consecutive(Pending(d))
         /\ Pending(d) # <<>> => Pending(d)[1] = Len(d.applied) + 1
<1> DEFINE s == [i \in 1..release |-> i]
           n == Len(d.applied)
           T == Versions \ RangeOf(d.applied)
<1>1. n \in 0..4 /\ DOMAIN d.applied = 1..n /\ \A i \in 1..n : d.applied[i] = i
  BY BuiltCounts DEF Columns
<1>2. s \in Seq(Versions) /\ Len(s) = release /\ Pending(d) = Keep(s, T)
  <2>1. s \in Seq(Versions)
    BY PendingType
  <2>2. Pending(d) = Keep(s, T)
    BY DEF Pending
  <2>3. QED BY <2>1, <2>2
<1>3. \A i \in 1..Len(s) : s[i] \in T <=> n + 1 <= i /\ i <= release
  <2>1. RangeOf(d.applied) = {d.applied[i] : i \in 1..n}
    BY <1>1 DEF RangeOf
  <2>2. RangeOf(d.applied) = 1..n
    BY <1>1, <2>1
  <2> HIDE DEF n
  <2>3. \A i \in 1..release : s[i] = i /\ (i \in T <=> n + 1 <= i /\ i <= release)
    BY <1>1, <2>2 DEF Versions
  <2>4. QED BY <1>2, <2>3
<1> HIDE DEF s, n, T
<1>4. CASE n <= release
  <2>1. n + 1 \in Nat /\ release \in Nat /\ 1 <= n + 1 /\ n + 1 <= release + 1 /\ release <= Len(s)
    BY <1>1, <1>2, <1>4
  <2>2. Pending(d) = SubSeq(s, n + 1, release)
    BY <1>2, <1>3, <2>1, KeepInterval
  <2>3. Len(Pending(d)) = release - n /\ DOMAIN Pending(d) = 1..(release - n)
        /\ \A i \in 1..(release - n) : Pending(d)[i] = s[n + i]
    BY <1>1, <1>2, <1>4, <2>2
  <2>4. ASSUME NEW i \in 1..(release - n) PROVE Pending(d)[i] = n + i
    <3>1. n + i \in 1..release
      BY <1>1
    <3>2. s[n + i] = n + i
      BY <3>1 DEF s
    <3>3. QED BY <2>3, <3>2
  <2>5. \A i \in DOMAIN Pending(d) : 1 \in 1..(release - n) /\ Pending(d)[i] = n + i
    BY <1>1, <2>3, <2>4
  <2>6. \A i \in DOMAIN Pending(d) : Pending(d)[i] = Pending(d)[1] + i - 1
    BY <1>1, <2>3, <2>4, <2>5
  <2>7. Pending(d) # <<>> => 1 \in 1..(release - n)
    BY <1>1, <1>4, <2>2, <2>3
  <2>8. QED BY <2>4, <2>6, <2>7 DEF Consecutive, n
<1>5. CASE release < n
  <2>1. \A i \in 1..Len(s) : s[i] \in T <=> 1 <= i /\ i <= 0
    BY <1>1, <1>2, <1>3, <1>5
  <2>2. 1 \in Nat /\ 0 \in Nat /\ 1 <= 1 /\ 1 <= 0 + 1 /\ 0 <= Len(s)
    BY <1>2
  <2>3. Pending(d) = SubSeq(s, 1, 0)
    BY <1>2, <2>1, <2>2, KeepInterval
  <2>4. Pending(d) = <<>>
    BY <1>2, <2>3
  <2>5. QED BY <2>4 DEF Consecutive
<1>6. QED BY <1>1, <1>4, <1>5

LEMMA TailReaches ==
  ASSUME NEW s \in Seq(Versions), s # <<>>, Consecutive(s)
  PROVE  /\ Consecutive(Tail(s)) /\ Head(s) = s[1]
         /\ Tail(s) # <<>> => Tail(s)[1] = Head(s) + 1
<1>1. /\ DOMAIN Tail(s) = 1..(Len(s) - 1) /\ DOMAIN s = 1..Len(s) /\ Len(s) \in Nat
      /\ \A i \in 1..(Len(s) - 1) : Tail(s)[i] = s[i + 1]
      /\ Head(s) = s[1] /\ s[1] \in Versions
  OBVIOUS
<1>2. \A i \in DOMAIN s : s[i] = s[1] + i - 1
  BY DEF Consecutive
<1>3. ASSUME NEW i \in 1..(Len(s) - 1) PROVE Tail(s)[i] = s[1] + i
  <2>1. i + 1 \in DOMAIN s /\ i \in Int /\ s[1] \in Int
    BY <1>1 DEF Versions
  <2>2. s[i + 1] = s[1] + (i + 1) - 1
    BY <1>2, <2>1
  <2>3. Tail(s)[i] = s[i + 1]
    BY <1>1
  <2> HIDE DEF Versions
  <2>4. QED BY <2>1, <2>2, <2>3
<1>4. s[1] \in Int
  BY <1>1 DEF Versions
<1>5. ASSUME NEW i \in DOMAIN Tail(s) PROVE Tail(s)[i] = Tail(s)[1] + i - 1
  <2>1. i \in 1..(Len(s) - 1) /\ 1 \in 1..(Len(s) - 1)
    BY <1>1
  <2>2. Tail(s)[i] = s[1] + i /\ Tail(s)[1] = s[1] + 1 /\ i \in Int
    BY <1>3, <2>1
  <2>3. QED BY <1>4, <2>2
<1>6. ASSUME Tail(s) # <<>> PROVE Tail(s)[1] = s[1] + 1
  <2>1. 1 \in 1..(Len(s) - 1)
    BY <1>1, <1>6
  <2>2. QED BY <1>3, <2>1
<1>7. QED BY <1>1, <1>5, <1>6 DEF Consecutive

\* What a pod that starts, stops or changes its list does to the others.
LEMMA RunnerWrites ==
  ASSUME TablesTyped, NEW r \in Actors, NEW x, runner' = [runner EXCEPT ![r] = x]
  PROVE  runner'[r] = x /\ \A q \in Actors \ {r} : runner'[q] = runner[q]
<1>1. DOMAIN runner = Actors
  BY DEF TablesTyped
<1>2. QED BY <1>1

HistoryInv == TablesTyped /\ HistoryMatchesSchema /\ ListsFitHistory

LEMMA HistoryParts ==
  HistoryMatchesSchema <=> Built(db) /\ (tx # None => Built(tx.work))
BY DEF HistoryMatchesSchema, Databases

LEMMA HistoryNext ==
  ASSUME Built(db'), tx' # None => Built(tx'.work)
  PROVE  HistoryMatchesSchema'
BY DEF HistoryMatchesSchema, Databases, Built

LEMMA HistoryInvInit == Init => HistoryInv
<1> SUFFICES ASSUME Init PROVE HistoryInv
  OBVIOUS
<1>1. db = Empty /\ tx = None /\ runner = [r \in Actors |-> Idle]
  BY DEF Init
<1>2. Built(db)
  <2>1. Len(db.applied) = 0 /\ db.schema = {} /\ db.previewRequired = TRUE
    BY <1>1, EmptyRow
  <2>2. Columns(db)
    BY <1>1, EmptyColumns
  <2>3. SchemaUpTo(0) = {}
    BY DEF SchemaUpTo
  <2>4. Len(db.applied) \in 0..4 /\ (\A i \in 1..Len(db.applied) : db.applied[i] = i)
        /\ db.schema = SchemaUpTo(Len(db.applied)) /\ ~(Len(db.applied) >= 3)
    BY <2>1, <2>3
  <2>5. db.previewRequired
    BY <2>1
  <2>6. QED BY <2>2, <2>4, <2>5, BuiltCounts
<1>3. \A r \in Actors : ~Loaded(r)
  BY <1>1 DEF Loaded, Idle
<1>4. ListsFitHistory
  BY <1>1, <1>3 DEF ListsFitHistory, Actors
<1>5. QED BY <1>1, <1>2, <1>4, HistoryParts, TablesTypedInit DEF HistoryInv

\* The next state's lists, spelt out.
LEMMA ListsNext ==
  ASSUME \A q \in Runners : runner'[q].pc = "loaded" =>
           /\ runner'[q].dir = "run" /\ runner'[Operator].pc # "loaded"
           /\ Consecutive(runner'[q].list) /\ Reaches(runner'[q].list, db'),
         runner'[Operator].pc = "loaded" =>
           runner'[Operator].dir = "revert" /\ runner'[Operator].list = Latest(db'),
         tx' # None =>
           /\ runner'[tx'.owner].pc = "loaded"
           /\ tx'.owner = Operator => (tx'.left # <<>> => tx'.left = Latest(tx'.work))
           /\ tx'.owner # Operator =>
                /\ Consecutive(tx'.left) /\ Reaches(tx'.left, tx'.work)
                /\ tx'.fresh /\ tx'.left # <<>> => tx'.left[1] = Len(tx'.work.applied) + 1
                /\ Len(db'.applied) <= Len(tx'.work.applied)
  PROVE  ListsFitHistory'
BY DEF ListsFitHistory, Loaded, Consecutive, Reaches, Latest

\* ... and the present one's.
LEMMA ListsNow ==
  ASSUME ListsFitHistory
  PROVE  /\ \A q \in Runners : runner[q].pc = "loaded" =>
              /\ runner[q].dir = "run" /\ runner[Operator].pc # "loaded"
              /\ Consecutive(runner[q].list) /\ Reaches(runner[q].list, db)
         /\ runner[Operator].pc = "loaded" =>
              runner[Operator].dir = "revert" /\ runner[Operator].list = Latest(db)
         /\ tx # None =>
              /\ runner[tx.owner].pc = "loaded"
              /\ tx.owner = Operator => (tx.left # <<>> => tx.left = Latest(tx.work))
              /\ tx.owner # Operator =>
                   /\ Consecutive(tx.left) /\ Reaches(tx.left, tx.work)
                   /\ tx.fresh /\ tx.left # <<>> => tx.left[1] = Len(tx.work.applied) + 1
                   /\ Len(db.applied) <= Len(tx.work.applied)
BY DEF ListsFitHistory, Loaded

LEMMA ApplyKeepsHistory ==
  ASSUME HistoryInv, TablesTyped', NEW r \in Actors, Apply(r)
  PROVE  HistoryMatchesSchema' /\ ListsFitHistory'
<1> DEFINE m == Head(tx.left)
           d == tx.work
           e == tx'.work
<1>0. TablesTyped /\ HistoryMatchesSchema /\ ListsFitHistory
  BY DEF HistoryInv
<1>1. /\ tx # None /\ tx.owner = r /\ tx.left # <<>> /\ tx.left \in Seq(Versions)
      /\ m \in Versions /\ tx'.owner = r /\ tx'.left = Tail(tx.left) /\ tx'.fresh = tx.fresh
      /\ e = IF runner[r].dir = "run" THEN Up(m, d) ELSE Down(m, d)
      /\ runner[r].dir = "run" => UpFits(m, d) /\ UpAdmits(m, d)
  BY <1>0, ApplyWrites
<1>2. db' = db /\ runner' = runner
  BY DEF Apply
<1>3. Columns(d) /\ Built(d) /\ Built(db)
  BY <1>0, <1>1, HistoryParts DEF TablesTyped
<1>4. d.applied \in Seq(Versions) /\ Len(d.applied) \in 0..4
  BY <1>3, BuiltCounts DEF Columns
<1> HIDE DEF e, m, d
<1>5. CASE r \in Runners
  <2>1. r # Operator /\ runner[r].pc = "loaded" /\ runner[r].dir = "run"
    BY <1>0, <1>1, <1>5, ListsNow, OperatorAssumption
  <2>2. /\ Consecutive(tx.left) /\ Reaches(tx.left, d)
        /\ Len(db.applied) <= Len(d.applied)
    BY <1>0, <1>1, <2>1, ListsNow DEF d
  <2>3. /\ Consecutive(Tail(tx.left)) /\ m = tx.left[1]
        /\ Tail(tx.left) # <<>> => Tail(tx.left)[1] = m + 1
    BY <1>1, <2>2, TailReaches DEF m
  <2>4. m <= Len(d.applied) + 1
    BY <1>1, <2>2, <2>3 DEF Reaches
  <2>5. e = Up(m, d) /\ UpFits(m, d) /\ UpAdmits(m, d)
    BY <1>1, <2>1
  <2>6. m = Len(d.applied) + 1 /\ Built(e) /\ Len(e.applied) = m
    BY <1>1, <1>3, <2>4, <2>5, UpBuilt
  <2>7. HistoryMatchesSchema'
    BY <1>2, <1>3, <2>6, HistoryParts, HistoryNext DEF e
  <2>8. /\ Consecutive(tx'.left) /\ Reaches(tx'.left, e)
        /\ tx'.fresh /\ tx'.left # <<>> => tx'.left[1] = Len(e.applied) + 1
        /\ Len(db'.applied) <= Len(e.applied)
    <3>1. m \in 1..4
      BY <1>1 DEF Versions
    <3>2. Len(db.applied) <= m
      <4>1. Len(db.applied) \in 0..4
        BY <1>0, <1>3, BuiltCounts DEF TablesTyped
      <4>2. QED BY <1>4, <2>2, <2>6, <4>1
    <3>3. tx'.left # <<>> => tx'.left[1] = Len(e.applied) + 1
      BY <1>1, <2>3, <2>6
    <3>4. Reaches(tx'.left, e)
      BY <2>6, <3>1, <3>3 DEF Reaches
    <3>5. Consecutive(tx'.left) /\ Len(db'.applied) <= Len(e.applied)
      BY <1>1, <1>2, <2>3, <2>6, <3>2
    <3>6. QED BY <3>3, <3>4, <3>5
  <2>9. ListsFitHistory'
    <3>1. /\ tx'.owner # Operator /\ runner'[tx'.owner].pc = "loaded"
      BY <1>1, <1>2, <2>1
    <3>2. /\ Consecutive(tx'.left) /\ Reaches(tx'.left, tx'.work)
          /\ tx'.fresh /\ tx'.left # <<>> => tx'.left[1] = Len(tx'.work.applied) + 1
          /\ Len(db'.applied) <= Len(tx'.work.applied)
      BY <2>8 DEF e
    <3>3. QED BY <1>0, <1>2, <3>1, <3>2, ListsNow, ListsNext
  <2>10. QED BY <2>7, <2>9
<1>6. CASE r = Operator
  <2>1. runner[r].pc = "loaded" /\ runner[r].dir = "revert" /\ tx.left = Latest(d)
    BY <1>0, <1>1, <1>6, ListsNow DEF d
  <2>2. d.applied # <<>> /\ m = d.applied[Len(d.applied)] /\ Tail(tx.left) = <<>>
    BY <1>1, <1>4, <2>1, LatestType DEF m
  <2>3. e = Down(m, d)
    BY <1>1, <2>1
  <2>4. Built(e)
    BY <1>3, <2>2, <2>3, DownBuilt
  <2>5. HistoryMatchesSchema'
    BY <1>2, <1>3, <2>4, HistoryParts, HistoryNext DEF e
  <2>6. tx'.owner = Operator /\ tx'.left = <<>> /\ runner'[tx'.owner].pc = "loaded"
    BY <1>1, <1>2, <1>6, <2>1, <2>2
  <2>7. ListsFitHistory'
    BY <1>0, <1>2, <2>6, ListsNow, ListsNext
  <2>8. QED BY <2>5, <2>7
<1>7. QED BY <1>5, <1>6 DEF Actors

LEMMA CommitKeepsHistory ==
  ASSUME HistoryInv, TablesTyped', NEW r \in Actors, Commit(r)
  PROVE  HistoryMatchesSchema' /\ ListsFitHistory'
<1>0. TablesTyped /\ HistoryMatchesSchema /\ ListsFitHistory
  BY DEF HistoryInv
<1>1. tx # None /\ tx.owner = r /\ db' = tx.work /\ tx' = None
  BY DEF Commit, Owns
<1>2. HistoryMatchesSchema'
  BY <1>0, <1>1, HistoryParts, HistoryNext
<1>3. PICK pc \in {"done", "failed"} : Finish(r, pc)
  BY DEF Commit
<1>4. runner'[r].pc # "loaded" /\ \A q \in Actors \ {r} : runner'[q] = runner[q]
  <2>1. runner' = [runner EXCEPT ![r] = [pc |-> pc, dir |-> "run", list |-> <<>>]]
    BY <1>0, <1>3, FinishTyped
  <2>2. /\ runner'[r] = [pc |-> pc, dir |-> "run", list |-> <<>>]
        /\ \A q \in Actors \ {r} : runner'[q] = runner[q]
    BY <1>0, <2>1, RunnerWrites
  <2>3. QED BY <2>2
<1>5. runner[r].pc = "loaded"
  BY <1>0, <1>1, ListsNow
<1>6. CASE r = Operator
  <2>1. \A q \in Runners : runner[q].pc # "loaded" /\ q \in Actors \ {r}
    BY <1>0, <1>5, <1>6, ListsNow, OperatorAssumption DEF Actors
  <2>2. \A q \in Runners : runner'[q].pc # "loaded"
    BY <1>4, <2>1
  <2>3. ListsFitHistory'
    BY <1>1, <1>4, <1>6, <2>2, ListsNext
  <2>4. QED BY <1>2, <2>3
<1>7. CASE r \in Runners
  <2>1. runner[Operator].pc # "loaded" /\ Operator \in Actors \ {r}
    BY <1>0, <1>5, <1>7, ListsNow, OperatorAssumption DEF Actors
  <2>2. runner'[Operator].pc # "loaded"
    BY <1>4, <2>1
  <2>3. Len(db.applied) <= Len(db'.applied) /\ Len(db.applied) \in Nat /\ Len(db'.applied) \in Nat
    <3>1. r # Operator
      BY <1>7, OperatorAssumption
    <3>2. Len(db.applied) <= Len(tx.work.applied)
      BY <1>0, <1>1, <3>1, ListsNow
    <3>3. db.applied \in Seq(Versions) /\ tx.work.applied \in Seq(Versions)
      BY <1>0, <1>1 DEF TablesTyped, Columns
    <3>4. QED BY <1>1, <3>2, <3>3
  <2>4. ASSUME NEW q \in Runners, runner'[q].pc = "loaded"
        PROVE  /\ runner'[q].dir = "run" /\ runner'[Operator].pc # "loaded"
               /\ Consecutive(runner'[q].list) /\ Reaches(runner'[q].list, db')
    <3>1. q \in Actors \ {r} /\ runner'[q] = runner[q]
      BY <1>4, <2>4 DEF Actors
    <3>2. runner[q].dir = "run" /\ Consecutive(runner[q].list) /\ Reaches(runner[q].list, db)
      BY <1>0, <2>4, <3>1, ListsNow
    <3>3. runner[q].list \in Seq(Versions)
      BY <1>0, <3>1 DEF TablesTyped
    <3>4. runner[q].list # <<>> => runner[q].list[1] \in 1..4
      BY <3>3 DEF Versions
    <3>5. Reaches(runner[q].list, db')
      BY <2>3, <3>2, <3>4 DEF Reaches
    <3>6. QED BY <2>2, <3>1, <3>2, <3>5
  <2>5. ListsFitHistory'
    BY <1>1, <2>2, <2>4, ListsNext
  <2>6. QED BY <1>2, <2>5
<1>8. QED BY <1>6, <1>7 DEF Actors

LEMMA LoadKeepsHistory ==
  ASSUME ~RevertsRace, HistoryInv, NEW r \in Actors, LoadPending(r) \/ (r = Operator /\ LoadLatest)
  PROVE  HistoryMatchesSchema' /\ ListsFitHistory'
<1>0. TablesTyped /\ HistoryMatchesSchema /\ ListsFitHistory
  BY DEF HistoryInv
<1>1. db' = db /\ tx' = tx
  BY DEF LoadPending, LoadLatest
<1>2. HistoryMatchesSchema'
  BY <1>0, <1>1, HistoryParts, HistoryNext
<1>3. runner[r].pc # "loaded"
  BY DEF LoadPending, LoadLatest, Loaded
<1>4. CASE LoadPending(r)
  <2>1. /\ r \in Runners /\ runner[Operator].pc # "loaded"
        /\ runner' = [runner EXCEPT ![r] = [pc |-> "loaded", dir |-> "run", list |-> Pending(db)]]
    BY <1>4 DEF LoadPending, Loaded
  <2>2. /\ runner'[r] = [pc |-> "loaded", dir |-> "run", list |-> Pending(db)]
        /\ \A q \in Actors \ {r} : runner'[q] = runner[q]
    BY <1>0, <2>1, RunnerWrites
  <2>3. Consecutive(Pending(db)) /\ Reaches(Pending(db), db)
    <3>1. Columns(db) /\ Built(db) /\ release \in 0..4
      BY <1>0, HistoryParts DEF TablesTyped
    <3>2. /\ Consecutive(Pending(db))
          /\ Pending(db) # <<>> => Pending(db)[1] = Len(db.applied) + 1
      BY <3>1, PendingNext
    <3>3. Len(db.applied) + 1 <= Len(db.applied) + 1
      BY <3>1 DEF Columns
    <3>4. QED BY <3>2, <3>3 DEF Reaches
  <2>4. runner'[Operator].pc # "loaded"
    BY <2>1, <2>2, OperatorAssumption DEF Actors
  <2>5. ASSUME NEW q \in Runners, runner'[q].pc = "loaded"
        PROVE  /\ runner'[q].dir = "run"
               /\ Consecutive(runner'[q].list) /\ Reaches(runner'[q].list, db')
    <3>1. CASE q = r
      BY <1>1, <2>2, <2>3, <3>1
    <3>2. CASE q # r
      <4>1. runner'[q] = runner[q]
        BY <2>2, <3>2 DEF Actors
      <4>2. QED BY <1>0, <1>1, <2>5, <4>1, ListsNow
    <3>3. QED BY <3>1, <3>2
  <2>6. tx # None => runner'[tx.owner].pc = "loaded"
    <3>1. tx # None => runner[tx.owner].pc = "loaded" /\ tx.owner \in Actors
      BY <1>0, ListsNow DEF TablesTyped
    <3>2. QED BY <1>3, <2>2, <3>1
  <2>7. ListsFitHistory'
    BY <1>0, <1>1, <2>4, <2>5, <2>6, ListsNow, ListsNext
  <2>8. QED BY <1>2, <2>7
<1>5. CASE r = Operator /\ LoadLatest
  <2>1. /\ \A q \in Runners : runner[q].pc # "loaded"
        /\ runner' = [runner EXCEPT ![Operator] = [pc |-> "loaded", dir |-> "revert", list |-> Latest(db)]]
    BY <1>5 DEF LoadLatest, Loaded
  <2>2. /\ runner'[Operator] = [pc |-> "loaded", dir |-> "revert", list |-> Latest(db)]
        /\ \A q \in Actors \ {Operator} : runner'[q] = runner[q]
    BY <1>0, <1>5, <2>1, RunnerWrites
  <2>3. \A q \in Runners : runner'[q].pc # "loaded"
    BY <2>1, <2>2, OperatorAssumption DEF Actors
  <2>4. tx = None
    BY <1>0, <1>3, <1>5, <2>1, ListsNow DEF TablesTyped, Actors
  <2>5. runner'[Operator].dir = "revert" /\ runner'[Operator].list = Latest(db')
    BY <1>1, <2>2
  <2>6. ListsFitHistory'
    BY <1>1, <2>3, <2>4, <2>5, ListsNext
  <2>7. QED BY <1>2, <2>6
<1>6. QED BY <1>4, <1>5

LEMMA BeginKeepsHistory ==
  ASSUME HistoryInv, NEW r \in Actors, Begin(r)
  PROVE  HistoryMatchesSchema' /\ ListsFitHistory'
<1>0. TablesTyped /\ HistoryMatchesSchema /\ ListsFitHistory
  BY DEF HistoryInv
<1>1. /\ runner[r].pc = "loaded" /\ db' = db /\ runner' = runner
      /\ tx' = [owner |-> r, left |-> runner[r].list, work |-> db,
                fresh |-> runner[r].list = ToDo(r, db)]
  BY DEF Begin, Loaded
<1>2. /\ tx'.owner = r /\ tx'.left = runner[r].list /\ tx'.work = db
      /\ tx'.fresh <=> runner[r].list = ToDo(r, db)
  BY <1>1
<1>3. Built(db) /\ Columns(db) /\ release \in 0..4
  BY <1>0, HistoryParts DEF TablesTyped
<1>4. HistoryMatchesSchema'
  BY <1>1, <1>2, <1>3, HistoryNext
<1>5. CASE r = Operator
  <2>1. tx'.left = Latest(tx'.work)
    BY <1>0, <1>1, <1>2, <1>5, ListsNow
  <2>2. ListsFitHistory'
    BY <1>0, <1>1, <1>2, <1>5, <2>1, ListsNow, ListsNext
  <2>3. QED BY <1>4, <2>2
<1>6. CASE r \in Runners
  <2>1. r # Operator
    BY <1>6, OperatorAssumption
  <2>2. runner[r].dir = "run" /\ Consecutive(tx'.left) /\ Reaches(tx'.left, tx'.work)
    BY <1>0, <1>1, <1>2, <1>6, ListsNow
  <2>3. tx'.fresh /\ tx'.left # <<>> => tx'.left[1] = Len(tx'.work.applied) + 1
    <3>1. tx'.fresh => tx'.left = Pending(db)
      BY <1>2, <2>2 DEF ToDo
    <3>2. QED BY <1>2, <1>3, <3>1, PendingNext
  <2>4. Len(db'.applied) <= Len(tx'.work.applied)
    BY <1>1, <1>2, <1>3 DEF Columns
  <2>5. ListsFitHistory'
    BY <1>0, <1>1, <1>2, <2>1, <2>2, <2>3, <2>4, ListsNow, ListsNext
  <2>6. QED BY <1>4, <2>5
<1>7. QED BY <1>5, <1>6 DEF Actors

LEMMA StopKeepsHistory ==
  ASSUME HistoryInv, NEW r \in Actors, Refuse(r) \/ Kill(r)
  PROVE  HistoryMatchesSchema' /\ ListsFitHistory'
<1>0. TablesTyped /\ HistoryMatchesSchema /\ ListsFitHistory
  BY DEF HistoryInv
<1>1. db' = db /\ (tx' # None => tx' = tx /\ tx.owner # r) /\ Finish(r, "failed")
  BY DEF Refuse, Kill, Owns
<1>2. HistoryMatchesSchema'
  BY <1>0, <1>1, HistoryParts, HistoryNext
<1>3. runner'[r].pc # "loaded" /\ \A q \in Actors \ {r} : runner'[q] = runner[q]
  <2>1. runner' = [runner EXCEPT ![r] = [pc |-> "failed", dir |-> "run", list |-> <<>>]]
    BY <1>0, <1>1, FinishTyped
  <2>2. /\ runner'[r] = [pc |-> "failed", dir |-> "run", list |-> <<>>]
        /\ \A q \in Actors \ {r} : runner'[q] = runner[q]
    BY <1>0, <2>1, RunnerWrites
  <2>3. QED BY <2>2
<1>4. \A q \in Actors : runner'[q].pc = "loaded" => runner'[q] = runner[q]
  BY <1>3
<1>5. ASSUME NEW q \in Runners, runner'[q].pc = "loaded"
      PROVE  /\ runner'[q].dir = "run" /\ runner'[Operator].pc # "loaded"
             /\ Consecutive(runner'[q].list) /\ Reaches(runner'[q].list, db')
  <2>1. runner'[q] = runner[q]
    BY <1>4, <1>5 DEF Actors
  <2>2. /\ runner[q].dir = "run" /\ runner[Operator].pc # "loaded"
        /\ Consecutive(runner[q].list) /\ Reaches(runner[q].list, db)
    BY <1>0, <1>5, <2>1, ListsNow
  <2>3. runner'[Operator].pc # "loaded"
    BY <1>4, <2>2 DEF Actors
  <2>4. QED BY <1>1, <2>1, <2>2, <2>3
<1>6. runner'[Operator].pc = "loaded" =>
        runner'[Operator].dir = "revert" /\ runner'[Operator].list = Latest(db')
  BY <1>0, <1>1, <1>4, ListsNow DEF Actors
<1>7. ASSUME tx' # None
      PROVE  /\ tx' = tx /\ tx # None /\ runner'[tx'.owner].pc = "loaded"
  <2>1. tx' = tx /\ tx # None /\ tx.owner # r
    BY <1>1, <1>7
  <2>2. tx.owner \in Actors /\ runner[tx.owner].pc = "loaded"
    BY <1>0, <2>1, ListsNow DEF TablesTyped
  <2>3. QED BY <1>3, <2>1, <2>2
<1>8. ListsFitHistory'
  BY <1>0, <1>1, <1>5, <1>6, <1>7, ListsNow, ListsNext
<1>9. QED BY <1>2, <1>8

LEMMA UseKeepsHistory ==
  ASSUME HistoryInv, TablesTyped', Used
  PROVE  HistoryMatchesSchema' /\ ListsFitHistory'
<1>0. TablesTyped /\ HistoryMatchesSchema /\ ListsFitHistory
  BY DEF HistoryInv
<1>1. tx = None /\ tx' = None /\ runner' = runner
  BY DEF Used, LegacyUse, Join, StorePlace
<1>2. Columns(db) /\ Columns(db') /\ Built(db) /\ IsRow(db)
  BY <1>0, HistoryParts, ColumnsRow DEF TablesTyped
<1>3. /\ db'.applied = db.applied /\ db'.schema = db.schema
      /\ db'.previewRequired = db.previewRequired
  <2>1. ASSUME NEW c \in Contents, LegacyUse(c)
        PROVE  Kept(db, db', {"categories", "types", "joined", "nickname", "avatar", "start"})
    BY <1>2, <2>1, LegacyUseWrites
  <2>2. ASSUME NEW u, NEW a, NEW n, NEW l, Join(u, a, n, l)
        PROVE  Kept(db, db', {"joined", "nickname", "member", "location"})
    BY <1>2, <2>2, JoinWrites
  <2>3. ASSUME StorePlace PROVE Kept(db, db', {"google", "previewNull"})
    BY <1>2, <2>3, StorePlaceWrites
  <2>4. QED BY <2>1, <2>2, <2>3 DEF Used, Kept, Fields
<1>4. Built(db')
  BY <1>2, <1>3, BuiltCounts
<1>5. HistoryMatchesSchema'
  BY <1>1, <1>4, HistoryNext
<1>6. Latest(db') = Latest(db) /\ \A l : Reaches(l, db) => Reaches(l, db')
  BY <1>3 DEF Latest, Reaches
<1>7. ListsFitHistory'
  BY <1>0, <1>1, <1>6, ListsNow, ListsNext
<1>8. QED BY <1>5, <1>7

LEMMA HistoryInvStep ==
  ASSUME ~RevertsRace, HistoryInv, [Next]_vars
  PROVE  HistoryInv'
<1>1. TablesTyped'
  BY TablesTypedStep DEF HistoryInv
<1>2. ASSUME UNCHANGED <<db, tx, runner>>
      PROVE  HistoryMatchesSchema' /\ ListsFitHistory'
  <2>1. HistoryMatchesSchema'
    BY <1>2, HistoryParts, HistoryNext DEF HistoryInv
  <2>2. ListsFitHistory'
    BY <1>2, ListsNow, ListsNext DEF HistoryInv
  <2>3. QED BY <2>1, <2>2
<1>3. ASSUME NEW r \in Actors, RunnerStep(r)
      PROVE  HistoryMatchesSchema' /\ ListsFitHistory'
  BY <1>1, <1>3, LoadKeepsHistory, BeginKeepsHistory, ApplyKeepsHistory, StopKeepsHistory,
     CommitKeepsHistory DEF RunnerStep
<1>4. ASSUME LoadLatest PROVE HistoryMatchesSchema' /\ ListsFitHistory'
  BY <1>4, LoadKeepsHistory DEF Actors
<1>5. ASSUME Used PROVE HistoryMatchesSchema' /\ ListsFitHistory'
  BY <1>1, <1>5, UseKeepsHistory
<1>6. UNCHANGED vars \/ (\E n \in Versions : Deploy(n)) => UNCHANGED <<db, tx, runner>>
  BY DEF vars, Deploy
<1>7. QED BY <1>1, <1>2, <1>3, <1>4, <1>5, <1>6 DEF Next, Used, HistoryInv

-----------------------------------------------------------------------------
(* The same under the steps of a release.                                  *)

LEMMA ReleaseSteps ==
  ASSUME [ReleaseNext]_releaseVars
  PROVE  [Next]_vars \/ Serve
BY DEF ReleaseNext, releaseVars, Migrate, Request

LEMMA ServeKeepsTypes ==
  ASSUME TablesTyped, Serve
  PROVE  TablesTyped'
<1>1. release' = release /\ db' = db /\ tx' = None /\ chosen' = chosen
  BY DEF Serve
<1>2. runner' \in [Actors -> [pc : {"idle", "loaded", "done", "failed"},
                             dir : {"run", "revert"}, list : Seq(Versions)]]
  BY DEF Serve, Idle
<1>3. Columns(db')
  BY <1>1 DEF TablesTyped
<1>4. QED BY <1>1, <1>2, <1>3 DEF TablesTyped

LEMMA ServeKeepsHistory ==
  ASSUME HistoryInv, Serve
  PROVE  HistoryInv'
<1>1. TablesTyped /\ HistoryMatchesSchema
  BY DEF HistoryInv
<1>2. db' = db /\ tx' = None /\ \A r \in Actors : runner'[r].pc = "idle"
  BY DEF Serve, Idle
<1>3. TablesTyped'
  BY <1>1, ServeKeepsTypes
<1>4. HistoryMatchesSchema'
  BY <1>1, <1>2, HistoryParts, HistoryNext
<1>5. \A r \in Actors : runner'[r].pc # "loaded"
  BY <1>2
<1>6. ListsFitHistory'
  BY <1>2, <1>5, ListsNext DEF Actors
<1>7. QED BY <1>3, <1>4, <1>6 DEF HistoryInv

LEMMA TablesTypedAlways == ReleaseSpec => []TablesTyped
<1>1. ReleaseInit => TablesTyped
  BY TablesTypedInit DEF ReleaseInit
<1>2. TablesTyped /\ [ReleaseNext]_releaseVars => TablesTyped'
  BY ReleaseSteps, TablesTypedStep, ServeKeepsTypes
<1>3. QED BY <1>1, <1>2, PTL DEF ReleaseSpec

LEMMA HistoryInvAlways == ASSUME ~RevertsRace PROVE ReleaseSpec => []HistoryInv
<1>1. ReleaseInit => HistoryInv
  BY HistoryInvInit DEF ReleaseInit
<1>2. HistoryInv /\ [ReleaseNext]_releaseVars => HistoryInv'
  BY ReleaseSteps, HistoryInvStep, ServeKeepsHistory
<1>3. QED BY <1>1, <1>2, PTL DEF ReleaseSpec

-----------------------------------------------------------------------------
\* The record of executed migrations explains the schema, whatever overlaps of
\* jobs, killed pods, refused migrations and reverts have happened.
THEOREM HistoryMatches == ASSUME ~RevertsRace PROVE ReleaseSpec => []HistoryMatchesSchema
<1>1. HistoryInv => HistoryMatchesSchema
  BY DEF HistoryInv
<1>2. QED BY <1>1, HistoryInvAlways, PTL

\* A list that a pod has read never skips a migration, and a revert never meets
\* a migration that was executed after it read the last one.
THEOREM ListsFit == ASSUME ~RevertsRace PROVE ReleaseSpec => []ListsFitHistory
<1>1. HistoryInv => ListsFitHistory
  BY DEF HistoryInv
<1>2. QED BY <1>1, HistoryInvAlways, PTL

\* Only the data can refuse a run whose list is still what it would be now.
THEOREM FreshRunsFit == ASSUME ~RevertsRace PROVE ReleaseSpec => []FreshRunFits
<1>1. ASSUME HistoryInv, tx # None, tx.left # <<>>, tx.fresh
      PROVE  IF runner[tx.owner].dir = "run" THEN UpFits(Head(tx.left), tx.work)
             ELSE DownFits(Head(tx.left), tx.work)
  <2> DEFINE d == tx.work
             m == Head(tx.left)
  <2>1. /\ tx.owner \in Actors /\ tx.left \in Seq(Versions) /\ Columns(d) /\ Built(d)
        /\ ListsFitHistory
    BY <1>1, HistoryParts DEF HistoryInv, TablesTyped
  <2>2. m \in Versions /\ m = tx.left[1]
    BY <1>1, <2>1
  <2>3. d.applied \in Seq(Versions) /\ Len(d.applied) \in 0..4 /\ d.schema = SchemaUpTo(Len(d.applied))
    BY <2>1, BuiltCounts DEF Columns
  <2> HIDE DEF d, m
  <2>4. CASE tx.owner \in Runners
    <3>1. tx.owner # Operator /\ runner[tx.owner].dir = "run"
      BY <1>1, <2>1, <2>4, ListsNow, OperatorAssumption
    <3>2. m = Len(d.applied) + 1
      BY <1>1, <2>1, <2>2, <3>1, ListsNow DEF d
    <3>3. Len(d.applied) \in 0..3
      <4> DEFINE n == Len(d.applied)
      <4>1. n \in 0..4 /\ m = n + 1 /\ m \in 1..4
        BY <2>2, <2>3, <3>2 DEF Versions
      <4> HIDE DEF n
      <4>2. n \in 0..3
        BY <4>1
      <4>3. QED BY <4>2 DEF n
    <3>4. UpFits(m, d)
      BY <2>3, <3>2, <3>3, NextFits
    <3>5. QED BY <3>1, <3>4 DEF d, m
  <2>5. CASE tx.owner = Operator
    <3>1. runner[tx.owner].dir = "revert" /\ tx.left = Latest(d)
      BY <1>1, <2>1, <2>5, ListsNow DEF d
    <3>2. d.applied # <<>> /\ m = d.applied[Len(d.applied)]
      BY <1>1, <2>3, <3>1, LatestType DEF m
    <3>3. DownFits(m, d)
      BY <2>1, <3>2, DownBuilt
    <3>4. QED BY <3>1, <3>3 DEF d, m
  <2>6. QED BY <2>1, <2>4, <2>5 DEF Actors
<1>2. HistoryInv => FreshRunFits
  BY <1>1 DEF FreshRunFits
<1>3. QED BY <1>2, HistoryInvAlways, PTL

-----------------------------------------------------------------------------
(* What happens to the rows: migrations come one after the other.          *)

UpNext(m) ==
  /\ db' = db /\ chosen' = chosen /\ tx # None
  /\ m \in Versions /\ m = Len(tx.work.applied) + 1
  /\ UpAdmits(m, tx.work) /\ tx'.work = Up(m, tx.work)

DownLast(m) ==
  /\ db' = db /\ chosen' = chosen /\ tx # None
  /\ m \in Versions /\ m = Len(tx.work.applied)
  /\ DownAdmits(m, tx.work) /\ tx'.work = Down(m, tx.work)

LEMMA OrderedSteps ==
  ASSUME HistoryInv, [Next]_vars
  PROVE  Rests \/ (\E m \in Versions : UpNext(m) \/ DownLast(m)) \/ Commits \/ Used
<1>0. TablesTyped /\ HistoryMatchesSchema /\ ListsFitHistory
  BY DEF HistoryInv
<1>1. ASSUME NEW r \in Actors, Apply(r) PROVE \E m \in Versions : UpNext(m) \/ DownLast(m)
  <2> DEFINE m == Head(tx.left)
             d == tx.work
  <2>1. db' = db /\ chosen' = chosen
    BY <1>1 DEF Apply
  <2>2. /\ tx # None /\ tx.owner = r /\ tx.left # <<>> /\ tx.left \in Seq(Versions)
        /\ m \in Versions /\ m = tx.left[1]
        /\ tx'.work = IF runner[r].dir = "run" THEN Up(m, d) ELSE Down(m, d)
        /\ runner[r].dir = "run" => UpFits(m, d) /\ UpAdmits(m, d)
        /\ runner[r].dir # "run" => DownAdmits(m, d)
    BY <1>0, <1>1, ApplyWrites
  <2>3. Columns(d) /\ Built(d) /\ d.applied \in Seq(Versions)
    BY <1>0, <2>2, HistoryParts DEF TablesTyped, Columns
  <2> HIDE DEF m, d
  <2>4. CASE r \in Runners
    <3>1. r # Operator /\ runner[r].dir = "run" /\ Reaches(tx.left, d)
      BY <1>0, <2>2, <2>4, ListsNow, OperatorAssumption DEF d
    <3>2. m <= Len(d.applied) + 1
      BY <2>2, <3>1 DEF Reaches
    <3>3. m = Len(d.applied) + 1
      BY <2>2, <2>3, <3>1, <3>2, UpBuilt
    <3>4. QED BY <2>1, <2>2, <3>1, <3>3 DEF UpNext, d
  <2>5. CASE r = Operator
    <3>1. runner[r].dir = "revert" /\ tx.left = Latest(d)
      BY <1>0, <2>2, <2>5, ListsNow DEF d
    <3>2. d.applied # <<>> /\ m = d.applied[Len(d.applied)]
      BY <2>2, <2>3, <3>1, LatestType DEF m
    <3>3. m = Len(d.applied)
      BY <2>3, <3>2, DownBuilt
    <3>4. QED BY <2>1, <2>2, <3>1, <3>3 DEF DownLast, d
  <2>6. QED BY <2>4, <2>5 DEF Actors
<1>2. QED BY <1>1, DatabaseSteps

\* What a built database has executed.
LEMMA BuiltRange ==
  ASSUME NEW d, Columns(d), Built(d)
  PROVE  Len(d.applied) \in 0..4 /\ RangeOf(d.applied) = 1..Len(d.applied)
<1>1. Len(d.applied) \in 0..4 /\ \A i \in 1..Len(d.applied) : d.applied[i] = i
  BY BuiltCounts
<1>2. DOMAIN d.applied = 1..Len(d.applied)
  BY DEF Columns
<1>3. RangeOf(d.applied) = {d.applied[i] : i \in 1..Len(d.applied)}
  BY <1>2 DEF RangeOf
<1>4. QED BY <1>1, <1>3

\* What the columns of a database are after the next migration, ...
LEMMA UpColumnsOf ==
  ASSUME NEW d, IsRow(d), NEW m \in Versions
  PROVE  /\ m \in {1, 4} => Kept(d, Up(m, d), {"applied", "schema"})
         /\ m = 2 => /\ Up(m, d).location = d.start
                     /\ Kept(d, Up(m, d), {"applied", "schema", "location", "previewRequired"})
         /\ m = 3 => /\ Up(m, d).categories = CategoriesSeeded(d.categories)
                     /\ Up(m, d).types = TypesSeeded(d.types)
                     /\ Up(m, d).member =
                          [u \in Users |-> IF u \notin d.joined THEN None
                                           ELSE IF d.avatar[u] = None THEN DefaultAvatar
                                           ELSE d.avatar[u]]
                     /\ Kept(d, Up(m, d), {"applied", "schema", "start", "previewRequired",
                                           "categories", "types", "member", "avatar"})
<1> DEFINE e == UpRows(m, d)
           x == Up(m, d)
           a == AvatarsMoved(d)
           p == PlaceFlowCompleted(d)
           l == LocationsCopied(d)
<1>1. Kept(e, x, {"applied", "schema"})
  BY UpEffect
<1>2. m \in {1, 4} => e = d
  BY DEF UpRows
<1>3. m = 2 => e = l
  BY DEF UpRows
<1>4. m = 3 => e = p
  BY DEF UpRows
<1>5. l.location = d.start /\ Kept(d, l, {"location", "previewRequired"})
  BY LocationRows
<1>6. /\ p.categories = CategoriesSeeded(d.categories) /\ p.types = TypesSeeded(d.types)
      /\ Kept(a, p, {"start", "previewRequired", "categories", "types"})
  BY PlaceFlowRows
<1>7. /\ a.member = [u \in Users |-> IF u \notin d.joined THEN None
                                     ELSE IF d.avatar[u] = None THEN DefaultAvatar
                                     ELSE d.avatar[u]]
      /\ Kept(d, a, {"member", "avatar"})
  BY AvatarRows
<1>8. m \in {1, 4} => Kept(d, x, {"applied", "schema"})
  BY <1>1, <1>2
<1> HIDE DEF e, x, a, p, l
<1>9. m = 2 => /\ x.location = d.start
               /\ Kept(d, x, {"applied", "schema", "location", "previewRequired"})
  BY <1>1, <1>3, <1>5 DEF Kept, Fields
<1>10. m = 3 => /\ x.categories = CategoriesSeeded(d.categories)
                /\ x.types = TypesSeeded(d.types) /\ x.member = a.member
                /\ Kept(d, x, {"applied", "schema", "start", "previewRequired",
                               "categories", "types", "member", "avatar"})
  BY <1>1, <1>4, <1>6, <1>7 DEF Kept, Fields
<1>11. QED BY <1>7, <1>8, <1>9, <1>10 DEF x

\* ... and after the revert of the last one.
LEMMA DownColumnsOf ==
  ASSUME NEW d, IsRow(d), NEW m \in Versions
  PROVE  /\ m = 1 => Kept(Empty, Down(m, d), {"applied", "schema"})
         /\ m = 2 => Kept(d, Down(m, d), {"applied", "schema", "location", "previewRequired"})
         /\ m = 3 => Kept(d, Down(m, d), {"applied", "schema", "start", "previewRequired",
                                          "types", "member", "avatar"})
         /\ m = 4 => Kept(d, Down(m, d), {"applied", "schema"})
<1> DEFINE e == DownRows(m, d)
           x == Down(m, d)
           a == AvatarsReturned(d)
           p == PlaceFlowReverted(d)
           l == LocationsDropped(d)
           o == Empty
<1>1. Kept(e, x, {"applied", "schema"})
  BY DownEffect
<1>2. m = 1 => e = o
  BY DEF DownRows
<1>3. m = 2 => e = l
  BY DEF DownRows
<1>4. m = 3 => e = p
  BY DEF DownRows
<1>5. m = 4 => e = d
  BY DEF DownRows
<1>6. Kept(d, l, {"location", "previewRequired"})
  BY LocationRows
<1>7. /\ Kept(a, p, {"start", "previewRequired", "types"})
      /\ Kept(d, a, {"member", "avatar"})
  BY PlaceFlowRows, AvatarRows
<1> HIDE DEF e, x, a, p, l, o
<1>8. QED
  <2>1. m = 1 => Kept(o, x, {"applied", "schema"})
    BY <1>1, <1>2
  <2>2. m = 2 => Kept(d, x, {"applied", "schema", "location", "previewRequired"})
    BY <1>1, <1>3, <1>6 DEF Kept, Fields
  <2>3. m = 3 => Kept(d, x, {"applied", "schema", "start", "previewRequired",
                            "types", "member", "avatar"})
    BY <1>1, <1>4, <1>7 DEF Kept, Fields
  <2>4. m = 4 => Kept(d, x, {"applied", "schema"})
    BY <1>1, <1>5
  <2>5. QED BY <2>1, <2>2, <2>3, <2>4 DEF x, o

-----------------------------------------------------------------------------
(* Avatars and starting points.                                            *)

\* What a database with its first Len(d.applied) migrations says of the choices c.
Carried(d, c) ==
  /\ Len(d.applied) = 0 => d.joined = {}
  /\ \A u \in d.joined :
       /\ Len(d.applied) >= 3 =>
            /\ d.member[u] = IF c[u] = None THEN DefaultAvatar ELSE c[u]
            /\ d.location # None
       /\ Len(d.applied) <= 2 => d.avatar[u] = c[u] /\ d.start # None
       /\ Len(d.applied) = 2 => d.location = d.start

CarriedInv ==
  HistoryInv /\ Carried(db, chosen) /\ (tx # None => Carried(tx.work, chosen))

LEMMA DownLength ==
  ASSUME NEW d, Columns(d), Built(d), NEW m \in Versions, m = Len(d.applied)
  PROVE  Len(Down(m, d).applied) = m - 1
<1> DEFINE x == Down(m, d)
<1>1. d.applied \in Seq(Versions) /\ m \in 1..4
  BY DEF Columns, Versions
<1>2. d.applied # <<>> /\ m = d.applied[Len(d.applied)]
  <2>1. \A i \in 1..Len(d.applied) : d.applied[i] = i
    BY BuiltCounts
  <2>2. \A k \in 1..4 : k \in 1..k /\ k # 0
    OBVIOUS
  <2>3. m \in 1..Len(d.applied) /\ d.applied # <<>>
    BY <1>1, <2>2
  <2>4. QED BY <2>1, <2>3
<1>3. x.applied = SubSeq(d.applied, 1, m - 1)
  BY <1>2, DownBuilt
<1> HIDE DEF x
<1>4. Len(x.applied) = m - 1
  <2>1. \A k \in 1..4 : k - 1 \in 0..k
    OBVIOUS
  <2>2. m - 1 \in 0..Len(d.applied)
    BY <1>1, <2>1
  <2>3. QED BY <1>1, <1>3, <2>2
<1>5. QED BY <1>4 DEF x

LEMMA CarriedUp ==
  ASSUME NEW d, Columns(d), NEW m \in Versions, m = Len(d.applied) + 1,
         NEW c, Carried(d, c)
  PROVE  Carried(Up(m, d), c)
<1> DEFINE x == Up(m, d)
           n == Len(d.applied)
<1>1. IsRow(d) /\ d.applied \in Seq(Versions) /\ d.joined \in SUBSET Users
  BY ColumnsRow DEF Columns
<1>2. x.applied = Append(d.applied, m)
  BY <1>1, UpEffect
<1>3. /\ m \in {1, 4} => Kept(d, x, {"applied", "schema"})
      /\ m = 2 => /\ x.location = d.start
                  /\ Kept(d, x, {"applied", "schema", "location", "previewRequired"})
      /\ m = 3 => /\ x.member = [u \in Users |-> IF u \notin d.joined THEN None
                                                ELSE IF d.avatar[u] = None THEN DefaultAvatar
                                                ELSE d.avatar[u]]
                  /\ Kept(d, x, {"applied", "schema", "start", "previewRequired",
                                 "categories", "types", "member", "avatar"})
  BY <1>1, UpColumnsOf
<1> SUFFICES Carried(x, c)
  OBVIOUS
<1> HIDE DEF x
<1>4. Len(x.applied) = m
  BY <1>1, <1>2
<1>5. n \in Nat /\ m = n + 1 /\ m \in 1..4
  BY <1>1 DEF Versions
<1> HIDE DEF n
<1>6. CASE m = 1
  <2>1. n = 0 /\ x.joined = d.joined
    BY <1>3, <1>5, <1>6 DEF Kept, Fields
  <2>2. QED BY <1>4, <1>6, <2>1 DEF Carried, n
<1>7. CASE m = 2
  <2>1. n = 1 /\ x.joined = d.joined /\ x.avatar = d.avatar /\ x.start = d.start
        /\ x.location = d.start
    BY <1>3, <1>5, <1>7 DEF Kept, Fields
  <2>2. QED BY <1>4, <1>7, <2>1 DEF Carried, n
<1>8. CASE m = 3
  <2>1. n = 2 /\ x.joined = d.joined /\ x.location = d.location
    BY <1>3, <1>5, <1>8 DEF Kept, Fields
  <2>2. ASSUME NEW u \in d.joined
        PROVE  x.member[u] = (IF d.avatar[u] = None THEN DefaultAvatar ELSE d.avatar[u])
    BY <1>1, <1>3, <1>8
  <2>3. QED BY <1>4, <1>8, <2>1, <2>2 DEF Carried, n
<1>9. CASE m = 4
  <2>1. n = 3 /\ x.joined = d.joined /\ x.location = d.location /\ x.member = d.member
    BY <1>3, <1>5, <1>9 DEF Kept, Fields
  <2>2. QED BY <1>4, <1>9, <2>1 DEF Carried, n
<1>10. QED BY <1>5, <1>6, <1>7, <1>8, <1>9

LEMMA CarriedDown ==
  ASSUME NEW d, Columns(d), Built(d), NEW m \in Versions, m = Len(d.applied),
         DownAdmits(m, d), NEW c, Carried(d, c)
  PROVE  Carried(Down(m, d), c)
<1> DEFINE x == Down(m, d)
<1>1. IsRow(d) /\ d.applied \in Seq(Versions) /\ m \in 1..4
  BY ColumnsRow DEF Columns, Versions
<1>2. /\ m = 1 => Kept(Empty, x, {"applied", "schema"})
      /\ m = 2 => Kept(d, x, {"applied", "schema", "location", "previewRequired"})
      /\ m = 3 => Kept(d, x, {"applied", "schema", "start", "previewRequired",
                              "types", "member", "avatar"})
      /\ m = 4 => Kept(d, x, {"applied", "schema"})
  BY <1>1, DownColumnsOf
<1>5. Len(x.applied) = m - 1
  BY DownLength
<1> SUFFICES Carried(x, c)
  OBVIOUS
<1> HIDE DEF x
<1>6. CASE m = 1
  <2>1. x.joined = {}
    <3>1. Empty.joined = {}
      BY EmptyRow
    <3>2. QED BY <1>2, <1>6, <3>1 DEF Kept, Fields
  <2>2. QED BY <1>5, <1>6, <2>1 DEF Carried
<1>7. CASE m = 2
  <2>1. x.joined = d.joined /\ x.avatar = d.avatar /\ x.start = d.start
    BY <1>2, <1>7 DEF Kept, Fields
  <2>2. QED BY <1>5, <1>7, <2>1 DEF Carried
<1>8. CASE m = 3
  <2>1. x.joined = d.joined /\ d.joined = {}
    BY <1>2, <1>8 DEF Kept, Fields, DownAdmits
  <2>2. QED BY <1>5, <1>8, <2>1 DEF Carried
<1>9. CASE m = 4
  <2>1. x.joined = d.joined /\ x.location = d.location /\ x.member = d.member
    BY <1>2, <1>9 DEF Kept, Fields
  <2>2. QED BY <1>5, <1>9, <2>1 DEF Carried
<1>10. QED BY <1>1, <1>6, <1>7, <1>8, <1>9

LEMMA CarriedUsed ==
  ASSUME HistoryInv, Used, Carried(db, chosen)
  PROVE  tx' = None /\ Carried(db', chosen')
<1>1. tx' = None
  BY DEF Used, LegacyUse, Join, StorePlace
<1>2. Columns(db) /\ IsRow(db) /\ Built(db)
  BY HistoryParts, ColumnsRow DEF HistoryInv, TablesTyped
<1>3. ASSUME NEW c \in Contents, LegacyUse(c) PROVE Carried(db', chosen')
  <2>1. /\ db'.joined = c.joined /\ db'.avatar = c.avatar /\ db'.start = c.start
        /\ Kept(db, db', {"categories", "types", "joined", "nickname", "avatar", "start"})
    BY <1>2, <1>3, LegacyUseWrites
  <2>2. db'.applied = db.applied
    BY <2>1 DEF Kept, Fields
  <2>3. db.applied = <<1>> /\ chosen' = c.avatar
    BY <1>3 DEF LegacyUse
  <2>4. Len(db'.applied) = 1
    BY <2>2, <2>3
  <2>5. c.joined # {} => c.start # None
    BY ContentsAssumption
  <2>6. QED BY <2>1, <2>3, <2>4, <2>5 DEF Carried
<1>4. ASSUME NEW u \in Users, NEW a \in Avatars, NEW n \in Nicknames, NEW l \in Addresses,
             Join(u, a, n, l)
      PROVE  Carried(db', chosen')
  <2>1. /\ db'.joined = db.joined \cup {u} /\ db'.member = [db.member EXCEPT ![u] = a]
        /\ db'.location = IF db.joined = {} THEN l ELSE db.location
        /\ Kept(db, db', {"joined", "nickname", "member", "location"})
    BY <1>2, <1>4, JoinWrites
  <2>2. db'.applied = db.applied
    BY <2>1 DEF Kept, Fields
  <2>3. RangeOf(db.applied) = Versions /\ chosen' = [chosen EXCEPT ![u] = a]
    BY <1>4 DEF Join
  <2>4. Len(db.applied) = 4
    <3> DEFINE k == Len(db.applied)
    <3>1. k \in 0..4 /\ 1..k = 1..4
      BY <1>2, <2>3, BuiltRange DEF Versions
    <3> HIDE DEF k
    <3>2. 4 \in 1..k
      BY <3>1
    <3>3. k = 4
      BY <3>1, <3>2
    <3>4. QED BY <3>3 DEF k
  <2>5. a # None /\ l # None
    BY NullAssumption
  <2>6. DOMAIN db.member = Users /\ DOMAIN chosen = Users /\ db.joined \in SUBSET Users
    BY <1>2 DEF Columns, HistoryInv, TablesTyped
  <2>7. db'.location # None
    <3>1. db.joined # {} => db.location # None
      BY <2>4 DEF Carried
    <3>2. QED BY <2>1, <2>5, <3>1
  <2>8. ASSUME NEW v \in db'.joined
        PROVE  db'.member[v] = IF chosen'[v] = None THEN DefaultAvatar ELSE chosen'[v]
    <3>1. CASE v = u
      BY <2>1, <2>3, <2>5, <2>6, <3>1
    <3>2. CASE v # u
      <4>1. v \in db.joined /\ v \in Users
        BY <2>1, <2>6, <2>8, <3>2
      <4>2. db'.member[v] = db.member[v] /\ chosen'[v] = chosen[v]
        BY <2>1, <2>3, <2>6, <3>2, <4>1
      <4>3. db.member[v] = IF chosen[v] = None THEN DefaultAvatar ELSE chosen[v]
        BY <2>4, <4>1 DEF Carried
      <4>4. QED BY <4>2, <4>3
    <3>3. QED BY <3>1, <3>2
  <2>9. Len(db'.applied) = 4
    BY <2>2, <2>4
  <2>10. QED BY <2>7, <2>8, <2>9 DEF Carried
<1>5. ASSUME StorePlace PROVE Carried(db', chosen')
  <2>1. Kept(db, db', {"google", "previewNull"}) /\ chosen' = chosen
    BY <1>2, <1>5, StorePlaceWrites DEF StorePlace
  <2>2. /\ db'.applied = db.applied /\ db'.joined = db.joined /\ db'.member = db.member
        /\ db'.avatar = db.avatar /\ db'.start = db.start /\ db'.location = db.location
    BY <2>1 DEF Kept, Fields
  <2>3. QED BY <2>1, <2>2 DEF Carried
<1>6. QED BY <1>1, <1>3, <1>4, <1>5 DEF Used

LEMMA CarriedInvStep ==
  ASSUME ~RevertsRace, CarriedInv, [ReleaseNext]_releaseVars
  PROVE  CarriedInv'
<1>0. HistoryInv /\ Carried(db, chosen) /\ (tx # None => Carried(tx.work, chosen))
  BY DEF CarriedInv
<1>1. HistoryInv'
  BY <1>0, ReleaseSteps, HistoryInvStep, ServeKeepsHistory
<1>2. tx # None => Columns(tx.work) /\ Built(tx.work)
  BY <1>0, HistoryParts DEF HistoryInv, TablesTyped
<1>3. ASSUME Serve PROVE Carried(db', chosen') /\ (tx' # None => Carried(tx'.work, chosen'))
  BY <1>0, <1>3 DEF Serve
<1>4. ASSUME [Next]_vars
      PROVE  Carried(db', chosen') /\ (tx' # None => Carried(tx'.work, chosen'))
  <2>1. CASE Rests
    BY <1>0, <2>1 DEF Rests
  <2>2. ASSUME NEW m \in Versions, UpNext(m)
        PROVE  Carried(db', chosen') /\ Carried(tx'.work, chosen')
    BY <1>0, <1>2, <2>2, CarriedUp DEF UpNext
  <2>3. ASSUME NEW m \in Versions, DownLast(m)
        PROVE  Carried(db', chosen') /\ Carried(tx'.work, chosen')
    BY <1>0, <1>2, <2>3, CarriedDown DEF DownLast
  <2>4. CASE Commits
    <3>1. /\ tx # None /\ db' = tx.work /\ tx' = None
          /\ chosen' = IF 1 \in RangeOf(tx.work.applied) THEN chosen ELSE Nobody
      BY <2>4 DEF Commits
    <3>2. CASE 1 \in RangeOf(tx.work.applied)
      BY <1>0, <3>1, <3>2
    <3>3. CASE 1 \notin RangeOf(tx.work.applied)
      <4>1. Len(tx.work.applied) = 0
        <5> DEFINE k == Len(tx.work.applied)
        <5>1. k \in 0..4 /\ 1 \notin 1..k
          BY <1>2, <3>1, <3>3, BuiltRange
        <5> HIDE DEF k
        <5>2. k = 0
          BY <5>1
        <5>3. QED BY <5>2 DEF k
      <4>2. tx.work.joined = {}
        BY <1>0, <3>1, <4>1 DEF Carried
      <4>3. QED BY <3>1, <4>2 DEF Carried
    <3>4. QED BY <3>2, <3>3, <3>1
  <2>5. CASE Used
    BY <1>0, <2>5, CarriedUsed
  <2>6. QED BY <1>0, <1>4, <2>1, <2>2, <2>3, <2>4, <2>5, OrderedSteps
<1>5. Carried(db', chosen') /\ (tx' # None => Carried(tx'.work, chosen'))
  BY <1>3, <1>4, ReleaseSteps
<1>6. QED BY <1>1, <1>5 DEF CarriedInv, Carried

\* No upgrade and no revert that the guards let happen loses the avatar that a
\* participant chose last, or where the meeting starts.
THEOREM ChoicesSurvive == ASSUME ~RevertsRace PROVE ReleaseSpec => []ChoicesCarried
<1>1. ReleaseInit => CarriedInv
  <2>1. Init => Carried(db, chosen) /\ tx = None
    BY EmptyRow DEF Init, Carried
  <2>2. QED BY <2>1, HistoryInvInit DEF ReleaseInit, CarriedInv
<1>2. CarriedInv /\ [ReleaseNext]_releaseVars => CarriedInv'
  BY CarriedInvStep
<1>3. ASSUME NEW d, Columns(d), Built(d), Carried(d, chosen), NEW u \in d.joined
      PROVE  IF 3 \in RangeOf(d.applied)
             THEN /\ d.member[u] = IF chosen[u] = None THEN DefaultAvatar ELSE chosen[u]
                  /\ d.location # None
             ELSE /\ d.avatar[u] = chosen[u]
                  /\ d.start # None
                  /\ 2 \in RangeOf(d.applied) => d.location = d.start
  <2> DEFINE n == Len(d.applied)
  <2>1. n \in 0..4 /\ RangeOf(d.applied) = 1..n
    BY <1>3, BuiltRange
  <2> HIDE DEF n
  <2>2. (3 \in RangeOf(d.applied) <=> n >= 3) /\ (~(n >= 3) <=> n <= 2)
        /\ (n <= 2 /\ 2 \in RangeOf(d.applied) => n = 2)
    BY <2>1
  <2>3. QED BY <1>3, <2>2 DEF Carried, n
<1>4. CarriedInv => ChoicesCarried
  <2> SUFFICES ASSUME CarriedInv PROVE ChoicesCarried
    OBVIOUS
  <2>1. \A d \in Databases : Columns(d) /\ Built(d) /\ Carried(d, chosen)
    BY HistoryParts DEF Databases, CarriedInv, HistoryInv, TablesTyped
  <2>2. QED BY <1>3, <2>1 DEF ChoicesCarried
<1>5. QED BY <1>1, <1>2, <1>4, PTL DEF ReleaseSpec

-----------------------------------------------------------------------------
(* Categories and meeting types.                                           *)

\* What the unique columns of the table of categories ask for, ...
Distinct(rows) ==
  \A s, t \in DOMAIN rows : s # t => /\ rows[s].name # rows[t].name
                                     /\ rows[s].id # rows[t].id

\* ... and what CompletePlaceFlow makes of its rows.
SeededRows(rows) ==
  /\ \A k \in 1..8 : /\ SeedSlugs[k] \in DOMAIN rows
                      /\ rows[SeedSlugs[k]].name = SeedSlugs[k]
                      /\ rows[SeedSlugs[k]].order = SeedOrders[k]
  /\ \A s, t \in DOMAIN rows : s # t => rows[s].order # rows[t].order
  /\ \A s \in DOMAIN rows \ Slugs : rows[s].order < 0

LEMMA SeedingWorks ==
  ASSUME NEW rows, IsFiniteSet(DOMAIN rows),
         \A s \in DOMAIN rows :
           rows[s] \in [id : Nat \ {0}, name : LegacyNames \cup Slugs, order : Int],
         Distinct(rows), ~CategoryClash(rows)
  PROVE  SeededRows(CategoriesSeeded(rows)) /\ Distinct(CategoriesSeeded(rows))
<1> DEFINE x == CategoriesSeeded(rows)
           L == LastId(rows)
<1>1. DOMAIN x = DOMAIN rows \cup Slugs
  BY DEF CategoriesSeeded
<1>2. L \in Nat /\ \A s \in DOMAIN rows : rows[s].id <= L /\ rows[s].id \in Nat \ {0}
  BY LastIdBounds
<1>3. ASSUME NEW s \in Slugs
      PROVE  /\ x[s].name = s /\ x[s].order = SeedOrders[RankOf(s)]
             /\ x[s].id = IF s \in DOMAIN rows THEN rows[s].id ELSE L + RankOf(s)
  BY DEF CategoriesSeeded
<1>4. ASSUME NEW s \in DOMAIN rows \ Slugs
      PROVE  x[s].name = rows[s].name /\ x[s].order = -rows[s].id /\ x[s].id = rows[s].id
  <2>1. x[s] = [rows[s] EXCEPT !.order = -rows[s].id]
    BY DEF CategoriesSeeded
  <2>2. rows[s] \in [id : Nat \ {0}, name : LegacyNames \cup Slugs, order : Int]
    OBVIOUS
  <2> HIDE DEF x
  <2>3. QED BY <2>1, <2>2
<1>5. \A s \in Slugs : RankOf(s) \in 1..8 /\ SeedSlugs[RankOf(s)] = s /\ SeedOrders[RankOf(s)] \in 1..8
  BY SlugRanks, SlugSeeds
<1>6. \A s, t \in Slugs : s # t => RankOf(s) # RankOf(t) /\ SeedOrders[RankOf(s)] # SeedOrders[RankOf(t)]
  <2>1. ASSUME NEW s \in Slugs, NEW t \in Slugs, s # t PROVE RankOf(s) # RankOf(t)
    BY <1>5, <2>1
  <2>2. QED BY <1>5, <2>1, SlugSeeds
<1> HIDE DEF x, L
\* A row that is no seed keeps a name that no seed has.
<1>7. ASSUME NEW s \in Slugs, NEW t \in DOMAIN rows \ Slugs PROVE rows[t].name # s
  <2> DEFINE k == RankOf(s)
  <2>1. k \in DOMAIN SeedSlugs /\ SeedSlugs[k] = s
    BY <1>5, SlugSeeds
  <2>2. t \notin {SeedSlugs[i] : i \in 1..k}
    <3>1. \A i \in 1..k : i \in 1..8
      BY <1>5
    <3>2. \A i \in 1..k : SeedSlugs[i] \in Slugs
      BY <3>1, SlugSeeds
    <3>3. QED BY <3>2
  <2>3. QED BY <2>1, <2>2 DEF CategoryClash
\* No two ids are equal: a new row gets one beyond those in use.
<1>8. ASSUME NEW s \in DOMAIN x, NEW t \in DOMAIN x, s # t PROVE x[s].id # x[t].id
  <2>1. ASSUME NEW q \in DOMAIN x
        PROVE  \/ q \in DOMAIN rows /\ x[q].id = rows[q].id
               \/ q \in Slugs \ DOMAIN rows /\ x[q].id = L + RankOf(q)
    BY <1>1, <1>3, <1>4
  <2>2. CASE s \in DOMAIN rows /\ t \in DOMAIN rows
    <3>1. x[s].id = rows[s].id /\ x[t].id = rows[t].id
      BY <2>1, <2>2
    <3>2. QED BY <1>8, <2>2, <3>1 DEF Distinct
  <2>3. CASE s \in DOMAIN rows /\ t \notin DOMAIN rows
    <3>1. x[s].id = rows[s].id /\ x[t].id = L + RankOf(t) /\ t \in Slugs
      BY <2>1, <2>3
    <3>2. x[s].id <= L /\ x[s].id \in Nat /\ RankOf(t) \in 1..8
      BY <1>2, <1>5, <2>3, <3>1
    <3>3. QED BY <1>2, <3>1, <3>2
  <2>4. CASE s \notin DOMAIN rows /\ t \in DOMAIN rows
    <3>1. x[t].id = rows[t].id /\ x[s].id = L + RankOf(s) /\ s \in Slugs
      BY <2>1, <2>4
    <3>2. x[t].id <= L /\ x[t].id \in Nat /\ RankOf(s) \in 1..8
      BY <1>2, <1>5, <2>4, <3>1
    <3>3. QED BY <1>2, <3>1, <3>2
  <2>5. CASE s \notin DOMAIN rows /\ t \notin DOMAIN rows
    <3>1. s \in Slugs /\ t \in Slugs /\ x[s].id = L + RankOf(s) /\ x[t].id = L + RankOf(t)
      BY <2>1, <2>5
    <3>2. RankOf(s) # RankOf(t) /\ RankOf(s) \in 1..8 /\ RankOf(t) \in 1..8
      BY <1>5, <1>6, <1>8, <3>1
    <3>3. QED BY <1>2, <3>1, <3>2
  <2>6. QED BY <2>2, <2>3, <2>4, <2>5
<1>9. ASSUME NEW s \in DOMAIN x, NEW t \in DOMAIN x, s # t
      PROVE  x[s].name # x[t].name /\ x[s].order # x[t].order
  <2>1. CASE s \in Slugs /\ t \in Slugs
    BY <1>3, <1>6, <1>9, <2>1
  <2>2. CASE s \in Slugs /\ t \notin Slugs
    <3>1. t \in DOMAIN rows \ Slugs
      BY <1>1, <2>2
    <3>2. x[s].name = s /\ x[t].name = rows[t].name /\ rows[t].name # s
      BY <1>3, <1>4, <1>7, <2>2, <3>1
    <3>3. x[s].order \in 1..8 /\ x[t].order = -rows[t].id /\ rows[t].id \in Nat \ {0}
      BY <1>2, <1>3, <1>4, <1>5, <2>2, <3>1
    <3>4. QED BY <3>2, <3>3
  <2>3. CASE s \notin Slugs /\ t \in Slugs
    <3>1. s \in DOMAIN rows \ Slugs
      BY <1>1, <2>3
    <3>2. x[t].name = t /\ x[s].name = rows[s].name /\ rows[s].name # t
      BY <1>3, <1>4, <1>7, <2>3, <3>1
    <3>3. x[t].order \in 1..8 /\ x[s].order = -rows[s].id /\ rows[s].id \in Nat \ {0}
      BY <1>2, <1>3, <1>4, <1>5, <2>3, <3>1
    <3>4. QED BY <3>2, <3>3
  <2>4. CASE s \notin Slugs /\ t \notin Slugs
    <3>1. s \in DOMAIN rows \ Slugs /\ t \in DOMAIN rows \ Slugs
      BY <1>1, <2>4
    <3>2. /\ x[s].name = rows[s].name /\ x[t].name = rows[t].name
          /\ x[s].order = -rows[s].id /\ x[t].order = -rows[t].id
          /\ rows[s].id \in Nat /\ rows[t].id \in Nat
      BY <1>2, <1>4, <3>1
    <3>3. rows[s].name # rows[t].name /\ rows[s].id # rows[t].id
      BY <1>9, <3>1 DEF Distinct
    <3>4. QED BY <3>2, <3>3
  <2>5. QED BY <2>1, <2>2, <2>3, <2>4
<1>10. Distinct(x)
  BY <1>8, <1>9 DEF Distinct
<1>11. \A s \in DOMAIN x \ Slugs : x[s].order < 0
  <2>1. ASSUME NEW s \in DOMAIN x \ Slugs PROVE x[s].order < 0
    <3>1. s \in DOMAIN rows \ Slugs
      BY <1>1
    <3>2. x[s].order = -rows[s].id /\ rows[s].id \in Nat \ {0}
      BY <1>2, <1>4, <3>1
    <3>3. QED BY <3>2
  <2>2. QED BY <2>1
<1>12. \A k \in 1..8 : /\ SeedSlugs[k] \in DOMAIN x
                      /\ x[SeedSlugs[k]].name = SeedSlugs[k]
                      /\ x[SeedSlugs[k]].order = SeedOrders[k]
  <2>1. \A k \in 1..8 : SeedSlugs[k] \in Slugs /\ RankOf(SeedSlugs[k]) = k
    BY SlugSeeds, SlugRanks
  <2>2. QED BY <1>1, <1>3, <2>1
<1>13. SeededRows(x)
  BY <1>9, <1>11, <1>12 DEF SeededRows
<1>14. QED BY <1>10, <1>13 DEF x

SeededTypes == [o \in DOMAIN SeedTypes |-> [name |-> SeedTypes[o], code |-> SeedTypes[o]]]

Catalogue(d) ==
  /\ Distinct(d.categories)
  /\ Len(d.applied) >= 3 => SeededRows(d.categories) /\ d.types = SeededTypes

CatalogueInv == HistoryInv /\ Catalogue(db) /\ (tx # None => Catalogue(tx.work))

LEMMA NoRowsDistinct == Distinct(NoRows) /\ Len(Empty.applied) = 0 /\ Empty.categories = NoRows
<1>1. DOMAIN NoRows = {}
  BY DEF NoRows
<1>2. QED BY <1>1, EmptyRow DEF Distinct

LEMMA CatalogueUp ==
  ASSUME NEW d, Columns(d), NEW m \in Versions, m = Len(d.applied) + 1,
         UpAdmits(m, d), Catalogue(d)
  PROVE  Catalogue(Up(m, d))
<1> DEFINE x == Up(m, d)
           n == Len(d.applied)
<1>1. IsRow(d) /\ d.applied \in Seq(Versions)
  BY ColumnsRow DEF Columns
<1>2. x.applied = Append(d.applied, m)
  BY <1>1, UpEffect
<1>3. /\ m \in {1, 4} => Kept(d, x, {"applied", "schema"})
      /\ m = 2 => Kept(d, x, {"applied", "schema", "location", "previewRequired"})
      /\ m = 3 => /\ x.categories = CategoriesSeeded(d.categories)
                  /\ x.types = TypesSeeded(d.types)
  BY <1>1, UpColumnsOf
<1> SUFFICES Catalogue(x)
  OBVIOUS
<1> HIDE DEF x
<1>4. Len(x.applied) = m
  BY <1>1, <1>2
<1>5. n \in Nat /\ m = n + 1 /\ m \in 1..4
  BY <1>1 DEF Versions
<1> HIDE DEF n
<1>6. CASE m \in {1, 2}
  <2>1. x.categories = d.categories /\ ~(m >= 3)
    BY <1>3, <1>6 DEF Kept, Fields
  <2>2. QED BY <1>4, <2>1 DEF Catalogue
<1>7. CASE m = 3
  <2>1. DOMAIN d.types \subseteq 1..9 /\ ~CategoryClash(d.categories)
    BY <1>7 DEF UpAdmits
  <2>2. SeededRows(CategoriesSeeded(d.categories)) /\ Distinct(CategoriesSeeded(d.categories))
    BY <2>1, SeedingWorks DEF Catalogue, Columns
  <2>3. DOMAIN d.types \cup DOMAIN SeedTypes = DOMAIN SeedTypes
    BY <2>1, TypeSeeds
  <2>4. TypesSeeded(d.types) = SeededTypes
    BY <2>3 DEF TypesSeeded, SeededTypes
  <2>5. QED BY <1>3, <1>7, <2>2, <2>4 DEF Catalogue
<1>8. CASE m = 4
  <2>1. n >= 3 /\ x.categories = d.categories /\ x.types = d.types
    BY <1>3, <1>5, <1>8 DEF Kept, Fields
  <2>2. QED BY <2>1 DEF Catalogue, n
<1>9. QED BY <1>5, <1>6, <1>7, <1>8

LEMMA CatalogueDown ==
  ASSUME NEW d, Columns(d), Built(d), NEW m \in Versions, m = Len(d.applied), Catalogue(d)
  PROVE  Catalogue(Down(m, d))
<1> DEFINE x == Down(m, d)
<1>1. IsRow(d) /\ d.applied \in Seq(Versions) /\ m \in 1..4
  BY ColumnsRow DEF Columns, Versions
<1>2. /\ m = 1 => Kept(Empty, x, {"applied", "schema"})
      /\ m = 2 => Kept(d, x, {"applied", "schema", "location", "previewRequired"})
      /\ m = 3 => Kept(d, x, {"applied", "schema", "start", "previewRequired",
                              "types", "member", "avatar"})
      /\ m = 4 => Kept(d, x, {"applied", "schema"})
  BY <1>1, DownColumnsOf
<1>3. Len(x.applied) = m - 1
  BY DownLength
<1> SUFFICES Catalogue(x)
  OBVIOUS
<1> HIDE DEF x
<1>4. CASE m = 1
  <2>1. Distinct(Empty.categories)
    BY NoRowsDistinct
  <2>2. x.categories = Empty.categories
    BY <1>2, <1>4 DEF Kept, Fields
  <2>3. ~(m - 1 >= 3)
    BY <1>4
  <2>4. QED BY <1>3, <2>1, <2>2, <2>3 DEF Catalogue
<1>5. CASE m \in {2, 3}
  <2>1. x.categories = d.categories
    BY <1>2, <1>5 DEF Kept, Fields
  <2>2. ~(m - 1 >= 3)
    <3>1. \A k \in {2, 3} : ~(k - 1 >= 3)
      OBVIOUS
    <3>2. QED BY <1>5, <3>1
  <2>3. QED BY <1>3, <2>1, <2>2 DEF Catalogue
<1>6. CASE m = 4
  <2>1. x.categories = d.categories /\ x.types = d.types
    BY <1>2, <1>6 DEF Kept, Fields
  <2>2. Len(d.applied) >= 3
    BY <1>6
  <2>3. QED BY <2>1, <2>2 DEF Catalogue
<1>7. QED BY <1>1, <1>4, <1>5, <1>6

LEMMA CatalogueUsed ==
  ASSUME HistoryInv, Used, Catalogue(db)
  PROVE  tx' = None /\ Catalogue(db')
<1>1. tx' = None
  BY DEF Used, LegacyUse, Join, StorePlace
<1>2. IsRow(db)
  BY ColumnsRow DEF HistoryInv, TablesTyped
<1>3. ASSUME NEW c \in Contents, LegacyUse(c) PROVE Catalogue(db')
  <2>1. /\ db'.categories = c.categories
        /\ Kept(db, db', {"categories", "types", "joined", "nickname", "avatar", "start"})
    BY <1>2, <1>3, LegacyUseWrites
  <2>2. db'.applied = <<1>>
    BY <1>3, <2>1 DEF Kept, Fields, LegacyUse
  <2>3. ~(Len(db'.applied) >= 3)
    BY <2>2
  <2>4. Distinct(c.categories)
    BY ContentsAssumption DEF Distinct
  <2>5. QED BY <2>1, <2>3, <2>4 DEF Catalogue
<1>4. ASSUME NEW u, NEW a, NEW n, NEW l, Join(u, a, n, l) PROVE Catalogue(db')
  <2>1. Kept(db, db', {"joined", "nickname", "member", "location"})
    BY <1>2, <1>4, JoinWrites
  <2>2. db'.applied = db.applied /\ db'.categories = db.categories /\ db'.types = db.types
    BY <2>1 DEF Kept, Fields
  <2>3. QED BY <2>2 DEF Catalogue
<1>5. ASSUME StorePlace PROVE Catalogue(db')
  <2>1. Kept(db, db', {"google", "previewNull"})
    BY <1>2, <1>5, StorePlaceWrites
  <2>2. db'.applied = db.applied /\ db'.categories = db.categories /\ db'.types = db.types
    BY <2>1 DEF Kept, Fields
  <2>3. QED BY <2>2 DEF Catalogue
<1>6. QED BY <1>1, <1>3, <1>4, <1>5 DEF Used

LEMMA CatalogueInvStep ==
  ASSUME ~RevertsRace, CatalogueInv, [ReleaseNext]_releaseVars
  PROVE  CatalogueInv'
<1>0. HistoryInv /\ Catalogue(db) /\ (tx # None => Catalogue(tx.work))
  BY DEF CatalogueInv
<1>1. HistoryInv'
  BY <1>0, ReleaseSteps, HistoryInvStep, ServeKeepsHistory
<1>2. tx # None => Columns(tx.work) /\ Built(tx.work)
  BY <1>0, HistoryParts DEF HistoryInv, TablesTyped
<1>3. ASSUME Serve PROVE Catalogue(db') /\ (tx' # None => Catalogue(tx'.work))
  BY <1>0, <1>3 DEF Serve
<1>4. ASSUME [Next]_vars PROVE Catalogue(db') /\ (tx' # None => Catalogue(tx'.work))
  <2>1. CASE Rests
    BY <1>0, <2>1 DEF Rests
  <2>2. ASSUME NEW m \in Versions, UpNext(m) PROVE Catalogue(db') /\ Catalogue(tx'.work)
    BY <1>0, <1>2, <2>2, CatalogueUp DEF UpNext
  <2>3. ASSUME NEW m \in Versions, DownLast(m) PROVE Catalogue(db') /\ Catalogue(tx'.work)
    BY <1>0, <1>2, <2>3, CatalogueDown DEF DownLast
  <2>4. CASE Commits
    BY <1>0, <2>4 DEF Commits
  <2>5. CASE Used
    BY <1>0, <2>5, CatalogueUsed
  <2>6. QED BY <1>0, <1>4, <2>1, <2>2, <2>3, <2>4, <2>5, OrderedSteps
<1>5. Catalogue(db') /\ (tx' # None => Catalogue(tx'.work))
  BY <1>3, <1>4, ReleaseSteps
<1>6. QED BY <1>1, <1>5 DEF CatalogueInv, Catalogue, Distinct, SeededRows

LEMMA CatalogueInvAlways == ASSUME ~RevertsRace PROVE ReleaseSpec => []CatalogueInv
<1>1. ReleaseInit => CatalogueInv
  <2>1. Init => Catalogue(db) /\ tx = None
    <3>1. ~(0 >= 3)
      OBVIOUS
    <3>2. QED BY <3>1, NoRowsDistinct DEF Init, Catalogue
  <2>2. QED BY <2>1, HistoryInvInit DEF ReleaseInit, CatalogueInv
<1>2. CatalogueInv /\ [ReleaseNext]_releaseVars => CatalogueInv'
  BY CatalogueInvStep
<1>3. QED BY <1>1, <1>2, PTL DEF ReleaseSpec

\* Whatever earlier releases and people at the console left in the tables,
\* CompletePlaceFlow either refuses it or leaves the whole catalogue in them.
THEOREM CatalogueComplete == ASSUME ~RevertsRace PROVE ReleaseSpec => []CatalogueSeeded
<1>1. ASSUME NEW d, Columns(d), Built(d), Catalogue(d), 3 \in RangeOf(d.applied)
      PROVE  /\ Distinct(d.categories) /\ SeededRows(d.categories) /\ d.types = SeededTypes
  <2> DEFINE n == Len(d.applied)
  <2>1. n \in 0..4 /\ 3 \in 1..n
    BY <1>1, BuiltRange
  <2> HIDE DEF n
  <2>2. n >= 3
    BY <2>1
  <2>3. QED BY <1>1, <2>2 DEF Catalogue, n
<1>2. CatalogueInv => CatalogueSeeded
  <2> SUFFICES ASSUME CatalogueInv PROVE CatalogueSeeded
    OBVIOUS
  <2>1. \A d \in Databases : Columns(d) /\ Built(d) /\ Catalogue(d)
    BY HistoryParts DEF Databases, CatalogueInv, HistoryInv, TablesTyped
  <2>2. \A d \in Databases : 3 \in RangeOf(d.applied) =>
          /\ Distinct(d.categories) /\ SeededRows(d.categories) /\ d.types = SeededTypes
    BY <1>1, <2>1
  <2>3. DOMAIN SeedSlugs = 1..8
    BY SlugSeeds
  <2>4. QED BY <2>2, <2>3 DEF CatalogueSeeded, Distinct, SeededRows, SeededTypes
<1>3. QED BY <1>2, CatalogueInvAlways, PTL

-----------------------------------------------------------------------------
(***************************************************************************)
(* The endpoints: the first of its checks that fails decides what an       *)
(* endpoint answers, and it accepts a request when none fails.             *)
(***************************************************************************)

\* What the checks of the endpoints throw.
Exceptions ==
  {Api!Thrown(c) : c \in DOMAIN Api!CommonErrorCode \cup DOMAIN Api!MeetingErrorCode}
    \cup {Api!Http(400), Api!Http(413), Api!Unhandled}

Check == BOOLEAN \X Exceptions
Fails(checks) == \E i \in DOMAIN checks : checks[i][1]

LEMMA ResolveCode ==
  ASSUME NEW x \in Exceptions
  PROVE  Api!Resolve(x).code # "OK"
<1>1. ASSUME NEW c \in DOMAIN Api!CommonErrorCode \cup DOMAIN Api!MeetingErrorCode,
             x = Api!Thrown(c)
      PROVE  Api!Resolve(x).code # "OK"
  <2>1. c # "OK"
    BY DEF Api!CommonErrorCode, Api!MeetingErrorCode
  <2>2. x.kind = "BaseException" /\ x.code = c
    BY <1>1 DEF Api!Thrown
  <2>3. QED BY <2>1, <2>2 DEF Api!Resolve
<1>2. ASSUME NEW s \in {400, 413}, x = Api!Http(s) PROVE Api!Resolve(x).code # "OK"
  <2>1. x.kind = "HttpException" /\ x.status = s
    BY <1>2 DEF Api!Http
  <2>2. Api!HttpCode(s) # "OK"
    BY DEF Api!HttpCode
  <2>3. QED BY <2>1, <2>2 DEF Api!Resolve
<1>3. ASSUME x = Api!Unhandled PROVE Api!Resolve(x).code # "OK"
  BY <1>3 DEF Api!Unhandled, Api!Resolve
<1>4. QED BY <1>1, <1>2, <1>3 DEF Exceptions

LEMMA FailsOfTwo ==
  ASSUME NEW s \in Seq(Check), NEW t \in Seq(Check)
  PROVE  s \o t \in Seq(Check) /\ (Fails(s \o t) <=> Fails(s) \/ Fails(t))
<1>1. s \o t \in Seq(Check)
  OBVIOUS
<1>2. Len(s \o t) = Len(s) + Len(t)
  OBVIOUS
<1>3. \A i \in 1..(Len(s) + Len(t)) :
        (s \o t)[i] = IF i <= Len(s) THEN s[i] ELSE t[i - Len(s)]
  OBVIOUS
<1>4. Len(s) \in Nat /\ Len(t) \in Nat /\ DOMAIN s = 1..Len(s) /\ DOMAIN t = 1..Len(t)
      /\ DOMAIN (s \o t) = 1..(Len(s) + Len(t))
  BY <1>1, <1>2
<1>5. ASSUME NEW i \in 1..Len(s) PROVE i \in DOMAIN (s \o t) /\ (s \o t)[i] = s[i]
  BY <1>3, <1>4
<1>6. ASSUME NEW i \in 1..Len(t)
      PROVE  i + Len(s) \in DOMAIN (s \o t) /\ (s \o t)[i + Len(s)] = t[i]
  <2>1. i + Len(s) \in 1..(Len(s) + Len(t)) /\ ~(i + Len(s) <= Len(s)) /\ (i + Len(s)) - Len(s) = i
    BY <1>4
  <2>2. QED BY <1>3, <1>4, <2>1
<1>7. ASSUME NEW i \in 1..(Len(s) + Len(t)), ~(i <= Len(s))
      PROVE  i - Len(s) \in 1..Len(t)
  BY <1>4, <1>7
<1> DEFINE u == s \o t
<1>8. ASSUME NEW i \in DOMAIN u, u[i][1] PROVE Fails(s) \/ Fails(t)
  <2>1. CASE i <= Len(s)
    BY <1>3, <1>4, <1>8, <2>1 DEF Fails
  <2>2. CASE ~(i <= Len(s))
    BY <1>3, <1>4, <1>7, <1>8, <2>2 DEF Fails
  <2>3. QED BY <2>1, <2>2
<1>9. Fails(s) => Fails(u)
  BY <1>4, <1>5 DEF Fails
<1>10. Fails(t) => Fails(u)
  BY <1>4, <1>6 DEF Fails
<1>11. Fails(u) => Fails(s) \/ Fails(t)
  BY <1>8 DEF Fails
<1>12. QED BY <1>1, <1>9, <1>10, <1>11

LEMMA FailsOne ==
  ASSUME NEW a \in Check
  PROVE  <<a>> \in Seq(Check) /\ (Fails(<<a>>) <=> a[1])
BY DEF Fails

LEMMA FailsPair ==
  ASSUME NEW a \in Check, NEW b \in Check
  PROVE  <<a, b>> \in Seq(Check) /\ (Fails(<<a, b>>) <=> a[1] \/ b[1])
BY DEF Fails

LEMMA FailsFour ==
  ASSUME NEW a \in Check, NEW b \in Check, NEW c \in Check, NEW d \in Check
  PROVE  <<a, b, c, d>> \in Seq(Check) /\ (Fails(<<a, b, c, d>>) <=> a[1] \/ b[1] \/ c[1] \/ d[1])
<1> DEFINE s == <<a, b, c, d>>
<1>1. s \in Seq(Check) /\ DOMAIN s = 1..4 /\ s[1] = a /\ s[2] = b /\ s[3] = c /\ s[4] = d
  OBVIOUS
<1> HIDE DEF s
<1>2. QED BY <1>1 DEF Fails

\* The first check that fails decides.
LEMMA OutcomeAnswer ==
  ASSUME NEW success, NEW documented, NEW checks \in Seq(Check)
  PROVE  /\ ~Fails(checks) =>
              Api!Outcome(success, documented, checks).answer = [status |-> success, code |-> "OK"]
         /\ Fails(checks) => \E i \in DOMAIN checks :
              /\ checks[i][1] /\ \A j \in DOMAIN checks : checks[j][1] => i <= j
              /\ Api!Outcome(success, documented, checks).answer = Api!Resolve(checks[i][2])
<1> DEFINE failed == {i \in DOMAIN checks : checks[i][1]}
           first == CHOOSE i \in failed : \A j \in failed : i <= j
<1>1. Api!Outcome(success, documented, checks).answer =
        IF failed = {} THEN [status |-> success, code |-> "OK"] ELSE Api!Resolve(checks[first][2])
  BY DEF Api!Outcome
<1>2. failed \in SUBSET Nat /\ (failed # {} <=> Fails(checks))
  BY DEF Fails
<1>3. ASSUME failed # {} PROVE first \in failed /\ \A j \in failed : first <= j
  <2>1. \E i \in failed : \A j \in failed : i <= j
    BY <1>2, <1>3, LeastExists
  <2>2. QED BY <2>1
<1> HIDE DEF first
<1>4. QED BY <1>1, <1>2, <1>3

LEMMA OutcomeOk ==
  ASSUME NEW success, NEW documented, NEW checks \in Seq(Check)
  PROVE  Api!Outcome(success, documented, checks).answer.code = "OK" <=> ~Fails(checks)
<1>1. ASSUME Fails(checks)
      PROVE  Api!Outcome(success, documented, checks).answer.code # "OK"
  <2>1. PICK i \in DOMAIN checks :
          Api!Outcome(success, documented, checks).answer = Api!Resolve(checks[i][2])
    BY <1>1, OutcomeAnswer
  <2>2. checks[i][2] \in Exceptions
    BY DEF Check
  <2>3. QED BY <2>1, <2>2, ResolveCode
<1>2. ASSUME ~Fails(checks)
      PROVE  Api!Outcome(success, documented, checks).answer.code = "OK"
  <2>1. Api!Outcome(success, documented, checks).answer = [status |-> success, code |-> "OK"]
    BY <1>2, OutcomeAnswer
  <2>2. QED BY <2>1
<1>3. QED BY <1>1, <1>2

LEMMA Endpoints ==
  ASSUME NEW q
  PROVE  /\ q.op = "createMeeting" => Api!Endpoint(q) = Api!CreateMeeting(q)
         /\ q.op = "joinMeeting" => Api!Endpoint(q) = Api!JoinMeeting(q)
         /\ q.op = "updateLocation" => Api!Endpoint(q) = Api!UpdateLocation(q)
         /\ q.op = "updateCoursePlan" => Api!Endpoint(q) = Api!UpdateCoursePlan(q)
         /\ q.op = "addRecommendation" => Api!Endpoint(q) = Api!AddRecommendation(q)
BY DEF Api!Endpoint

LEMMA Failures ==
  ASSUME NEW condition \in BOOLEAN, NEW c \in DOMAIN Api!CommonErrorCode \cup DOMAIN Api!MeetingErrorCode
  PROVE  Api!Failure(condition, c) \in Check /\ (Api!Failure(condition, c)[1] <=> condition)
BY DEF Api!Failure, Check, Exceptions

LEMMA FailsThree ==
  ASSUME NEW a \in Check, NEW b \in Check, NEW c \in Check
  PROVE  <<a, b, c>> \in Seq(Check) /\ (Fails(<<a, b, c>>) <=> a[1] \/ b[1] \/ c[1])
<1> DEFINE s == <<a, b, c>>
<1>1. s \in Seq(Check) /\ DOMAIN s = 1..3 /\ s[1] = a /\ s[2] = b /\ s[3] = c
  OBVIOUS
<1> HIDE DEF s
<1>2. QED BY <1>1 DEF Fails

LEMMA ThrownCodes ==
  {"VALIDATION_ERROR", "AUTHENTICATION_FAILED", "NOT_IMPLEMENTED", "SERVICE_UNAVAILABLE",
   "EXTERNAL_SERVICE_ERROR", "INTERNAL_SERVER_ERROR", "MEETING_NOT_FOUND", "MEETING_INVITATION_CODE_ISSUANCE_FAILED",
   "MEETING_TYPE_NOT_FOUND", "MEETING_INVALID_COURSE_CATEGORY", "MEETING_INVITATION_NOT_FOUND",
   "MEETING_NICKNAME_ALREADY_IN_USE", "MEETING_HOST_ONLY", "MEETING_STALE_COURSE_PLAN",
   "MEETING_PLACE_NOT_FOUND", "MEETING_PLACE_CATEGORY_MISMATCH", "MEETING_PLACE_OUTSIDE_RANGE",
   "MEETING_RECOMMENDATION_ALREADY_EXISTS", "MEETING_COURSE_IMAGE_STATE_INVALID",
   "MEETING_COURSE_IMAGE_NOT_FOUND"} \subseteq DOMAIN Api!CommonErrorCode \cup DOMAIN Api!MeetingErrorCode
BY DEF Api!CommonErrorCode, Api!MeetingErrorCode

LEMMA Checks ==
  ASSUME NEW condition \in BOOLEAN, NEW x \in Exceptions
  PROVE  <<condition, x>> \in Check /\ (<<condition, x>>[1] <=> condition)
BY DEF Check

LEMMA FirstCheck ==
  ASSUME NEW q
  PROVE  /\ Api!Invalid(q) \in Check /\ (Api!Invalid(q)[1] <=> q.body = None)
         /\ Api!MalformedId(q) \in Check /\ (Api!MalformedId(q)[1] <=> Api!PipeRejects(q.id))
         /\ Api!HostOnly(q) \in Check /\ (Api!HostOnly(q)[1] <=> q.token # "host")
<1>0. Api!Thrown("VALIDATION_ERROR") \in Exceptions
  BY ThrownCodes DEF Exceptions
<1>1. Api!Invalid(q) \in Check /\ (Api!Invalid(q)[1] <=> q.body = None)
  <2>1. (q.body = None) \in BOOLEAN
    OBVIOUS
  <2>2. QED BY <1>0, <2>1, Checks DEF Api!Invalid
<1>2. Api!MalformedId(q) \in Check /\ (Api!MalformedId(q)[1] <=> Api!PipeRejects(q.id))
  <2>1. Api!PipeRejects(q.id) \in BOOLEAN
    BY DEF Api!PipeRejects
  <2>2. QED BY <1>0, <2>1, Checks DEF Api!MalformedId
<1>3. Api!HostOnly(q) \in Check /\ (Api!HostOnly(q)[1] <=> q.token # "host")
  <2>1. (q.token # "host") \in BOOLEAN
    OBVIOUS
  <2>2. QED BY <2>1, Failures, ThrownCodes DEF Api!HostOnly
<1>4. QED BY <1>1, <1>2, <1>3

LEMMA Authenticated ==
  ASSUME NEW q
  PROVE  /\ Api!Authentication(q) \in Seq(Check)
         /\ Fails(Api!Authentication(q)) <=>
              \/ q.token \in {"twice", "blank"} \/ Api!DatabaseRejects(q.id) \/ ~Api!Participant(q)
<1> DEFINE a == <<q.token = "twice", Api!Unhandled>>
           b == Api!Failure(q.token = "blank", "AUTHENTICATION_FAILED")
           c == <<Api!DatabaseRejects(q.id), Api!Unhandled>>
           d == Api!Failure(~Api!Participant(q), "AUTHENTICATION_FAILED")
<1>1. a \in Check /\ (a[1] <=> q.token = "twice")
  BY DEF Check, Exceptions
<1>2. b \in Check /\ (b[1] <=> q.token = "blank")
  BY Failures, ThrownCodes
<1>3. c \in Check /\ (c[1] <=> Api!DatabaseRejects(q.id))
  <2>1. Api!DatabaseRejects(q.id) \in BOOLEAN /\ Api!Unhandled \in Exceptions
    BY DEF Api!DatabaseRejects, Exceptions
  <2>2. QED BY <2>1, Checks
<1>4. d \in Check /\ (d[1] <=> ~Api!Participant(q))
  <2>1. (~Api!Participant(q)) \in BOOLEAN
    OBVIOUS
  <2>2. QED BY <2>1, Failures, ThrownCodes
<1>5. Api!Authentication(q) = <<a, b, c, d>>
  BY DEF Api!Authentication
<1> HIDE DEF a, b, c, d
<1>6. QED BY <1>1, <1>2, <1>3, <1>4, <1>5, FailsFour

\* A request is accepted when neither part of its checks fails.
LEMMA Accepts ==
  ASSUME NEW success, NEW documented, NEW s \in Seq(Check), NEW t \in Seq(Check)
  PROVE  Api!Outcome(success, documented, s \o t).answer.code = "OK" <=> ~Fails(s) /\ ~Fails(t)
<1>1. s \o t \in Seq(Check) /\ (Fails(s \o t) <=> Fails(s) \/ Fails(t))
  BY FailsOfTwo
<1>2. QED BY <1>1, OutcomeOk

\* Nothing is checked.
LEMMA NoChecks == <<>> \in Seq(Check) /\ ~Fails(<<>>)
BY DEF Fails

LEMMA RestOfCreate ==
  ASSUME NEW q, q.drawn \in BOOLEAN
  PROVE  Api!CreateMeeting(q).answer.code = "OK" <=>
           /\ q.body # None
           /\ q.body.type \in {db.types[o].code : o \in DOMAIN db.types}
           /\ Api!RangeOf(q.body.slugs) \subseteq DOMAIN db.categories
           /\ q.drawn
<1> DEFINE typed == q.body.type \in {db.types[o].code : o \in DOMAIN db.types}
           known == Api!RangeOf(q.body.slugs) \subseteq DOMAIN db.categories
           a == Api!Failure(~typed, "MEETING_TYPE_NOT_FOUND")
           b == Api!UnknownCategory(q.body.slugs)
           c == Api!Failure(~q.drawn, "MEETING_INVITATION_CODE_ISSUANCE_FAILED")
           first == <<Api!Invalid(q)>>
           rest == IF q.body = None THEN <<>> ELSE <<a, b, c>>
<1>1. a \in Check /\ (a[1] <=> ~typed)
  <2>1. (~typed) \in BOOLEAN
    OBVIOUS
  <2>2. QED BY <2>1, Failures, ThrownCodes
<1>2. b \in Check /\ (b[1] <=> ~known)
  <2>1. (~known) \in BOOLEAN
    OBVIOUS
  <2> HIDE DEF known
  <2>2. b = Api!Failure(~known, "MEETING_INVALID_COURSE_CATEGORY")
    BY DEF Api!UnknownCategory, known
  <2>3. QED BY <2>1, <2>2, Failures, ThrownCodes
<1>3. c \in Check /\ (c[1] <=> ~q.drawn)
  <2>1. (~q.drawn) \in BOOLEAN
    OBVIOUS
  <2>2. QED BY <2>1, Failures, ThrownCodes
<1>4. first \in Seq(Check) /\ (Fails(first) <=> q.body = None)
  BY FirstCheck, FailsOne
<1>5. Api!CreateMeeting(q) = Api!Outcome(201, {400, 404, 503}, first \o rest)
  BY DEF Api!CreateMeeting
<1> HIDE DEF a, b, c, first, typed, known
<1>6. CASE q.body = None
  <2>1. rest = <<>> /\ rest \in Seq(Check)
    BY <1>6
  <2>2. first \o rest \in Seq(Check) /\ Fails(first \o rest)
    BY <1>4, <1>6, <2>1, FailsOfTwo
  <2>3. QED BY <1>5, <1>6, <2>2, OutcomeOk
<1>7. CASE q.body # None
  <2>1. rest = <<a, b, c>> /\ rest \in Seq(Check) /\ (Fails(rest) <=> a[1] \/ b[1] \/ c[1])
    BY <1>1, <1>2, <1>3, <1>7, FailsThree
  <2> HIDE DEF rest
  <2>2. Api!CreateMeeting(q).answer.code = "OK" <=> ~Fails(first) /\ ~Fails(rest)
    <3>1. Api!Outcome(201, {400, 404, 503}, first \o rest).answer.code = "OK" <=>
            ~Fails(first) /\ ~Fails(rest)
      <4>1. first \in Seq(Check) /\ rest \in Seq(Check)
        BY <1>4, <2>1
      <4>2. QED BY <4>1, Accepts
    <3>2. QED BY <1>5, <3>1
  <2>3. Api!CreateMeeting(q).answer.code = "OK" <=> typed /\ known /\ q.drawn
    BY <1>1, <1>2, <1>3, <1>4, <1>7, <2>1, <2>2
  <2>4. QED BY <1>7, <2>3 DEF typed, known
<1>8. QED BY <1>6, <1>7

\* The checks that two endpoints share.
LEMMA Invited ==
  ASSUME NEW q, NEW code
  PROVE  /\ Api!InvitationChecks(q, code) \in Seq(Check)
         /\ Fails(Api!InvitationChecks(q, code)) <=> q.body = None \/ meeting = None \/ code # "issued"
<1> DEFINE a == Api!Failure(meeting = None \/ code # "issued", "MEETING_INVITATION_NOT_FOUND")
<1>1. (meeting = None \/ code # "issued") \in BOOLEAN
  OBVIOUS
<1>2. a \in Check /\ (a[1] <=> meeting = None \/ code # "issued")
  BY <1>1, Failures, ThrownCodes
<1>3. Api!InvitationChecks(q, code) = <<Api!Invalid(q), a>>
  BY DEF Api!InvitationChecks
<1> HIDE DEF a
<1>4. QED BY <1>2, <1>3, FirstCheck, FailsPair

LEMMA ScreenChecked ==
  /\ Api!MeetingScreen \in Seq(Check)
  /\ Fails(Api!MeetingScreen) <=> meeting # None /\ "host" \notin Api!Joined
<1>1. (meeting # None /\ "host" \notin Api!Joined) \in BOOLEAN
  OBVIOUS
<1> DEFINE a == Api!Failure(meeting # None /\ "host" \notin Api!Joined, "INTERNAL_SERVER_ERROR")
<1>2. a \in Check /\ (a[1] <=> meeting # None /\ "host" \notin Api!Joined)
  BY <1>1, Failures, ThrownCodes
<1>3. Api!MeetingScreen = <<a>>
  BY DEF Api!MeetingScreen
<1> HIDE DEF a
<1>4. QED BY <1>2, <1>3, FailsOne

\* Who sends the token of a participant, and a body that the schema accepts.
LEMMA Admitted ==
  ASSUME NEW q
  PROVE  /\ <<Api!Invalid(q)>> \o Api!Authentication(q) \in Seq(Check)
         /\ Fails(<<Api!Invalid(q)>> \o Api!Authentication(q)) <=>
              \/ q.body = None
              \/ q.token \in {"twice", "blank"} \/ Api!DatabaseRejects(q.id) \/ ~Api!Participant(q)
<1>1. <<Api!Invalid(q)>> \in Seq(Check) /\ (Fails(<<Api!Invalid(q)>>) <=> q.body = None)
  BY FirstCheck, FailsOne
<1>2. QED BY <1>1, Authenticated, FailsOfTwo

LEMMA HostAdmitted ==
  ASSUME NEW q
  PROVE  /\ <<Api!Invalid(q)>> \o Api!Authentication(q) \o <<Api!HostOnly(q)>> \in Seq(Check)
         /\ Fails(<<Api!Invalid(q)>> \o Api!Authentication(q) \o <<Api!HostOnly(q)>>) <=>
              \/ q.body = None
              \/ Api!DatabaseRejects(q.id) \/ ~Api!Participant(q) \/ q.token # "host"
<1>1. <<Api!HostOnly(q)>> \in Seq(Check) /\ (Fails(<<Api!HostOnly(q)>>) <=> q.token # "host")
  BY FirstCheck, FailsOne
<1> DEFINE s == <<Api!Invalid(q)>> \o Api!Authentication(q)
<1>2. s \in Seq(Check) /\ (Fails(s) <=>
        \/ q.body = None
        \/ q.token \in {"twice", "blank"} \/ Api!DatabaseRejects(q.id) \/ ~Api!Participant(q))
  BY Admitted
<1> HIDE DEF s
<1>3. s \o <<Api!HostOnly(q)>> \in Seq(Check)
      /\ (Fails(s \o <<Api!HostOnly(q)>>) <=> Fails(s) \/ Fails(<<Api!HostOnly(q)>>))
  BY <1>1, <1>2, FailsOfTwo
<1>4. QED BY <1>1, <1>2, <1>3 DEF s

LEMMA ParticipantOf == ASSUME NEW q, Api!Participant(q) PROVE meeting # None
BY DEF Api!Participant, Api!Joined

\* What the accepted requests are.
LEMMA JoinAccepted ==
  ASSUME NEW q, Api!JoinMeeting(q).answer.code = "OK"
  PROVE  q.body # None /\ meeting # None
<1> DEFINE s == Api!InvitationChecks(q, IF q.body = None THEN None ELSE q.body.code)
           taken == \E u \in Api!Joined \ {q.body.user} : meeting.nickname[u] = q.body.nickname
           a == Api!Failure(taken, "MEETING_NICKNAME_ALREADY_IN_USE")
           t == IF q.body = None \/ meeting = None THEN <<>> ELSE <<a>> \o Api!MeetingScreen
<1>1. s \in Seq(Check) /\ (q.body = None \/ meeting = None => Fails(s))
  BY Invited
<1>2. t \in Seq(Check)
  <2>1. taken \in BOOLEAN
    OBVIOUS
  <2> HIDE DEF taken
  <2>2. <<a>> \in Seq(Check)
    BY <2>1, Failures, ThrownCodes, FailsOne
  <2>3. <<a>> \o Api!MeetingScreen \in Seq(Check)
    BY <2>2, ScreenChecked, FailsOfTwo
  <2>4. QED BY <2>3, NoChecks
<1>3. Api!JoinMeeting(q) = Api!Outcome(201, {400, 404, 409}, s \o t)
  BY DEF Api!JoinMeeting
<1> HIDE DEF s, t
<1>4. QED BY <1>1, <1>2, <1>3, Accepts

LEMMA MoveAccepted ==
  ASSUME NEW q, q.locked \in BOOLEAN, Api!UpdateLocation(q).answer.code = "OK"
  PROVE  q.body # None /\ meeting # None
<1> DEFINE s == <<Api!Invalid(q)>> \o Api!Authentication(q)
           t == <<Api!HostOnly(q), Api!LockRefused(q), Api!RepeatedJob>>
<1>1. s \in Seq(Check) /\ (q.body = None \/ ~Api!Participant(q) => Fails(s))
  BY Admitted
<1>2. t \in Seq(Check)
  <2>1. (meeting # None /\ Api!Repeats(meeting.plan)) \in BOOLEAN /\ Api!Unhandled \in Exceptions
    BY DEF Exceptions
  <2>2. Api!RepeatedJob \in Check
    BY <2>1, Checks DEF Api!RepeatedJob
  <2>3. Api!LockRefused(q) \in Check
    BY <2>1, Checks DEF Api!LockRefused
  <2>4. QED BY <2>2, <2>3, FirstCheck, FailsThree
<1>3. Api!UpdateLocation(q) = Api!Outcome(200, {400, 401, 403, 404}, s \o t)
  BY DEF Api!UpdateLocation
<1> HIDE DEF s, t
<1>4. QED BY <1>1, <1>2, <1>3, Accepts, ParticipantOf

LEMMA PlanAccepted ==
  ASSUME NEW q
  PROVE  Api!UpdateCoursePlan(q).answer.code = "OK" <=>
           /\ q.body # None /\ meeting # None
           /\ ~Api!DatabaseRejects(q.id) /\ Api!Participant(q) /\ q.token = "host"
           /\ Api!RangeOf(q.body.slugs) \subseteq DOMAIN db.categories
           /\ q.body.version = meeting.version
<1> DEFINE known == Api!RangeOf(q.body.slugs) \subseteq DOMAIN db.categories
           stale == q.body.version # meeting.version
           a == Api!UnknownCategory(q.body.slugs)
           b == Api!Failure(stale, "MEETING_STALE_COURSE_PLAN")
           s == <<Api!Invalid(q)>> \o Api!Authentication(q) \o <<Api!HostOnly(q)>>
           t == IF q.body = None \/ meeting = None THEN <<>> ELSE <<a, b>>
<1>1. s \in Seq(Check) /\ (Fails(s) <=>
        \/ q.body = None
        \/ Api!DatabaseRejects(q.id) \/ ~Api!Participant(q) \/ q.token # "host")
  BY HostAdmitted
<1>2. a \in Check /\ (a[1] <=> ~known)
  <2>1. (~known) \in BOOLEAN
    OBVIOUS
  <2> HIDE DEF known
  <2>2. a = Api!Failure(~known, "MEETING_INVALID_COURSE_CATEGORY")
    BY DEF Api!UnknownCategory, known
  <2>3. QED BY <2>1, <2>2, Failures, ThrownCodes
<1>3. b \in Check /\ (b[1] <=> stale)
  <2>1. stale \in BOOLEAN
    OBVIOUS
  <2> HIDE DEF stale
  <2>2. QED BY <2>1, Failures, ThrownCodes
<1> HIDE DEF a, b
<1>4. /\ t \in Seq(Check)
      /\ q.body # None /\ meeting # None => (Fails(t) <=> a[1] \/ b[1])
  <2>1. <<a, b>> \in Seq(Check) /\ (Fails(<<a, b>>) <=> a[1] \/ b[1])
    BY <1>2, <1>3, FailsPair
  <2>2. CASE q.body = None \/ meeting = None
    BY <2>2, NoChecks
  <2>3. CASE ~(q.body = None \/ meeting = None)
    BY <2>1, <2>3
  <2>4. QED BY <2>2, <2>3
<1>5. Api!UpdateCoursePlan(q) = Api!Outcome(200, {400, 401, 403, 404, 409}, s \o t)
  BY DEF Api!UpdateCoursePlan, a, b
<1> HIDE DEF s, t, known, stale
<1>6. Api!UpdateCoursePlan(q).answer.code = "OK" <=> ~Fails(s) /\ ~Fails(t)
  <2>1. Api!Outcome(200, {400, 401, 403, 404, 409}, s \o t).answer.code = "OK" <=>
          ~Fails(s) /\ ~Fails(t)
    BY <1>1, <1>4, Accepts
  <2>2. QED BY <1>5, <2>1
<1>7. Api!Participant(q) => meeting # None
  BY ParticipantOf
<1>8. Api!UpdateCoursePlan(q).answer.code = "OK" <=>
        /\ q.body # None /\ meeting # None
        /\ ~Api!DatabaseRejects(q.id) /\ Api!Participant(q) /\ q.token = "host"
        /\ known /\ ~stale
  BY <1>1, <1>2, <1>3, <1>4, <1>6, <1>7
<1>9. QED BY <1>8 DEF known, stale

LEMMA RecommendationAccepted ==
  ASSUME NEW q, Api!AddRecommendation(q).answer.code = "OK"
  PROVE  q.body \in Places /\ meeting # None
<1> DEFINE s == <<Api!Invalid(q)>> \o Api!Authentication(q)
           t == << <<q.body = "huge", Api!Unhandled>>,
                   Api!Failure(q.body \notin Places, "MEETING_PLACE_NOT_FOUND") >>
           other == SlugOf[q.body] \notin Api!RangeOf(meeting.plan)
           far == q.body \notin Near[meeting.spot]
           again == q.body \in meeting.recommended
           u == IF q.body \notin Places \/ meeting = None THEN <<>> ELSE
                <<Api!Failure(other, "MEETING_PLACE_CATEGORY_MISMATCH"),
                  Api!Failure(far, "MEETING_PLACE_OUTSIDE_RANGE"),
                  Api!Failure(again, "MEETING_RECOMMENDATION_ALREADY_EXISTS")>>
<1>1. s \in Seq(Check) /\ (~Api!Participant(q) => Fails(s))
  BY Admitted
<1>2. t \in Seq(Check) /\ (q.body \notin Places => Fails(t))
  <2>1. (q.body = "huge") \in BOOLEAN /\ (q.body \notin Places) \in BOOLEAN
        /\ Api!Unhandled \in Exceptions
    BY DEF Exceptions
  <2>2. <<q.body = "huge", Api!Unhandled>> \in Check
    BY <2>1, Checks
  <2>3. /\ Api!Failure(q.body \notin Places, "MEETING_PLACE_NOT_FOUND") \in Check
        /\ Api!Failure(q.body \notin Places, "MEETING_PLACE_NOT_FOUND")[1] <=> q.body \notin Places
    BY <2>1, Failures, ThrownCodes
  <2>4. QED BY <2>2, <2>3, FailsPair
<1>3. u \in Seq(Check)
  <2>1. other \in BOOLEAN /\ far \in BOOLEAN /\ again \in BOOLEAN
    OBVIOUS
  <2> HIDE DEF other, far, again
  <2>2. /\ Api!Failure(other, "MEETING_PLACE_CATEGORY_MISMATCH") \in Check
        /\ Api!Failure(far, "MEETING_PLACE_OUTSIDE_RANGE") \in Check
        /\ Api!Failure(again, "MEETING_RECOMMENDATION_ALREADY_EXISTS") \in Check
    BY <2>1, Failures, ThrownCodes
  <2>3. QED BY <2>2, NoChecks, FailsThree
<1>4. Api!AddRecommendation(q) = Api!Outcome(201, {400, 401, 404, 409}, s \o t \o u)
  BY DEF Api!AddRecommendation, Api!HugeNumber
<1> HIDE DEF s, t, u
<1>5. s \o t \in Seq(Check) /\ (Fails(s \o t) <=> Fails(s) \/ Fails(t))
  BY <1>1, <1>2, FailsOfTwo
<1> DEFINE v == s \o t
<1>6. v \in Seq(Check) /\ (Fails(s) \/ Fails(t) => Fails(v))
  BY <1>5
<1> HIDE DEF v
<1>7. Api!Outcome(201, {400, 401, 404, 409}, v \o u).answer.code = "OK" => ~Fails(v)
  <2>1. v \in Seq(Check)
    BY <1>6
  <2>2. QED BY <1>3, <2>1, Accepts
<1>8. Api!AddRecommendation(q) = Api!Outcome(201, {400, 401, 404, 409}, v \o u)
  BY <1>4 DEF v
<1>9. QED BY <1>1, <1>2, <1>6, <1>7, <1>8, ParticipantOf

-----------------------------------------------------------------------------
(***************************************************************************)
(* The meeting that the endpoints share.                                   *)
(***************************************************************************)

Named(m) == m.nickname["host"] # None
Followed(m) == m.jobs = Api!RangeOf(m.plan) \/ m.edited

MeetingInv ==
  /\ served \in BOOLEAN
  /\ meeting # None => served /\ meeting \in Meeting /\ Named(meeting) /\ Followed(meeting)

LEMMA Couples == DOMAIN Api!Nobody = {"host", "guest"} /\ Api!Nobody \in [{"host", "guest"} -> {None}]
BY DEF Api!Nobody

LEMMA CourseCategories ==
  ASSUME NEW s \in Courses PROVE s \in Seq(Api!CategorySlugs) /\ Api!RangeOf(s) \subseteq Api!CategorySlugs
<1>1. s \in Seq(Api!CategorySlugs)
  BY RequestAssumption
<1>2. QED BY <1>1 DEF Api!RangeOf

LEMMA CreateKeeps ==
  ASSUME MeetingInv, served, NEW q \in Api!Creations, Api!Create(q)
  PROVE  meeting' \in Meeting /\ Named(meeting') /\ Followed(meeting')
<1>1. /\ q.op = "createMeeting" /\ q.drawn \in BOOLEAN
      /\ q.body = None \/ q.body \in [type : Types, slugs : Courses \ {<<>>}]
  BY DEF Api!Creations
<1>2. Api!CreateMeeting(q).answer.code = "OK"
  BY <1>1, Endpoints DEF Api!Create, Api!Accepted, Api!Answer
<1>3. q.body # None /\ q.body.slugs \in Courses
  BY <1>1, <1>2, RestOfCreate
<1> DEFINE s == q.body.slugs
<1>4. PICK n \in Nicknames, spot \in Spots :
        meeting' = [plan |-> s, version |-> 1, jobs |-> Api!RangeOf(s),
                    edited |-> FALSE, spot |-> spot, recommended |-> {},
                    nickname |-> [Api!Nobody EXCEPT !["host"] = n]]
  BY DEF Api!Create
<1>5. s \in Courses /\ Api!RangeOf(s) \subseteq Api!CategorySlugs
  BY <1>3, CourseCategories
<1> HIDE DEF s
<1> DEFINE nick == [Api!Nobody EXCEPT !["host"] = n]
<1>6. nick \in [DOMAIN Api!Nobody -> Nicknames \cup {None}] /\ nick["host"] = n
  BY Couples
<1>7. n # None
  BY NullAssumption
<1>8. 1 \in 1..(MaxVersion + 1)
  BY RequestAssumption
<1> HIDE DEF nick
<1>9. meeting' = [plan |-> s, version |-> 1, jobs |-> Api!RangeOf(s),
                  edited |-> FALSE, spot |-> spot, recommended |-> {}, nickname |-> nick]
  BY <1>4 DEF nick
<1>10. meeting' \in Meeting
  BY <1>5, <1>6, <1>8, <1>9 DEF Meeting
<1>11. QED BY <1>6, <1>7, <1>9, <1>10 DEF Named, Followed

LEMMA MeetingFields ==
  ASSUME NEW m \in Meeting
  PROVE  /\ m = [plan |-> m.plan, version |-> m.version, jobs |-> m.jobs, edited |-> m.edited,
                 spot |-> m.spot, recommended |-> m.recommended, nickname |-> m.nickname]
         /\ m.plan \in Courses /\ m.version \in 1..(MaxVersion + 1)
         /\ m.jobs \subseteq Api!CategorySlugs /\ m.edited \in BOOLEAN /\ m.spot \in Spots
         /\ m.recommended \subseteq Places /\ m.nickname \in [DOMAIN Api!Nobody -> Nicknames \cup {None}]
BY DEF Meeting

LEMMA JoinKeeps ==
  ASSUME MeetingInv, NEW q \in Api!Joins, Api!Join(q)
  PROVE  meeting # None /\ meeting' \in Meeting /\ Named(meeting') /\ Followed(meeting')
<1>1. /\ q.op = "joinMeeting"
      /\ q.body = None \/ q.body \in [code : {"issued", "other"}, user : DOMAIN Api!Nobody,
                                      nickname : Nicknames]
  BY DEF Api!Joins
<1>2. q.body # None /\ meeting # None
  BY <1>1, Endpoints, JoinAccepted DEF Api!Join, Api!Accepted, Api!Answer
<1> DEFINE u == q.body.user
           n == q.body.nickname
           nick == [meeting.nickname EXCEPT ![u] = n]
<1>3. meeting \in Meeting /\ Named(meeting) /\ Followed(meeting)
  BY <1>2 DEF MeetingInv
<1>4. u \in DOMAIN Api!Nobody /\ n \in Nicknames /\ n # None
  BY <1>1, <1>2, NullAssumption
<1>5. meeting' = [plan |-> meeting.plan, version |-> meeting.version, jobs |-> meeting.jobs,
                  edited |-> meeting.edited, spot |-> meeting.spot,
                  recommended |-> meeting.recommended, nickname |-> nick]
  <2>1. meeting' = [meeting EXCEPT !.nickname = nick]
    BY DEF Api!Join
  <2> HIDE DEF nick
  <2>2. QED BY <1>3, <2>1, MeetingFields
<1> HIDE DEF u, n
<1>6. nick \in [DOMAIN Api!Nobody -> Nicknames \cup {None}] /\ nick["host"] # None
  BY <1>3, <1>4, MeetingFields, Couples DEF Named
<1> HIDE DEF nick
<1>7. meeting' \in Meeting
  BY <1>3, <1>5, <1>6, MeetingFields DEF Meeting
<1>8. QED BY <1>2, <1>3, <1>5, <1>6, <1>7 DEF Named, Followed

LEMMA MoveKeeps ==
  ASSUME MeetingInv, NEW q \in Api!Moves, Api!Move(q)
  PROVE  meeting # None /\ meeting' \in Meeting /\ Named(meeting') /\ Followed(meeting')
<1>1. q.op = "updateLocation" /\ q.body \in Spots \cup {None} /\ q.locked \in BOOLEAN
  BY DEF Api!Moves
<1>2. q.body \in Spots /\ meeting # None
  BY <1>1, Endpoints, MoveAccepted DEF Api!Move, Api!Accepted, Api!Answer
<1>3. meeting \in Meeting /\ Named(meeting)
  BY <1>2 DEF MeetingInv
<1> DEFINE j == Api!RangeOf(meeting.plan)
           b == q.body
<1>4. j \subseteq Api!CategorySlugs
  BY <1>3, MeetingFields, CourseCategories
<1>5. meeting' = [plan |-> meeting.plan, version |-> meeting.version, jobs |-> j,
                  edited |-> FALSE, spot |-> b,
                  recommended |-> meeting.recommended, nickname |-> meeting.nickname]
  <2>1. meeting' = [meeting EXCEPT !.spot = b, !.jobs = j, !.edited = FALSE]
    BY DEF Api!Move, Api!Moved
  <2> HIDE DEF j, b
  <2> DEFINE m1 == [meeting EXCEPT !.spot = b]
             m2 == [m1 EXCEPT !.jobs = j]
  <2>2. m1 = [plan |-> meeting.plan, version |-> meeting.version, jobs |-> meeting.jobs,
              edited |-> meeting.edited, spot |-> b,
              recommended |-> meeting.recommended, nickname |-> meeting.nickname]
    BY <1>3, MeetingFields
  <2>3. meeting' = [m2 EXCEPT !.edited = FALSE]
    BY <2>1
  <2> HIDE DEF m1
  <2>4. m2 = [plan |-> meeting.plan, version |-> meeting.version, jobs |-> j,
              edited |-> meeting.edited, spot |-> b,
              recommended |-> meeting.recommended, nickname |-> meeting.nickname]
    BY <2>2
  <2> HIDE DEF m2
  <2>5. QED BY <2>3, <2>4
<1>6. b \in Spots
  BY <1>2
<1> HIDE DEF b
<1>7. meeting' \in Meeting
  BY <1>3, <1>4, <1>5, <1>6, MeetingFields DEF Meeting
<1>8. QED BY <1>2, <1>3, <1>5, <1>7 DEF Named, Followed

LEMMA PlanKeeps ==
  ASSUME MeetingInv, NEW q \in Api!Plans, Api!Plan(q)
  PROVE  meeting # None /\ meeting' \in Meeting /\ Named(meeting') /\ Followed(meeting')
<1>1. /\ q.op = "updateCoursePlan"
      /\ q.body = None \/ q.body \in [slugs : Courses, version : 1..MaxVersion]
  BY DEF Api!Plans, Api!To
<1>2. q.body # None /\ meeting # None /\ q.body.version = meeting.version
  BY <1>1, Endpoints, PlanAccepted DEF Api!Plan, Api!Accepted, Api!Answer
<1>3. meeting \in Meeting /\ Named(meeting)
  BY <1>2 DEF MeetingInv
<1> DEFINE s == q.body.slugs
           v == meeting.version + 1
<1>4. s \in Courses /\ v \in 1..(MaxVersion + 1)
  BY <1>1, <1>2, RequestAssumption
<1>5. meeting' = [plan |-> s, version |-> v, jobs |-> meeting.jobs,
                  edited |-> TRUE, spot |-> meeting.spot,
                  recommended |-> meeting.recommended, nickname |-> meeting.nickname]
  <2>1. meeting' = [meeting EXCEPT !.plan = s, !.version = v, !.edited = TRUE]
    BY DEF Api!Plan
  <2> HIDE DEF s, v
  <2> DEFINE m1 == [meeting EXCEPT !.plan = s]
             m2 == [m1 EXCEPT !.version = v]
  <2>2. m1 = [plan |-> s, version |-> meeting.version, jobs |-> meeting.jobs,
              edited |-> meeting.edited, spot |-> meeting.spot,
              recommended |-> meeting.recommended, nickname |-> meeting.nickname]
    BY <1>3, MeetingFields
  <2>3. meeting' = [m2 EXCEPT !.edited = TRUE]
    BY <2>1
  <2> HIDE DEF m1
  <2>4. m2 = [plan |-> s, version |-> v, jobs |-> meeting.jobs,
              edited |-> meeting.edited, spot |-> meeting.spot,
              recommended |-> meeting.recommended, nickname |-> meeting.nickname]
    BY <2>2
  <2> HIDE DEF m2
  <2>5. QED BY <2>3, <2>4
<1> HIDE DEF s, v
<1>6. meeting' \in Meeting
  BY <1>3, <1>4, <1>5, MeetingFields DEF Meeting
<1>7. QED BY <1>2, <1>3, <1>5, <1>6 DEF Named, Followed

LEMMA RecommendKeeps ==
  ASSUME MeetingInv, NEW q \in Api!Additions, Api!Recommend(q)
  PROVE  meeting # None /\ meeting' \in Meeting /\ Named(meeting') /\ Followed(meeting')
<1>1. q.op = "addRecommendation"
  BY DEF Api!Additions, Api!To
<1>2. q.body \in Places /\ meeting # None
  BY <1>1, Endpoints, RecommendationAccepted DEF Api!Recommend, Api!Accepted, Api!Answer
<1>3. meeting \in Meeting /\ Named(meeting) /\ Followed(meeting)
  BY <1>2 DEF MeetingInv
<1> DEFINE r == meeting.recommended \cup {q.body}
<1>4. r \subseteq Places
  BY <1>2, <1>3, MeetingFields
<1>5. meeting' = [plan |-> meeting.plan, version |-> meeting.version, jobs |-> meeting.jobs,
                  edited |-> meeting.edited, spot |-> meeting.spot,
                  recommended |-> r, nickname |-> meeting.nickname]
  <2>1. meeting' = [meeting EXCEPT !.recommended = r]
    BY DEF Api!Recommend
  <2> HIDE DEF r
  <2>2. QED BY <1>3, <2>1, MeetingFields
<1> HIDE DEF r
<1>6. meeting' \in Meeting
  BY <1>3, <1>4, <1>5, MeetingFields DEF Meeting
<1>7. QED BY <1>2, <1>3, <1>5, <1>6 DEF Named, Followed

LEMMA MeetingInvStep == MeetingInv /\ [ReleaseNext]_releaseVars => MeetingInv'
<1> SUFFICES ASSUME MeetingInv, [ReleaseNext]_releaseVars PROVE MeetingInv'
  OBVIOUS
<1>1. ASSUME Migrate \/ Serve \/ UNCHANGED releaseVars PROVE MeetingInv'
  BY <1>1 DEF Migrate, Serve, releaseVars, MeetingInv, Named, Followed
<1>2. ASSUME Request PROVE MeetingInv'
  <2>1. served /\ served' = served /\ Api!Handle
    BY <1>2 DEF Request
  <2>2. meeting' \in Meeting /\ Named(meeting') /\ Followed(meeting')
    BY <2>1, CreateKeeps, JoinKeeps, MoveKeeps, PlanKeeps, RecommendKeeps DEF Api!Handle
  <2>3. QED BY <2>1, <2>2 DEF MeetingInv, Named, Followed
<1>3. QED BY <1>1, <1>2 DEF ReleaseNext

LEMMA MeetingInvAlways == ReleaseSpec => []MeetingInv
<1>1. ReleaseInit => MeetingInv
  BY DEF ReleaseInit, MeetingInv
<1>2. QED BY <1>1, MeetingInvStep, PTL DEF ReleaseSpec

THEOREM ReleaseTypes == ReleaseSpec => []TypeOK
<1>1. TablesTyped /\ MeetingInv => TypeOK
  BY DEF MeetingInv, TypeOK
<1>2. QED BY <1>1, TablesTypedAlways, MeetingInvAlways, PTL

\* The categories that are collected are those of the plan unless the plan was
\* saved after the location was last set.
THEOREM JobsAreThePlan == ReleaseSpec => []JobsFollowPlan
<1>1. MeetingInv => JobsFollowPlan
  BY DEF MeetingInv, Followed, JobsFollowPlan, Api!JobsFollow
<1>2. QED BY <1>1, MeetingInvAlways, PTL

-----------------------------------------------------------------------------
(***************************************************************************)
(* The enumerations of the schemas and the seeds of the migrations.        *)
(***************************************************************************)

Serving == served => RangeOf(db.applied) = Versions

LEMMA ServingAlways == ReleaseSpec => []Serving
<1>1. ReleaseInit => Serving
  BY DEF ReleaseInit, Serving
<1>2. Serving /\ [ReleaseNext]_releaseVars => Serving'
  <2> SUFFICES ASSUME Serving, [ReleaseNext]_releaseVars PROVE Serving'
    OBVIOUS
  <2>1. CASE Migrate
    BY <2>1 DEF Migrate, Serving
  <2>2. CASE Serve
    BY <2>2 DEF Serve, Serving
  <2>3. CASE Request \/ UNCHANGED releaseVars
    BY <2>3 DEF Request, releaseVars, vars, Serving
  <2>4. QED BY <2>1, <2>2, <2>3 DEF ReleaseNext
<1>3. QED BY <1>1, <1>2, PTL DEF ReleaseSpec

LEMMA SlugsAdmitted ==
  ASSUME NEW d, SeededRows(d.categories), NEW s \in Api!CategorySlugs
  PROVE  s \in DOMAIN d.categories
<1>1. s \in {SeedSlugs[k] : k \in 1..8}
  <2>1. /\ SeedSlugs[1] = "cafe" /\ SeedSlugs[2] = "restaurant" /\ SeedSlugs[3] = "walk"
        /\ SeedSlugs[4] = "bar" /\ SeedSlugs[5] = "shopping" /\ SeedSlugs[6] = "activity"
        /\ SeedSlugs[7] = "culture" /\ SeedSlugs[8] = "other"
    BY DEF SeedSlugs
  <2>2. s \in {"restaurant", "cafe", "bar", "walk", "shopping", "activity", "culture", "other"}
    BY DEF Api!CategorySlugs
  <2>3. QED BY <2>1, <2>2
<1>2. QED BY <1>1 DEF SeededRows

LEMMA TypesAdmitted ==
  ASSUME NEW d, d.types = SeededTypes, NEW c \in Api!MeetingTypeCodes
  PROVE  c \in {d.types[o].code : o \in DOMAIN d.types}
<1>1. PICK k \in 1..9 : c = SeedTypes[k]
  <2>1. /\ SeedTypes[1] = "SOCIAL" /\ SeedTypes[2] = "DATING_HOBBY"
        /\ SeedTypes[3] = "COMPANY_DINNER" /\ SeedTypes[4] = "FAMILY" /\ SeedTypes[5] = "TRAVEL"
        /\ SeedTypes[6] = "STUDY" /\ SeedTypes[7] = "BUSINESS"
        /\ SeedTypes[8] = "ANNIVERSARY_EXERCISE" /\ SeedTypes[9] = "OTHER"
    BY DEF SeedTypes
  <2>2. c \in {"SOCIAL", "DATING_HOBBY", "COMPANY_DINNER", "FAMILY", "TRAVEL", "STUDY",
               "BUSINESS", "ANNIVERSARY_EXERCISE", "OTHER"}
    BY DEF Api!MeetingTypeCodes
  <2>3. QED BY <2>1, <2>2
<1>2. DOMAIN SeedTypes = 1..9
  BY DEF SeedTypes
<1>3. k \in DOMAIN d.types /\ d.types[k].code = SeedTypes[k]
  BY <1>1, <1>2 DEF SeededTypes
<1>4. QED BY <1>1, <1>3

\* A request with one category, as the schemas admit it.
LEMMA OneCategory ==
  ASSUME NEW s \in Api!CategorySlugs
  PROVE  <<s>> \in Seq(Api!CategorySlugs) /\ Api!RangeOf(<<s>>) = {s}
BY DEF Api!RangeOf

LEMMA HostTakesPart ==
  ASSUME MeetingInv, meeting # None PROVE "host" \in Api!Joined
<1>1. meeting.nickname["host"] # None
  BY DEF MeetingInv, Named
<1>2. QED BY <1>1, Couples DEF Api!Joined

LEMMA SeededRequests ==
  ASSUME MeetingInv, served, SeededRows(db.categories), db.types = SeededTypes
  PROVE  Api!SeedsCover
<1>1. ASSUME NEW s \in Api!CategorySlugs, NEW c \in Api!MeetingTypeCodes
      PROVE  Api!Answer([op |-> "createMeeting", drawn |-> TRUE,
                         body |-> [type |-> c, slugs |-> <<s>>]]).code = "OK"
  <2>0. s \in DOMAIN db.categories /\ c \in {db.types[o].code : o \in DOMAIN db.types}
    BY SlugsAdmitted, TypesAdmitted
  <2> DEFINE b == [type |-> c, slugs |-> <<s>>]
             q == [op |-> "createMeeting", drawn |-> TRUE, body |-> b]
  <2>1. b \in [type : Api!MeetingTypeCodes, slugs : Seq(Api!CategorySlugs)]
    BY OneCategory
  <2>2. b # None /\ b.type = c /\ b.slugs = <<s>>
    BY <2>1, RequestAssumption
  <2> HIDE DEF b
  <2>3. q.op = "createMeeting" /\ q.drawn = TRUE /\ q.body = b
    OBVIOUS
  <2> HIDE DEF q
  <2>4. /\ q.body.type \in {db.types[o].code : o \in DOMAIN db.types}
        /\ Api!RangeOf(q.body.slugs) \subseteq DOMAIN db.categories
    <3>1. Api!RangeOf(q.body.slugs) = {s}
      BY <2>2, <2>3, OneCategory
    <3>2. q.body.type = c
      BY <2>2, <2>3
    <3>3. QED BY <2>0, <3>1, <3>2
  <2>5. Api!CreateMeeting(q).answer.code = "OK"
    <3>0. q.drawn \in BOOLEAN
      BY <2>3
    <3>1. q.drawn /\ q.body # None
      BY <2>2, <2>3
    <3>2. Api!CreateMeeting(q).answer.code = "OK" <=>
            /\ q.body # None
            /\ q.body.type \in {db.types[o].code : o \in DOMAIN db.types}
            /\ Api!RangeOf(q.body.slugs) \subseteq DOMAIN db.categories
            /\ q.drawn
      BY <3>0, RestOfCreate
    <3>3. QED BY <2>4, <3>1, <3>2, Zenon
  <2>6. Api!Answer(q).code = "OK"
    BY <2>3, <2>5, Endpoints DEF Api!Answer
  <2>7. QED BY <2>6 DEF q, b
<1>2. ASSUME meeting # None, NEW s \in Api!CategorySlugs
      PROVE  Api!Answer([op |-> "updateCoursePlan", id |-> "meeting", token |-> "host",
                         body |-> [slugs |-> <<s>>, version |-> meeting.version]]).code = "OK"
  <2> DEFINE b == [slugs |-> <<s>>, version |-> meeting.version]
             q == [op |-> "updateCoursePlan", id |-> "meeting", token |-> "host", body |-> b]
  <2>1. meeting.version \in Nat
    BY <1>2, MeetingFields, RequestAssumption DEF MeetingInv
  <2>2. b \in [slugs : Seq(Api!CategorySlugs), version : Nat]
    BY <2>1, OneCategory
  <2>3. b # None /\ b.slugs = <<s>> /\ b.version = meeting.version
    BY <2>2, RequestAssumption
  <2> HIDE DEF b
  <2>4. q.op = "updateCoursePlan" /\ q.id = "meeting" /\ q.token = "host" /\ q.body = b
    OBVIOUS
  <2> HIDE DEF q
  <2>5. ~Api!DatabaseRejects(q.id) /\ Api!Participant(q)
    BY <1>2, <2>4, HostTakesPart DEF Api!DatabaseRejects, Api!Participant
  <2>6. Api!RangeOf(q.body.slugs) \subseteq DOMAIN db.categories
    BY <2>3, <2>4, SlugsAdmitted, OneCategory
  <2>7. Api!UpdateCoursePlan(q).answer.code = "OK"
    BY <1>2, <2>3, <2>4, <2>5, <2>6, PlanAccepted
  <2>8. Api!Answer(q).code = "OK"
    BY <2>4, <2>7, Endpoints DEF Api!Answer
  <2>9. QED BY <2>8 DEF q, b
<1>3. QED BY <1>1, <1>2 DEF Api!SeedsCover

\* No request that the schemas let through names a category or a meeting type
\* that the migrations have not left in the tables.
THEOREM SeedsCoverRequests == ASSUME ~RevertsRace PROVE ReleaseSpec => []SeedsCoverSchemas
<1>1. CatalogueInv /\ Serving /\ MeetingInv => SeedsCoverSchemas
  <2> SUFFICES ASSUME CatalogueInv, Serving, MeetingInv, served PROVE Api!SeedsCover
    BY DEF SeedsCoverSchemas
  <2>1. Columns(db) /\ Built(db) /\ Catalogue(db)
    BY HistoryParts DEF CatalogueInv, HistoryInv, TablesTyped
  <2>2. 3 \in RangeOf(db.applied)
    BY DEF Serving, Versions
  <2> DEFINE n == Len(db.applied)
  <2>3. n \in 0..4 /\ 3 \in 1..n
    BY <2>1, <2>2, BuiltRange
  <2> HIDE DEF n
  <2>4. n >= 3
    BY <2>3
  <2>5. SeededRows(db.categories) /\ db.types = SeededTypes
    BY <2>1, <2>4 DEF Catalogue, n
  <2>6. QED BY <2>5, SeededRequests
<1>2. QED BY <1>1, CatalogueInvAlways, ServingAlways, MeetingInvAlways, PTL

-----------------------------------------------------------------------------
(***************************************************************************)
(* Strangers.                                                              *)
(***************************************************************************)

LEMMA Queried ==
  ASSUME NEW q
  PROVE  /\ q.op = "previewInvitation" => Api!Endpoint(q) = Api!PreviewInvitation(q)
         /\ q.op = "getMeetingDetail" => Api!Endpoint(q) = Api!GetMeetingDetail(q)
         /\ q.op = "getRecommendations" => Api!Endpoint(q) = Api!GetRecommendations(q)
         /\ q.op = "getCoursePlan" => Api!Endpoint(q) = Api!GetCoursePlan(q)
         /\ q.op = "storeCourseImage" => Api!Endpoint(q) = Api!StoreCourseImage(q)
         /\ q.op = "downloadCourseImage" => Api!Endpoint(q) = Api!DownloadCourseImage(q)
         /\ q.op = "searchPlaces" => Api!Endpoint(q) = Api!SearchPlaces(q)
         /\ q.op = "searchFirstMeetingPlaces" => Api!Endpoint(q) = Api!SearchFirstMeetingPlaces(q)
         /\ q.op = "getMeetingTypes" => Api!Endpoint(q) = Api!GetMeetingTypes(q)
         /\ q.op = "getCategories" => Api!Endpoint(q) = Api!GetCategories(q)
         /\ q.op = "getProfileAvatars" => Api!Endpoint(q) = Api!GetProfileAvatars(q)
BY DEF Api!Endpoint

LEMMA Declared ==
  ASSUME NEW q
  PROVE  /\ q.op = "getMeetingStatus" => Api!Endpoint(q) = Api!GetMeetingStatus(q)
         /\ q.op = "getMapPins" => Api!Endpoint(q) = Api!GetMapPins(q)
         /\ q.op = "updatePlacePreference" => Api!Endpoint(q) = Api!UpdatePlacePreference(q)
         /\ q.op = "getSimilarPlaces" => Api!Endpoint(q) = Api!GetSimilarPlaces(q)
         /\ q.op = "getPlaceDetail" => Api!Endpoint(q) = Api!GetPlaceDetail(q)
         /\ q.op = "generateCourse" => Api!Endpoint(q) = Api!GenerateCourse(q)
         /\ q.op = "getCourseCandidates" => Api!Endpoint(q) = Api!GetCourseCandidates(q)
         /\ q.op = "getCourseDetail" => Api!Endpoint(q) = Api!GetCourseDetail(q)
         /\ q.op = "getCourseComments" => Api!Endpoint(q) = Api!GetCourseComments(q)
         /\ q.op = "createCourseComment" => Api!Endpoint(q) = Api!CreateCourseComment(q)
         /\ q.op = "getExcludedPlaces" => Api!Endpoint(q) = Api!GetExcludedPlaces(q)
         /\ q.op = "addCoursePlace" => Api!Endpoint(q) = Api!AddCoursePlace(q)
         /\ q.op = "updateCoursePlaces" => Api!Endpoint(q) = Api!UpdateCoursePlaces(q)
         /\ q.op = "confirmCourse" => Api!Endpoint(q) = Api!ConfirmCourse(q)
BY DEF Api!Endpoint

\* For a stranger, the meeting's id and an id of no meeting are the same.
Estranged(token) ==
  << <<token = "twice", Api!Unhandled>>, Api!Failure(token = "blank", "AUTHENTICATION_FAILED"),
     <<FALSE, Api!Unhandled>>, Api!Failure(TRUE, "AUTHENTICATION_FAILED") >>

Wellformed == <<FALSE, Api!Thrown("VALIDATION_ERROR")>>

LEMMA StrangerChecks ==
  ASSUME NEW q, q.id \in {"meeting", "unknown"}, q.token \notin Api!Joined
  PROVE  /\ Api!MalformedId(q) = Wellformed
         /\ Api!Authentication(q) = Estranged(q.token)
<1>1. Api!PipeRejects(q.id) = FALSE
  BY DEF Api!PipeRejects
<1>2. Api!DatabaseRejects(q.id) = FALSE
  BY DEF Api!DatabaseRejects
<1>3. (~Api!Participant(q)) = TRUE
  BY DEF Api!Participant
<1>4. Api!MalformedId(q) = Wellformed
  BY <1>1 DEF Api!MalformedId, Wellformed
<1>5. QED BY <1>2, <1>3, <1>4 DEF Api!Authentication, Estranged

\* Two requests that differ in the id alone, and what an endpoint makes of them.
Alike(q, r) ==
  /\ r.op = q.op /\ r.token = q.token /\ r.body = q.body
  /\ Api!MalformedId(r) = Api!MalformedId(q)
  /\ Api!Authentication(r) = Api!Authentication(q)

LEMMA SharedChecks ==
  ASSUME NEW q, NEW r, Alike(q, r)
  PROVE  Api!Invalid(r) = Api!Invalid(q) /\ Api!HostOnly(r) = Api!HostOnly(q)
BY DEF Alike, Api!Invalid, Api!HostOnly

LEMMA MeetingAlike ==
  ASSUME NEW q, NEW r, Alike(q, r)
  PROVE  /\ Api!GetMeetingDetail(r) = Api!GetMeetingDetail(q)
         /\ Api!GetRecommendations(r) = Api!GetRecommendations(q)
         /\ Api!GetCoursePlan(r) = Api!GetCoursePlan(q)
         /\ Api!UpdateCoursePlan(r) = Api!UpdateCoursePlan(q)
         /\ r.locked = q.locked => Api!UpdateLocation(r) = Api!UpdateLocation(q)
         /\ Api!AddRecommendation(r) = Api!AddRecommendation(q)
         /\ Api!StoreCourseImage(r) = Api!StoreCourseImage(q)
         /\ Api!DownloadCourseImage(r) = Api!DownloadCourseImage(q)
         /\ Api!SearchPlaces(r) = Api!SearchPlaces(q)
<1>1. Api!Invalid(r) = Api!Invalid(q) /\ Api!HostOnly(r) = Api!HostOnly(q)
  BY SharedChecks
<1>2. /\ Api!GetMeetingDetail(r) = Api!GetMeetingDetail(q)
      /\ Api!GetRecommendations(r) = Api!GetRecommendations(q)
      /\ Api!GetCoursePlan(r) = Api!GetCoursePlan(q)
  BY DEF Alike, Api!GetMeetingDetail, Api!GetRecommendations, Api!GetCoursePlan
<1>3. Api!UpdateCoursePlan(r) = Api!UpdateCoursePlan(q)
  BY <1>1 DEF Alike, Api!UpdateCoursePlan
<1>4. r.locked = q.locked => Api!UpdateLocation(r) = Api!UpdateLocation(q)
  BY <1>1 DEF Alike, Api!UpdateLocation, Api!LockRefused
<1>5. Api!AddRecommendation(r) = Api!AddRecommendation(q)
  BY <1>1 DEF Alike, Api!AddRecommendation, Api!HugeNumber
<1>6. Api!StoreCourseImage(r) = Api!StoreCourseImage(q)
  BY <1>1 DEF Alike, Api!StoreCourseImage
<1>7. Api!DownloadCourseImage(r) = Api!DownloadCourseImage(q)
  BY DEF Alike, Api!DownloadCourseImage
<1>8. Api!SearchPlaces(r) = Api!SearchPlaces(q)
  BY <1>1 DEF Alike, Api!SearchPlaces, Api!HugeNumber
<1>9. QED BY <1>2, <1>3, <1>4, <1>5, <1>6, <1>7, <1>8

LEMMA DeclaredAlike ==
  ASSUME NEW q, NEW r, Alike(q, r), q.op \in Api!Unimplemented
  PROVE  Api!Endpoint(r) = Api!Endpoint(q)
<1>1. ASSUME NEW success, NEW documented, NEW query
      PROVE  Api!NotImplemented(r, success, documented, query) =
               Api!NotImplemented(q, success, documented, query)
  BY DEF Alike, Api!NotImplemented, Api!AfterPipes
<1>2. r.op = q.op
  BY DEF Alike
<1>3. CASE q.op = "getMeetingStatus"
  BY <1>1, <1>2, <1>3, Declared DEF Api!GetMeetingStatus
<1>4. CASE q.op = "getMapPins"
  BY <1>1, <1>2, <1>4, Declared DEF Api!GetMapPins
<1>5. CASE q.op = "updatePlacePreference"
  BY <1>1, <1>2, <1>5, Declared DEF Api!UpdatePlacePreference
<1>6. CASE q.op = "getSimilarPlaces"
  <2>1. Api!GetSimilarPlaces(r) = Api!GetSimilarPlaces(q)
    BY DEF Alike, Api!GetSimilarPlaces, Api!AfterPipes
  <2>2. QED BY <1>2, <1>6, <2>1, Declared
<1>7. CASE q.op = "getPlaceDetail"
  BY <1>1, <1>2, <1>7, Declared DEF Api!GetPlaceDetail
<1>8. CASE q.op = "generateCourse"
  BY <1>1, <1>2, <1>8, Declared DEF Api!GenerateCourse
<1>9. CASE q.op = "getCourseCandidates"
  BY <1>1, <1>2, <1>9, Declared DEF Api!GetCourseCandidates
<1>10. CASE q.op = "getCourseDetail"
  BY <1>1, <1>2, <1>10, Declared DEF Api!GetCourseDetail
<1>11. CASE q.op = "getCourseComments"
  BY <1>1, <1>2, <1>11, Declared DEF Api!GetCourseComments
<1>12. CASE q.op = "createCourseComment"
  BY <1>1, <1>2, <1>12, Declared DEF Api!CreateCourseComment
<1>13. CASE q.op = "getExcludedPlaces"
  BY <1>1, <1>2, <1>13, Declared DEF Api!GetExcludedPlaces
<1>14. CASE q.op = "addCoursePlace"
  BY <1>1, <1>2, <1>14, Declared DEF Api!AddCoursePlace
<1>15. CASE q.op = "updateCoursePlaces"
  BY <1>1, <1>2, <1>15, Declared DEF Api!UpdateCoursePlaces
<1>16. CASE q.op = "confirmCourse"
  BY <1>1, <1>2, <1>16, Declared DEF Api!ConfirmCourse
<1>17. QED BY <1>3, <1>4, <1>5, <1>6, <1>7, <1>8, <1>9, <1>10, <1>11, <1>12, <1>13, <1>14, <1>15, <1>16 DEF Api!Unimplemented

LEMMA EndpointsAlike ==
  ASSUME NEW q, NEW r, Alike(q, r), q.op = "updateLocation" => r.locked = q.locked,
         q.op \in {"updateLocation", "updateCoursePlan", "addRecommendation", "storeCourseImage",
                   "searchPlaces"} \cup Api!Reading \cup Api!Unimplemented
  PROVE  Api!Endpoint(r) = Api!Endpoint(q)
<1>1. r.op = q.op
  BY DEF Alike
<1>2. CASE q.op \in {"updateLocation", "updateCoursePlan", "addRecommendation"}
  BY <1>1, <1>2, Endpoints, MeetingAlike
<1>3. CASE q.op \in {"storeCourseImage", "searchPlaces"} \cup Api!Reading
  BY <1>1, <1>3, Queried, MeetingAlike DEF Api!Reading
<1>4. CASE q.op \in Api!Unimplemented
  BY <1>4, DeclaredAlike
<1>5. QED BY <1>2, <1>3, <1>4

LEMMA SameToStrangers ==
  ASSUME NEW q, NEW r, q.id = "meeting", q.token \notin Api!Joined,
         r.op = q.op, r.token = q.token, r.body = q.body, r.id = "unknown",
         q.op = "updateLocation" => r.locked = q.locked,
         q.op \in {"updateLocation", "updateCoursePlan", "addRecommendation",
                   "storeCourseImage", "searchPlaces"} \cup Api!Reading \cup Api!Unimplemented
  PROVE  Api!Answer(q) = Api!Answer(r)
<1>1. Alike(q, r)
  <2>1. /\ Api!MalformedId(r) = Api!MalformedId(q)
        /\ Api!Authentication(r) = Api!Authentication(q)
    <3>1. /\ Api!MalformedId(q) = Wellformed
          /\ Api!Authentication(q) = Estranged(q.token)
      BY StrangerChecks
    <3>2. r.id \in {"meeting", "unknown"} /\ r.token \notin Api!Joined
      OBVIOUS
    <3>3. /\ Api!MalformedId(r) = Wellformed
          /\ Api!Authentication(r) = Estranged(r.token)
      BY <3>2, StrangerChecks
    <3>4. QED BY <3>1, <3>3
  <2>2. QED BY <2>1 DEF Alike
<1>2. Api!Endpoint(r) = Api!Endpoint(q)
  BY <1>1, EndpointsAlike
<1>3. QED BY <1>2 DEF Api!Answer

LEMMA NothingLearntFrom ==
  ASSUME NEW ops, NEW bodies, NEW q \in Api!To(ops, bodies), q.id = "meeting",
         q.token \notin Api!Joined,
         ops \subseteq {"updateCoursePlan", "addRecommendation", "storeCourseImage",
                        "searchPlaces"} \cup Api!Reading \cup Api!Unimplemented
  PROVE  Api!Answer(q) = Api!Answer([q EXCEPT !.id = "unknown"])
<1> DEFINE r == [q EXCEPT !.id = "unknown"]
<1>1. q.op \in ops /\ r.op = q.op /\ r.token = q.token /\ r.body = q.body /\ r.id = "unknown"
  BY DEF Api!To
<1>2. q.op # "updateLocation"
  BY <1>1 DEF Api!Reading, Api!Unimplemented
<1> HIDE DEF r
<1>3. Api!Answer(q) = Api!Answer(r)
  BY <1>1, <1>2, SameToStrangers
<1>4. QED BY <1>3 DEF r

LEMMA NothingLearntFromMoves ==
  ASSUME NEW q \in Api!Moves, q.id = "meeting", q.token \notin Api!Joined
  PROVE  Api!Answer(q) = Api!Answer([q EXCEPT !.id = "unknown"])
<1> DEFINE r == [q EXCEPT !.id = "unknown"]
<1>1. /\ q.op = "updateLocation" /\ r.op = q.op /\ r.token = q.token /\ r.body = q.body
      /\ r.id = "unknown" /\ r.locked = q.locked
  BY DEF Api!Moves
<1> HIDE DEF r
<1>2. Api!Answer(q) = Api!Answer(r)
  BY <1>1, SameToStrangers
<1>3. QED BY <1>2 DEF r

\* Without a token of the meeting every endpoint answers as for an id of no meeting.
THEOREM StrangersKnowNothing == ReleaseSpec => []StrangersLearnNothing
<1>1. Api!NothingLearnt
  <2>1. Api!AsForNoMeeting(Api!Moves)
    BY NothingLearntFromMoves DEF Api!AsForNoMeeting
  <2>2. Api!AsForNoMeeting(Api!Plans)
    BY NothingLearntFrom DEF Api!AsForNoMeeting, Api!Plans
  <2>3. Api!AsForNoMeeting(Api!Additions)
    BY NothingLearntFrom DEF Api!AsForNoMeeting, Api!Additions
  <2>4. Api!AsForNoMeeting(Api!Queries)
    <3> SUFFICES ASSUME NEW q \in Api!Queries, "id" \in DOMAIN q, q.id = "meeting",
                        q.token \notin Api!Joined
                 PROVE  Api!Answer(q) = Api!Answer([q EXCEPT !.id = "unknown"])
      BY DEF Api!AsForNoMeeting
    <3>1. \/ q \in Api!To(Api!Reading, {})
          \/ q \in Api!To(Api!Unimplemented, {"valid"})
          \/ q \in Api!To({"getSimilarPlaces"}, {"twice"})
          \/ q \in Api!To({"searchPlaces"}, {"valid", "huge"})
          \/ q \in Api!To({"storeCourseImage"}, {"image", "oversized"})
      <4>1. ASSUME NEW A, NEW B, q \in [op : A, body : B] PROVE FALSE
        BY <4>1
      <4>2. ASSUME NEW A, q \in [op : A] PROVE FALSE
        BY <4>2
      <4>3. QED BY <4>1, <4>2 DEF Api!Queries
    <3>2. "getSimilarPlaces" \in Api!Unimplemented
      BY DEF Api!Unimplemented
    <3>3. QED BY <3>1, <3>2, NothingLearntFrom
  <2>5. QED BY <2>1, <2>2, <2>3, <2>4 DEF Api!NothingLearnt
<1>2. StrangersLearnNothing
  BY <1>1 DEF StrangersLearnNothing
<1>3. QED BY <1>2, PTL

-----------------------------------------------------------------------------
(***************************************************************************)
(* Documented statuses.                                                    *)
(***************************************************************************)

\* A check whose failure the controller documents, or a known gap.
Legal(q, statuses) ==
  {a \in Check : a[1] => \/ Api!Resolve(a[2]).status \in statuses
                         \/ Api!KnownGap(q, Api!Resolve(a[2]).status)}

Told(q, e) == e.answer.status \in e.documented \/ Api!KnownGap(q, e.answer.status)

LEMMA LegalOutcome ==
  ASSUME NEW q, NEW success, NEW documented, NEW S, S = documented \cup {success},
         NEW checks \in Seq(Legal(q, S))
  PROVE  Told(q, Api!Outcome(success, documented, checks))
<1> DEFINE e == Api!Outcome(success, documented, checks)
<1>1. checks \in Seq(Check) /\ \A i \in DOMAIN checks : checks[i] \in Legal(q, S)
  BY DEF Legal
<1>2. e.documented = S
  BY DEF Api!Outcome
<1>3. CASE ~Fails(checks)
  <2>1. e.answer = [status |-> success, code |-> "OK"]
    BY <1>1, <1>3, OutcomeAnswer
  <2>2. e.answer.status = success
    BY <2>1
  <2>3. QED BY <1>2, <2>2 DEF Told
<1>4. CASE Fails(checks)
  <2>1. PICK i \in DOMAIN checks : checks[i][1] /\ e.answer = Api!Resolve(checks[i][2])
    BY <1>1, <1>4, OutcomeAnswer
  <2> HIDE DEF e
  <2>2. \/ Api!Resolve(checks[i][2]).status \in S
        \/ Api!KnownGap(q, Api!Resolve(checks[i][2]).status)
    BY <1>1, <2>1 DEF Legal
  <2>3. QED BY <1>2, <2>1, <2>2 DEF Told, e
<1>5. QED BY <1>3, <1>4

LEMMA ResolvedStatus ==
  /\ \A c : Api!Resolve(Api!Thrown(c)).status = Api!StatusOf(c)
  /\ \A s : Api!Resolve(Api!Http(s)).status = s
  /\ Api!Resolve(Api!Unhandled).status = 500
<1>1. ASSUME NEW c PROVE Api!Resolve(Api!Thrown(c)).status = Api!StatusOf(c)
  <2>1. Api!Thrown(c).kind = "BaseException" /\ Api!Thrown(c).code = c
    BY DEF Api!Thrown
  <2>2. QED BY <2>1 DEF Api!Resolve
<1>2. ASSUME NEW s PROVE Api!Resolve(Api!Http(s)).status = s
  <2>1. Api!Http(s).kind = "HttpException" /\ Api!Http(s).status = s
    BY DEF Api!Http
  <2>2. QED BY <2>1 DEF Api!Resolve
<1>3. Api!Resolve(Api!Unhandled).status = 500
  <2>1. Api!Unhandled.kind = "Error"
    BY DEF Api!Unhandled
  <2>2. QED BY <2>1 DEF Api!Resolve
<1>4. QED BY <1>1, <1>2, <1>3

LEMMA Statuses ==
  /\ Api!StatusOf("VALIDATION_ERROR") = 400 /\ Api!StatusOf("AUTHENTICATION_FAILED") = 401
  /\ Api!StatusOf("NOT_IMPLEMENTED") = 501 /\ Api!StatusOf("EXTERNAL_SERVICE_ERROR") = 502
  /\ Api!StatusOf("SERVICE_UNAVAILABLE") = 503
  /\ Api!StatusOf("MEETING_INVITATION_CODE_ISSUANCE_FAILED") = 503
  /\ Api!StatusOf("MEETING_TYPE_NOT_FOUND") = 404
  /\ Api!StatusOf("MEETING_INVALID_COURSE_CATEGORY") = 400
  /\ Api!StatusOf("MEETING_INVITATION_NOT_FOUND") = 404
  /\ Api!StatusOf("MEETING_NICKNAME_ALREADY_IN_USE") = 409
  /\ Api!StatusOf("MEETING_HOST_ONLY") = 403 /\ Api!StatusOf("MEETING_STALE_COURSE_PLAN") = 409
  /\ Api!StatusOf("MEETING_PLACE_NOT_FOUND") = 404
  /\ Api!StatusOf("MEETING_PLACE_CATEGORY_MISMATCH") = 400
  /\ Api!StatusOf("MEETING_PLACE_OUTSIDE_RANGE") = 400
  /\ Api!StatusOf("MEETING_RECOMMENDATION_ALREADY_EXISTS") = 409
  /\ Api!StatusOf("MEETING_COURSE_IMAGE_STATE_INVALID") = 409
  /\ Api!StatusOf("MEETING_COURSE_IMAGE_NOT_FOUND") = 404
BY DEF Api!StatusOf, Api!CommonErrorCode, Api!MeetingErrorCode

\* A check is legal when its status is documented, a known gap, or never reached.
LEMMA LegalCheck ==
  ASSUME NEW q, NEW statuses, NEW condition \in BOOLEAN, NEW x \in Exceptions, NEW s,
         Api!Resolve(x).status = s,
         condition => s \in statuses \/ Api!KnownGap(q, s)
  PROVE  <<condition, x>> \in Legal(q, statuses)
<1> DEFINE a == <<condition, x>>
<1>1. a \in Check /\ (a[1] <=> condition) /\ a[2] = x
  BY Checks
<1> HIDE DEF a
<1>2. a \in Legal(q, statuses)
  BY <1>1 DEF Legal
<1>3. QED BY <1>2 DEF a

LEMMA LegalFailure ==
  ASSUME NEW q, NEW statuses, NEW condition \in BOOLEAN,
         NEW c \in DOMAIN Api!CommonErrorCode \cup DOMAIN Api!MeetingErrorCode, NEW s,
         Api!StatusOf(c) = s,
         condition => s \in statuses \/ Api!KnownGap(q, s)
  PROVE  Api!Failure(condition, c) \in Legal(q, statuses)
<1>1. Api!Thrown(c) \in Exceptions
  BY DEF Exceptions
<1>2. Api!Resolve(Api!Thrown(c)).status = s
  BY ResolvedStatus
<1>3. <<condition, Api!Thrown(c)>> \in Legal(q, statuses)
  BY <1>1, <1>2, LegalCheck
<1>4. QED BY <1>3 DEF Api!Failure

LEMMA DocumentedFailure ==
  ASSUME NEW q, NEW statuses, NEW condition \in BOOLEAN,
         NEW c \in DOMAIN Api!CommonErrorCode \cup DOMAIN Api!MeetingErrorCode,
         Api!StatusOf(c) \in statuses
  PROVE  Api!Failure(condition, c) \in Legal(q, statuses)
<1> DEFINE s == Api!StatusOf(c)
<1>1. condition => s \in statuses \/ Api!KnownGap(q, s)
  OBVIOUS
<1>2. s = Api!StatusOf(c)
  OBVIOUS
<1> HIDE DEF s
<1>3. QED BY <1>1, <1>2, LegalFailure

\* A failure whose status is documented.
LEMMA Failing ==
  ASSUME NEW q, NEW statuses, NEW condition \in BOOLEAN
  PROVE  /\ 400 \in statuses =>
              \A c \in {"VALIDATION_ERROR", "MEETING_INVALID_COURSE_CATEGORY",
                        "MEETING_PLACE_CATEGORY_MISMATCH",
                        "MEETING_PLACE_OUTSIDE_RANGE"} :
                Api!Failure(condition, c) \in Legal(q, statuses)
         /\ 401 \in statuses => Api!Failure(condition, "AUTHENTICATION_FAILED") \in Legal(q, statuses)
         /\ 403 \in statuses => Api!Failure(condition, "MEETING_HOST_ONLY") \in Legal(q, statuses)
         /\ 404 \in statuses =>
              \A c \in {"MEETING_TYPE_NOT_FOUND", "MEETING_INVITATION_NOT_FOUND",
                        "MEETING_PLACE_NOT_FOUND", "MEETING_COURSE_IMAGE_NOT_FOUND"} :
                Api!Failure(condition, c) \in Legal(q, statuses)
         /\ 409 \in statuses =>
              \A c \in {"MEETING_NICKNAME_ALREADY_IN_USE",
                        "MEETING_STALE_COURSE_PLAN",
                        "MEETING_RECOMMENDATION_ALREADY_EXISTS",
                        "MEETING_COURSE_IMAGE_STATE_INVALID"} :
                Api!Failure(condition, c) \in Legal(q, statuses)
         /\ 501 \in statuses => Api!Failure(condition, "NOT_IMPLEMENTED") \in Legal(q, statuses)
         /\ 502 \in statuses => Api!Failure(condition, "EXTERNAL_SERVICE_ERROR") \in Legal(q, statuses)
         /\ 503 \in statuses =>
              \A c \in {"SERVICE_UNAVAILABLE",
                        "MEETING_INVITATION_CODE_ISSUANCE_FAILED"} :
                Api!Failure(condition, c) \in Legal(q, statuses)
<1>1. 400 \in statuses =>
        \A c \in {"VALIDATION_ERROR", "MEETING_INVALID_COURSE_CATEGORY",
                  "MEETING_PLACE_CATEGORY_MISMATCH", "MEETING_PLACE_OUTSIDE_RANGE"} :
          Api!Failure(condition, c) \in Legal(q, statuses)
  BY DocumentedFailure, ThrownCodes, Statuses
<1>2. 401 \in statuses => Api!Failure(condition, "AUTHENTICATION_FAILED") \in Legal(q, statuses)
  BY DocumentedFailure, ThrownCodes, Statuses
<1>3. 403 \in statuses => Api!Failure(condition, "MEETING_HOST_ONLY") \in Legal(q, statuses)
  BY DocumentedFailure, ThrownCodes, Statuses
<1>4. 404 \in statuses =>
        \A c \in {"MEETING_TYPE_NOT_FOUND", "MEETING_INVITATION_NOT_FOUND",
                  "MEETING_PLACE_NOT_FOUND", "MEETING_COURSE_IMAGE_NOT_FOUND"} :
          Api!Failure(condition, c) \in Legal(q, statuses)
  BY DocumentedFailure, ThrownCodes, Statuses
<1>5. 409 \in statuses =>
        \A c \in {"MEETING_NICKNAME_ALREADY_IN_USE", "MEETING_STALE_COURSE_PLAN",
                  "MEETING_RECOMMENDATION_ALREADY_EXISTS",
                  "MEETING_COURSE_IMAGE_STATE_INVALID"} :
          Api!Failure(condition, c) \in Legal(q, statuses)
  BY DocumentedFailure, ThrownCodes, Statuses
<1>6. 501 \in statuses => Api!Failure(condition, "NOT_IMPLEMENTED") \in Legal(q, statuses)
  BY DocumentedFailure, ThrownCodes, Statuses
<1>7. 502 \in statuses => Api!Failure(condition, "EXTERNAL_SERVICE_ERROR") \in Legal(q, statuses)
  BY DocumentedFailure, ThrownCodes, Statuses
<1>8. 503 \in statuses =>
        \A c \in {"SERVICE_UNAVAILABLE", "MEETING_INVITATION_CODE_ISSUANCE_FAILED"} :
          Api!Failure(condition, c) \in Legal(q, statuses)
  BY DocumentedFailure, ThrownCodes, Statuses
<1>9. QED BY <1>1, <1>2, <1>3, <1>4, <1>5, <1>6, <1>7, <1>8

LEMMA LegalFirst ==
  ASSUME NEW q, NEW statuses
  PROVE  /\ 400 \in statuses => Api!Invalid(q) \in Legal(q, statuses)
         /\ 400 \in statuses \/ q.op = "downloadCourseImage" =>
              Api!MalformedId(q) \in Legal(q, statuses)
         /\ 403 \in statuses => Api!HostOnly(q) \in Legal(q, statuses)
<1>1. ASSUME 400 \in statuses PROVE Api!Invalid(q) \in Legal(q, statuses)
  <2>1. (q.body = None) \in BOOLEAN
    OBVIOUS
  <2>2. Api!Failure(q.body = None, "VALIDATION_ERROR") \in Legal(q, statuses)
    BY <1>1, <2>1, Failing
  <2>3. QED BY <2>2 DEF Api!Invalid, Api!Failure
<1>2. ASSUME 400 \in statuses \/ q.op = "downloadCourseImage"
      PROVE  Api!MalformedId(q) \in Legal(q, statuses)
  <2>1. Api!PipeRejects(q.id) \in BOOLEAN
    BY DEF Api!PipeRejects
  <2>2. Api!PipeRejects(q.id) => 400 \in statuses \/ Api!KnownGap(q, 400)
    BY <1>2 DEF Api!KnownGap
  <2>3. Api!Failure(Api!PipeRejects(q.id), "VALIDATION_ERROR") \in Legal(q, statuses)
    <3> DEFINE condition == Api!PipeRejects(q.id)
    <3>1. "VALIDATION_ERROR" \in DOMAIN Api!CommonErrorCode \cup DOMAIN Api!MeetingErrorCode
      BY ThrownCodes
    <3>2. Api!StatusOf("VALIDATION_ERROR") = 400
      BY Statuses
    <3> HIDE DEF condition
    <3>3. condition \in BOOLEAN /\ (condition => 400 \in statuses \/ Api!KnownGap(q, 400))
      BY <2>1, <2>2 DEF condition
    <3>4. Api!Failure(condition, "VALIDATION_ERROR") \in Legal(q, statuses)
      BY <3>1, <3>2, <3>3, LegalFailure
    <3>5. QED BY <3>4 DEF condition
  <2>4. QED BY <2>3 DEF Api!MalformedId, Api!Failure
<1>3. ASSUME 403 \in statuses PROVE Api!HostOnly(q) \in Legal(q, statuses)
  <2>1. (q.token # "host") \in BOOLEAN
    OBVIOUS
  <2>2. QED BY <1>3, <2>1, Failing DEF Api!HostOnly
<1>4. QED BY <1>1, <1>2, <1>3

LEMMA FourSeq ==
  ASSUME NEW S, NEW a \in S, NEW b \in S, NEW c \in S, NEW d \in S
  PROVE  <<a, b, c, d>> \in Seq(S)
OBVIOUS

LEMMA LegalAuthentication ==
  ASSUME NEW q, NEW statuses, 401 \in statuses, "id" \in DOMAIN q, "token" \in DOMAIN q
  PROVE  Api!Authentication(q) \in Seq(Legal(q, statuses))
<1> DEFINE a == <<q.token = "twice", Api!Unhandled>>
           b == Api!Failure(q.token = "blank", "AUTHENTICATION_FAILED")
           c == <<Api!DatabaseRejects(q.id), Api!Unhandled>>
           d == Api!Failure(~Api!Participant(q), "AUTHENTICATION_FAILED")
           L == Legal(q, statuses)
<1>1. Api!Unhandled \in Exceptions
  BY DEF Exceptions
<1>2. a \in L
  <2>1. (q.token = "twice") \in BOOLEAN
    OBVIOUS
  <2>2. q.token = "twice" => Api!KnownGap(q, 500)
    BY DEF Api!KnownGap
  <2> DEFINE twice == q.token = "twice"
  <2>3. twice \in BOOLEAN /\ (twice => 500 \in statuses \/ Api!KnownGap(q, 500))
    BY <2>1, <2>2
  <2>4. Api!Resolve(Api!Unhandled).status = 500
    BY ResolvedStatus
  <2> HIDE DEF twice
  <2>5. <<twice, Api!Unhandled>> \in L
    BY <1>1, <2>3, <2>4, LegalCheck
  <2>6. QED BY <2>5 DEF twice
<1>3. b \in L
  <2>1. (q.token = "blank") \in BOOLEAN
    OBVIOUS
  <2>2. QED BY <2>1, Failing
<1>4. c \in L
  <2>1. Api!DatabaseRejects(q.id) \in BOOLEAN
    BY DEF Api!DatabaseRejects
  <2>2. Api!DatabaseRejects(q.id) => Api!KnownGap(q, 500)
    BY DEF Api!KnownGap
  <2>3. QED BY <1>1, <2>1, <2>2, LegalCheck, ResolvedStatus
<1>5. d \in L
  <2>1. (~Api!Participant(q)) \in BOOLEAN
    OBVIOUS
  <2>2. QED BY <2>1, Failing
<1>6. Api!Authentication(q) = <<a, b, c, d>>
  BY DEF Api!Authentication
<1> HIDE DEF a, b, c, d, L
<1>7. <<a, b, c, d>> \in Seq(L)
  BY <1>2, <1>3, <1>4, <1>5, FourSeq
<1>8. QED BY <1>6, <1>7 DEF L

LEMMA LegalScreen ==
  ASSUME MeetingInv, NEW q, NEW statuses
  PROVE  Api!MeetingScreen \in Seq(Legal(q, statuses))
<1>1. (meeting # None /\ "host" \notin Api!Joined) = FALSE
  BY HostTakesPart
<1> DEFINE a == Api!Failure(meeting # None /\ "host" \notin Api!Joined, "INTERNAL_SERVER_ERROR")
<1>2. a \in Legal(q, statuses)
  <2> DEFINE condition == meeting # None /\ "host" \notin Api!Joined
             s == Api!StatusOf("INTERNAL_SERVER_ERROR")
  <2>1. condition \in BOOLEAN /\ ~condition
    BY <1>1
  <2> HIDE DEF condition
  <2>2. Api!Failure(condition, "INTERNAL_SERVER_ERROR") \in Legal(q, statuses)
    <3>1. "INTERNAL_SERVER_ERROR" \in DOMAIN Api!CommonErrorCode \cup DOMAIN Api!MeetingErrorCode
      BY ThrownCodes
    <3>2. s = Api!StatusOf("INTERNAL_SERVER_ERROR")
      OBVIOUS
    <3> HIDE DEF s
    <3>3. condition => s \in statuses \/ Api!KnownGap(q, s)
      BY <2>1
    <3>4. QED BY <2>1, <3>1, <3>2, <3>3, LegalFailure
  <2>3. QED BY <2>2 DEF condition
<1>3. Api!MeetingScreen = <<a>>
  BY DEF Api!MeetingScreen
<1> HIDE DEF a
<1>4. QED BY <1>2, <1>3

\* An exception that nothing handles, where a gap is known.
LEMMA LegalCrash ==
  ASSUME NEW q, NEW statuses, NEW condition \in BOOLEAN, condition => Api!KnownGap(q, 500)
  PROVE  <<condition, Api!Unhandled>> \in Legal(q, statuses)
<1>1. Api!Unhandled \in Exceptions
  BY DEF Exceptions
<1>2. Api!Resolve(Api!Unhandled).status = 500
  BY ResolvedStatus
<1>3. QED BY <1>1, <1>2, LegalCheck

\* Sequences of members of one set.
LEMMA InTurn ==
  ASSUME NEW S
  PROVE  /\ <<>> \in Seq(S)
         /\ \A a \in S : <<a>> \in Seq(S)
         /\ \A a, b \in S : <<a, b>> \in Seq(S)
         /\ \A a, b, c \in S : <<a, b, c>> \in Seq(S)
         /\ \A s, t \in Seq(S) : s \o t \in Seq(S)
OBVIOUS

LEMMA LegalCategories ==
  ASSUME NEW q, NEW statuses, 400 \in statuses, NEW s
  PROVE  Api!UnknownCategory(s) \in Legal(q, statuses)
<1> DEFINE known == Api!RangeOf(s) \subseteq DOMAIN db.categories
<1>1. (~known) \in BOOLEAN
  OBVIOUS
<1> HIDE DEF known
<1>2. Api!Failure(~known, "MEETING_INVALID_COURSE_CATEGORY") \in Legal(q, statuses)
  BY <1>1, Failing
<1>3. QED BY <1>2 DEF Api!UnknownCategory, known

LEMMA LegalInvitation ==
  ASSUME NEW q, NEW statuses, 400 \in statuses, 404 \in statuses, NEW code
  PROVE  Api!InvitationChecks(q, code) \in Seq(Legal(q, statuses))
<1> DEFINE condition == meeting = None \/ code # "issued"
           L == Legal(q, statuses)
           a == Api!Invalid(q)
           b == Api!Failure(condition, "MEETING_INVITATION_NOT_FOUND")
<1>1. condition \in BOOLEAN
  OBVIOUS
<1>2. a \in L
  BY LegalFirst
<1>3. b \in L
  <2> HIDE DEF condition
  <2>1. QED BY <1>1, Failing
<1>4. Api!InvitationChecks(q, code) = <<a, b>>
  BY DEF Api!InvitationChecks
<1> HIDE DEF a, b, L
<1>5. Api!InvitationChecks(q, code) \in Seq(L)
  BY <1>2, <1>3, <1>4, InTurn
<1>6. QED BY <1>5 DEF L

LEMMA CreateTold ==
  ASSUME NEW q, q.drawn \in BOOLEAN PROVE Told(q, Api!CreateMeeting(q))
<1> DEFINE D == {400, 404, 503}
           S == D \cup {201}
           L == Legal(q, S)
           untyped == q.body.type \notin {db.types[o].code : o \in DOMAIN db.types}
           lost == ~q.drawn
           i == Api!Invalid(q)
           a == Api!Failure(untyped, "MEETING_TYPE_NOT_FOUND")
           b == Api!UnknownCategory(q.body.slugs)
           c == Api!Failure(lost, "MEETING_INVITATION_CODE_ISSUANCE_FAILED")
           rest == IF q.body = None THEN <<>> ELSE <<a, b, c>>
<1>1. untyped \in BOOLEAN /\ lost \in BOOLEAN
  OBVIOUS
<1>2. 400 \in S /\ 404 \in S /\ 503 \in S /\ S = D \cup {201}
  OBVIOUS
<1>3. Api!CreateMeeting(q) = Api!Outcome(201, D, <<i>> \o rest)
  BY DEF Api!CreateMeeting
<1> HIDE DEF D, S, untyped, lost
<1>4. i \in L /\ a \in L /\ b \in L /\ c \in L
  BY <1>1, <1>2, LegalFirst, LegalCategories, Failing
<1> HIDE DEF a, b, c, i, L
<1> DEFINE checks == <<i>> \o rest
<1>5. checks \in Seq(L)
  BY <1>4, InTurn
<1> HIDE DEF checks
<1>6. Told(q, Api!Outcome(201, D, checks))
  BY <1>2, <1>5, LegalOutcome DEF L
<1>7. QED BY <1>3, <1>6 DEF checks

LEMMA PreviewTold ==
  ASSUME NEW q, q.op = "previewInvitation" PROVE Told(q, Api!PreviewInvitation(q))
<1> DEFINE D == {400, 404}
           S == D \cup {201}
           s == Api!InvitationChecks(q, q.body)
           e == Api!Outcome(201, D, s)
<1>1. s \in Seq(Legal(q, S)) /\ S = D \cup {201}
  BY LegalInvitation
<1>2. Told(q, e)
  <2> HIDE DEF D, S, s
  <2>1. QED BY <1>1, LegalOutcome
<1>3. e.documented = {201, 400, 404}
  BY DEF Api!Outcome
<1>4. Api!KnownGap(q, 201)
  BY DEF Api!KnownGap
<1>5. /\ Api!PreviewInvitation(q).documented = {200, 400, 404}
      /\ Api!PreviewInvitation(q).answer = e.answer
  BY DEF Api!PreviewInvitation, Api!Outcome
<1> HIDE DEF e
<1>6. QED BY <1>2, <1>3, <1>4, <1>5 DEF Told

LEMMA JoinTold ==
  ASSUME MeetingInv, NEW q PROVE Told(q, Api!JoinMeeting(q))
<1> DEFINE D == {400, 404, 409}
           S == D \cup {201}
           L == Legal(q, S)
           s == Api!InvitationChecks(q, IF q.body = None THEN None ELSE q.body.code)
           taken == \E u \in Api!Joined \ {q.body.user} : meeting.nickname[u] = q.body.nickname
           a == Api!Failure(taken, "MEETING_NICKNAME_ALREADY_IN_USE")
           t == IF q.body = None \/ meeting = None THEN <<>> ELSE <<a>> \o Api!MeetingScreen
<1>1. taken \in BOOLEAN
  OBVIOUS
<1>2. 400 \in S /\ 404 \in S /\ 409 \in S /\ S = D \cup {201}
  OBVIOUS
<1>3. Api!JoinMeeting(q) = Api!Outcome(201, D, s \o t)
  BY DEF Api!JoinMeeting
<1> HIDE DEF D, S, taken
<1>4. s \in Seq(L) /\ a \in L /\ Api!MeetingScreen \in Seq(L)
  BY <1>1, <1>2, LegalInvitation, LegalScreen, Failing
<1> HIDE DEF a, s, L
<1> DEFINE checks == s \o t
<1>5. checks \in Seq(L)
  BY <1>4, InTurn
<1> HIDE DEF checks
<1>6. Told(q, Api!Outcome(201, D, checks))
  BY <1>2, <1>5, LegalOutcome DEF L
<1>7. QED BY <1>3, <1>6 DEF checks

LEMMA Chained ==
  ASSUME NEW S, NEW s \in Seq(S), NEW t \in Seq(S), NEW u \in Seq(S)
  PROVE  /\ s \o t \o u \in Seq(S)
         /\ \A v \in Seq(S) : s \o t \o u \o v \in Seq(S)
<1> DEFINE st == s \o t
           stu == st \o u
<1>1. st \in Seq(S)
  BY InTurn
<1> HIDE DEF st
<1>2. stu \in Seq(S)
  BY <1>1, InTurn
<1> HIDE DEF stu
<1>3. \A v \in Seq(S) : stu \o v \in Seq(S)
  BY <1>2, InTurn
<1>4. QED BY <1>2, <1>3 DEF stu, st

\* Who answers with the checks of the participant alone.
LEMMA ReadingTold ==
  ASSUME MeetingInv, NEW q, "id" \in DOMAIN q, "token" \in DOMAIN q
  PROVE  /\ Told(q, Api!GetMeetingDetail(q))
         /\ Told(q, Api!GetRecommendations(q))
         /\ Told(q, Api!GetCoursePlan(q))
<1> DEFINE D == {401, 404}
           S == D \cup {200}
           L == Legal(q, S)
           E == {401}
           T == E \cup {200}
<1>1. 401 \in S /\ S = D \cup {200} /\ 401 \in T /\ T = E \cup {200}
  OBVIOUS
<1>2. /\ Api!GetMeetingDetail(q) = Api!Outcome(200, D, Api!Authentication(q) \o Api!MeetingScreen)
      /\ Api!GetRecommendations(q) = Api!Outcome(200, E, Api!Authentication(q))
      /\ Api!GetCoursePlan(q) = Api!Outcome(200, D, Api!Authentication(q))
  BY DEF Api!GetMeetingDetail, Api!GetRecommendations, Api!GetCoursePlan
<1> HIDE DEF D, S, E, T
<1>3. Api!Authentication(q) \in Seq(Legal(q, S)) /\ Api!Authentication(q) \in Seq(Legal(q, T))
  BY <1>1, LegalAuthentication
<1>4. Told(q, Api!Outcome(200, D, Api!Authentication(q)))
      /\ Told(q, Api!Outcome(200, E, Api!Authentication(q)))
  BY <1>1, <1>3, LegalOutcome
<1>5. Api!MeetingScreen \in Seq(L)
  BY LegalScreen
<1> HIDE DEF L
<1> DEFINE checks == Api!Authentication(q) \o Api!MeetingScreen
<1>6. checks \in Seq(L)
  BY <1>3, <1>5, InTurn DEF L
<1> HIDE DEF checks
<1>7. Told(q, Api!Outcome(200, D, checks))
  BY <1>1, <1>6, LegalOutcome DEF L
<1>8. QED BY <1>2, <1>4, <1>7 DEF checks

LEMMA PlanTold ==
  ASSUME NEW q, "id" \in DOMAIN q, "token" \in DOMAIN q
  PROVE  Told(q, Api!UpdateCoursePlan(q))
<1> DEFINE D == {400, 401, 403, 404, 409}
           S == D \cup {200}
           L == Legal(q, S)
           stale == q.body.version # meeting.version
           i == <<Api!Invalid(q)>>
           h == <<Api!HostOnly(q)>>
           a == Api!UnknownCategory(q.body.slugs)
           b == Api!Failure(stale, "MEETING_STALE_COURSE_PLAN")
           t == IF q.body = None \/ meeting = None THEN <<>> ELSE <<a, b>>
           checks == i \o Api!Authentication(q) \o h \o t
<1>1. stale \in BOOLEAN
  OBVIOUS
<1>2. 400 \in S /\ 401 \in S /\ 403 \in S /\ 409 \in S /\ S = D \cup {200}
  OBVIOUS
<1>3. Api!UpdateCoursePlan(q) = Api!Outcome(200, D, checks)
  BY DEF Api!UpdateCoursePlan
<1> HIDE DEF D, S, stale, checks
<1>4. /\ Api!Invalid(q) \in L /\ Api!HostOnly(q) \in L /\ a \in L /\ b \in L
      /\ Api!Authentication(q) \in Seq(L)
  BY <1>1, <1>2, LegalFirst, LegalCategories, LegalAuthentication, Failing
<1> HIDE DEF a, b, L
<1>5. i \in Seq(L) /\ h \in Seq(L) /\ t \in Seq(L)
  BY <1>4, InTurn
<1> HIDE DEF i, h, t
<1>6. checks \in Seq(L)
  BY <1>4, <1>5, Chained DEF checks
<1>7. Told(q, Api!Outcome(200, D, checks))
  BY <1>2, <1>6, LegalOutcome DEF L
<1>8. QED BY <1>3, <1>7

LEMMA MoveTold ==
  ASSUME NEW q, q.op = "updateLocation", "id" \in DOMAIN q, "token" \in DOMAIN q,
         q.locked \in BOOLEAN
  PROVE  Told(q, Api!UpdateLocation(q))
<1> DEFINE D == {400, 401, 403, 404}
           S == D \cup {200}
           L == Legal(q, S)
           repeated == meeting # None /\ Api!Repeats(meeting.plan)
           refused == ~q.locked
           i == <<Api!Invalid(q)>>
           h == <<Api!HostOnly(q), Api!LockRefused(q), Api!RepeatedJob>>
           checks == i \o Api!Authentication(q) \o h
<1>1. /\ repeated \in BOOLEAN /\ (repeated => Api!KnownGap(q, 500))
      /\ refused \in BOOLEAN /\ (refused => Api!KnownGap(q, 500))
  BY DEF Api!KnownGap
<1>2. 400 \in S /\ 401 \in S /\ 403 \in S /\ S = D \cup {200}
  OBVIOUS
<1>3. /\ Api!UpdateLocation(q) = Api!Outcome(200, D, checks)
      /\ Api!RepeatedJob = <<repeated, Api!Unhandled>>
      /\ Api!LockRefused(q) = <<refused, Api!Unhandled>>
  BY DEF Api!UpdateLocation, Api!RepeatedJob, Api!LockRefused
<1> HIDE DEF D, S, repeated, refused, checks
<1>4. /\ Api!Invalid(q) \in L /\ Api!HostOnly(q) \in L /\ Api!Authentication(q) \in Seq(L)
  BY <1>2, LegalFirst, LegalAuthentication
<1>5. Api!RepeatedJob \in L /\ Api!LockRefused(q) \in L
  BY <1>1, <1>3, LegalCrash
<1> HIDE DEF L
<1>6. i \in Seq(L) /\ h \in Seq(L)
  BY <1>4, <1>5, InTurn
<1> HIDE DEF i, h
<1>7. checks \in Seq(L)
  BY <1>4, <1>6, Chained DEF checks
<1>8. Told(q, Api!Outcome(200, D, checks))
  BY <1>2, <1>7, LegalOutcome DEF L
<1>9. QED BY <1>3, <1>8

LEMMA RecommendTold ==
  ASSUME NEW q, q.op = "addRecommendation", "id" \in DOMAIN q, "token" \in DOMAIN q
  PROVE  Told(q, Api!AddRecommendation(q))
<1> DEFINE D == {400, 401, 404, 409}
           S == D \cup {201}
           L == Legal(q, S)
           huge == q.body = "huge"
           absent == q.body \notin Places
           other == SlugOf[q.body] \notin Api!RangeOf(meeting.plan)
           far == q.body \notin Near[meeting.spot]
           again == q.body \in meeting.recommended
           g == <<huge, Api!Unhandled>>
           n == Api!Failure(absent, "MEETING_PLACE_NOT_FOUND")
           a == Api!Failure(other, "MEETING_PLACE_CATEGORY_MISMATCH")
           b == Api!Failure(far, "MEETING_PLACE_OUTSIDE_RANGE")
           c == Api!Failure(again, "MEETING_RECOMMENDATION_ALREADY_EXISTS")
           i == <<Api!Invalid(q)>>
           h == <<g, n>>
           t == IF q.body \notin Places \/ meeting = None THEN <<>> ELSE <<a, b, c>>
           checks == i \o Api!Authentication(q) \o h \o t
<1>1. /\ huge \in BOOLEAN /\ absent \in BOOLEAN /\ other \in BOOLEAN /\ far \in BOOLEAN
      /\ again \in BOOLEAN
  OBVIOUS
<1>2. 400 \in S /\ 401 \in S /\ 404 \in S /\ 409 \in S /\ S = D \cup {201}
  OBVIOUS
<1>3. Api!AddRecommendation(q) = Api!Outcome(201, D, checks)
  BY DEF Api!AddRecommendation, Api!HugeNumber
<1>4. huge => Api!KnownGap(q, 500)
  BY DEF Api!KnownGap
<1> HIDE DEF D, S, checks, huge, absent, other, far, again
<1>5. Api!Invalid(q) \in L /\ Api!Authentication(q) \in Seq(L)
  BY <1>2, LegalFirst, LegalAuthentication
<1>6. n \in L /\ a \in L /\ b \in L /\ c \in L
  BY <1>1, <1>2, Failing
<1>7. g \in L
  BY <1>1, <1>4, LegalCrash
<1> HIDE DEF L, g, n, a, b, c
<1>8. i \in Seq(L) /\ h \in Seq(L) /\ t \in Seq(L)
  BY <1>5, <1>6, <1>7, InTurn
<1> HIDE DEF i, h, t
<1>9. checks \in Seq(L)
  BY <1>5, <1>8, Chained DEF checks
<1>10. Told(q, Api!Outcome(201, D, checks))
  BY <1>2, <1>9, LegalOutcome DEF L
<1>11. QED BY <1>3, <1>10

LEMMA StoreTold ==
  ASSUME NEW q, q.op = "storeCourseImage", "id" \in DOMAIN q, "token" \in DOMAIN q
  PROVE  Told(q, Api!StoreCourseImage(q))
<1> DEFINE D == {400, 401, 403, 404, 409}
           S == D \cup {200}
           L == Legal(q, S)
           oversized == q.body = "oversized"
           missing == q.body = None
           always == TRUE
           a == <<oversized, Api!Http(413)>>
           b == <<missing, Api!Http(400)>>
           c == Api!Failure(always, "MEETING_COURSE_IMAGE_STATE_INVALID")
           i == <<a, b, Api!MalformedId(q)>>
           h == <<Api!HostOnly(q), c>>
           checks == i \o Api!Authentication(q) \o h
<1>1. oversized \in BOOLEAN /\ missing \in BOOLEAN /\ always \in BOOLEAN
  OBVIOUS
<1>2. 400 \in S /\ 401 \in S /\ 403 \in S /\ 409 \in S /\ S = D \cup {200}
  OBVIOUS
<1>3. Api!StoreCourseImage(q) = Api!Outcome(200, D, checks)
  BY DEF Api!StoreCourseImage
<1>4. Api!KnownGap(q, 413)
  BY DEF Api!KnownGap
<1> HIDE DEF D, S, checks, oversized, missing, always
<1>5. /\ Api!MalformedId(q) \in L /\ Api!HostOnly(q) \in L /\ Api!Authentication(q) \in Seq(L)
  BY <1>2, LegalFirst, LegalAuthentication
<1>6. c \in L
  BY <1>1, <1>2, Failing
<1>7. a \in L /\ b \in L
  <2>1. Api!Http(413) \in Exceptions /\ Api!Http(400) \in Exceptions
    BY DEF Exceptions
  <2>2. Api!Resolve(Api!Http(413)).status = 413 /\ Api!Resolve(Api!Http(400)).status = 400
    BY ResolvedStatus
  <2>3. a \in L
    BY <1>1, <1>4, <2>1, <2>2, LegalCheck
  <2>4. b \in L
    BY <1>1, <1>2, <2>1, <2>2, LegalCheck
  <2>5. QED BY <2>3, <2>4
<1> HIDE DEF L, a, b, c
<1>8. i \in Seq(L) /\ h \in Seq(L)
  BY <1>5, <1>6, <1>7, InTurn
<1> HIDE DEF i, h
<1>9. checks \in Seq(L)
  BY <1>5, <1>8, Chained DEF checks
<1>10. Told(q, Api!Outcome(200, D, checks))
  BY <1>2, <1>9, LegalOutcome DEF L
<1>11. QED BY <1>3, <1>10

LEMMA DownloadTold ==
  ASSUME NEW q, q.op = "downloadCourseImage", "id" \in DOMAIN q, "token" \in DOMAIN q
  PROVE  Told(q, Api!DownloadCourseImage(q))
<1> DEFINE D == {401, 404}
           S == D \cup {200}
           L == Legal(q, S)
           always == TRUE
           c == Api!Failure(always, "MEETING_COURSE_IMAGE_NOT_FOUND")
           i == <<Api!MalformedId(q)>>
           h == <<c>>
           checks == i \o Api!Authentication(q) \o h
<1>1. always \in BOOLEAN
  OBVIOUS
<1>2. 401 \in S /\ 404 \in S /\ S = D \cup {200}
  OBVIOUS
<1>3. Api!DownloadCourseImage(q) = Api!Outcome(200, D, checks)
  BY DEF Api!DownloadCourseImage
<1> HIDE DEF D, S, checks, always
<1>4. Api!MalformedId(q) \in L /\ Api!Authentication(q) \in Seq(L) /\ c \in L
  BY <1>1, <1>2, LegalFirst, LegalAuthentication, Failing
<1> HIDE DEF L, c
<1>5. i \in Seq(L) /\ h \in Seq(L)
  BY <1>4, InTurn
<1> HIDE DEF i, h
<1>6. checks \in Seq(L)
  BY <1>4, <1>5, Chained DEF checks
<1>7. Told(q, Api!Outcome(200, D, checks))
  BY <1>2, <1>6, LegalOutcome DEF L
<1>8. QED BY <1>3, <1>7

LEMMA SearchTold ==
  ASSUME NEW q, q.op = "searchPlaces", "id" \in DOMAIN q, "token" \in DOMAIN q
  PROVE  Told(q, Api!SearchPlaces(q))
<1> DEFINE D == {400, 401, 404}
           S == D \cup {200}
           L == Legal(q, S)
           untrimmed == q.token \in {"blank", "twice"}
           c == Api!Failure(untrimmed, "VALIDATION_ERROR")
           huge == q.body = "huge"
           g == <<huge, Api!Unhandled>>
           i == <<Api!Invalid(q), Api!MalformedId(q), c>>
           h == <<g>>
           checks == i \o Api!Authentication(q) \o h
<1>1. untrimmed \in BOOLEAN /\ huge \in BOOLEAN /\ (huge => Api!KnownGap(q, 500))
  BY DEF Api!KnownGap
<1>2. 400 \in S /\ 401 \in S /\ S = D \cup {200}
  OBVIOUS
<1>3. Api!SearchPlaces(q) = Api!Outcome(200, D, checks)
  BY DEF Api!SearchPlaces, Api!HugeNumber
<1> HIDE DEF D, S, checks, untrimmed, huge
<1>4. /\ Api!Invalid(q) \in L /\ Api!MalformedId(q) \in L /\ Api!Authentication(q) \in Seq(L)
      /\ c \in L
  BY <1>1, <1>2, LegalFirst, LegalAuthentication, Failing
<1>5. g \in L
  BY <1>1, LegalCrash
<1> HIDE DEF L, c, g
<1>6. i \in Seq(L) /\ h \in Seq(L)
  BY <1>4, <1>5, InTurn
<1> HIDE DEF i, h
<1>7. checks \in Seq(L)
  BY <1>4, <1>6, Chained DEF checks
<1>8. Told(q, Api!Outcome(200, D, checks))
  BY <1>2, <1>7, LegalOutcome DEF L
<1>9. QED BY <1>3, <1>8

LEMMA FirstMeetingTold ==
  ASSUME NEW q PROVE Told(q, Api!SearchFirstMeetingPlaces(q))
<1> DEFINE D == {400, 502, 503}
           S == D \cup {200}
           L == Legal(q, S)
           keyless == q.body = "no key"
           failed == q.body \in Api!KakaoFailures
           a == Api!Failure(keyless, "SERVICE_UNAVAILABLE")
           b == Api!Failure(failed, "EXTERNAL_SERVICE_ERROR")
           i == <<Api!Invalid(q)>>
           h == <<a, b>>
           checks == i \o h
<1>1. keyless \in BOOLEAN /\ failed \in BOOLEAN
  OBVIOUS
<1>2. 400 \in S /\ 502 \in S /\ 503 \in S /\ S = D \cup {200}
  OBVIOUS
<1>3. Api!SearchFirstMeetingPlaces(q) = Api!Outcome(200, D, checks)
  BY DEF Api!SearchFirstMeetingPlaces, Api!SearchAddress
<1> HIDE DEF D, S, checks, keyless, failed
<1>4. Api!Invalid(q) \in L /\ a \in L /\ b \in L
  BY <1>1, <1>2, LegalFirst, Failing
<1> HIDE DEF L, a, b
<1>5. i \in Seq(L) /\ h \in Seq(L)
  BY <1>4, InTurn
<1> HIDE DEF i, h
<1>6. checks \in Seq(L)
  BY <1>5, InTurn DEF checks
<1>7. Told(q, Api!Outcome(200, D, checks))
  BY <1>2, <1>6, LegalOutcome DEF L
<1>8. QED BY <1>3, <1>7

\* What the endpoints without an implementation throw is documented.
LEMMA PipesTold ==
  ASSUME NEW q, NEW statuses, 400 \in statuses, 501 \in statuses,
         NEW query \in {Api!Piped, Api!Enumerated}
  PROVE  Api!AfterPipes(q, query) \in Seq(Legal(q, statuses))
<1> DEFINE L == Legal(q, statuses)
           missing == q.body = None
           always == TRUE
           b == <<missing, query>>
           c == Api!Failure(always, "NOT_IMPLEMENTED")
<1>1. missing \in BOOLEAN /\ always \in BOOLEAN
  OBVIOUS
<1>2. Api!AfterPipes(q, query) = <<Api!MalformedId(q), b, c>>
  BY DEF Api!AfterPipes
<1> HIDE DEF missing, always
<1>3. Api!MalformedId(q) \in L /\ c \in L
  BY <1>1, LegalFirst, Failing
<1>4. b \in L
  <2>1. query \in Exceptions
    BY ThrownCodes DEF Exceptions, Api!Piped, Api!Enumerated
  <2>2. Api!Resolve(query).status = 400
    BY ResolvedStatus, Statuses DEF Api!Piped, Api!Enumerated
  <2>3. QED BY <1>1, <2>1, <2>2, LegalCheck
<1> HIDE DEF L, b, c
<1>5. <<Api!MalformedId(q), b, c>> \in Seq(L)
  BY <1>3, <1>4, InTurn
<1>6. QED BY <1>2, <1>5 DEF L

LEMMA DeclaredTold ==
  ASSUME NEW q, NEW success, NEW documented, NEW query \in {Api!Piped, Api!Enumerated}
  PROVE  Told(q, Api!NotImplemented(q, success, documented, query))
<1> DEFINE D == documented \cup {400, 401, 404, 501}
           S == D \cup {success}
           checks == Api!AfterPipes(q, query)
<1>1. 400 \in S /\ 501 \in S /\ S = D \cup {success}
  OBVIOUS
<1>2. Api!NotImplemented(q, success, documented, query) = Api!Outcome(success, D, checks)
  BY DEF Api!NotImplemented
<1> HIDE DEF D, S
<1>3. checks \in Seq(Legal(q, S))
  BY <1>1, PipesTold
<1> HIDE DEF checks
<1>4. Told(q, Api!Outcome(success, D, checks))
  BY <1>1, <1>3, LegalOutcome
<1>5. QED BY <1>2, <1>4

LEMMA SimilarTold ==
  ASSUME NEW q, q.op = "getSimilarPlaces"
  PROVE  Told(q, Api!GetSimilarPlaces(q))
<1> DEFINE D == {400, 401, 404, 409, 501}
           S == D \cup {200}
           L == Legal(q, S)
           twice == q.body = "twice"
           g == <<twice, Api!Unhandled>>
           h == <<g>>
           t == Api!AfterPipes(q, Api!Piped)
           checks == h \o t
<1>1. twice \in BOOLEAN /\ (twice => Api!KnownGap(q, 500))
  BY DEF Api!KnownGap
<1>2. 400 \in S /\ 501 \in S /\ S = D \cup {200}
  OBVIOUS
<1>3. Api!GetSimilarPlaces(q) = Api!Outcome(200, D, checks)
  BY DEF Api!GetSimilarPlaces
<1> HIDE DEF D, S, checks, twice
<1>4. t \in Seq(L)
  BY <1>2, PipesTold
<1>5. g \in L
  BY <1>1, LegalCrash
<1> HIDE DEF L, g, t
<1>6. h \in Seq(L)
  BY <1>5, InTurn
<1> HIDE DEF h
<1>7. checks \in Seq(L)
  BY <1>4, <1>6, InTurn DEF checks
<1>8. Told(q, Api!Outcome(200, D, checks))
  BY <1>2, <1>7, LegalOutcome DEF L
<1>9. QED BY <1>3, <1>8

LEMMA ListsTold ==
  ASSUME NEW q
  PROVE  /\ Told(q, Api!GetMeetingTypes(q)) /\ Told(q, Api!GetCategories(q))
         /\ Told(q, Api!GetProfileAvatars(q))
<1> DEFINE S == {} \cup {200}
           checks == <<>>
<1>1. S = {} \cup {200} /\ checks \in Seq(Legal(q, S))
  OBVIOUS
<1> HIDE DEF S, checks
<1>2. Told(q, Api!Outcome(200, {}, checks))
  BY <1>1, LegalOutcome
<1>3. QED BY <1>2 DEF checks, Api!GetMeetingTypes, Api!GetCategories, Api!GetProfileAvatars

LEMMA ToFields ==
  ASSUME NEW ops, NEW bodies, NEW q \in Api!To(ops, bodies)
  PROVE  "id" \in DOMAIN q /\ "token" \in DOMAIN q /\ q.op \in ops
BY DEF Api!To

LEMMA DeclaredEndpointTold ==
  ASSUME NEW q, q.op \in Api!Unimplemented
  PROVE  Told(q, Api!Endpoint(q))
<1>1. Api!Piped \in {Api!Piped, Api!Enumerated} /\ Api!Enumerated \in {Api!Piped, Api!Enumerated}
  OBVIOUS
<1>2. CASE q.op = "getMeetingStatus"
  BY <1>1, <1>2, Declared, DeclaredTold DEF Api!GetMeetingStatus
<1>3. CASE q.op = "getMapPins"
  BY <1>1, <1>3, Declared, DeclaredTold DEF Api!GetMapPins
<1>4. CASE q.op = "updatePlacePreference"
  BY <1>1, <1>4, Declared, DeclaredTold DEF Api!UpdatePlacePreference
<1>5. CASE q.op = "getSimilarPlaces"
  BY <1>5, Declared, SimilarTold
<1>6. CASE q.op = "getPlaceDetail"
  BY <1>1, <1>6, Declared, DeclaredTold DEF Api!GetPlaceDetail
<1>7. CASE q.op = "generateCourse"
  BY <1>1, <1>7, Declared, DeclaredTold DEF Api!GenerateCourse
<1>8. CASE q.op = "getCourseCandidates"
  BY <1>1, <1>8, Declared, DeclaredTold DEF Api!GetCourseCandidates
<1>9. CASE q.op = "getCourseDetail"
  BY <1>1, <1>9, Declared, DeclaredTold DEF Api!GetCourseDetail
<1>10. CASE q.op = "getCourseComments"
  BY <1>1, <1>10, Declared, DeclaredTold DEF Api!GetCourseComments
<1>11. CASE q.op = "createCourseComment"
  BY <1>1, <1>11, Declared, DeclaredTold DEF Api!CreateCourseComment
<1>12. CASE q.op = "getExcludedPlaces"
  BY <1>1, <1>12, Declared, DeclaredTold DEF Api!GetExcludedPlaces
<1>13. CASE q.op = "addCoursePlace"
  BY <1>1, <1>13, Declared, DeclaredTold DEF Api!AddCoursePlace
<1>14. CASE q.op = "updateCoursePlaces"
  BY <1>1, <1>14, Declared, DeclaredTold DEF Api!UpdateCoursePlaces
<1>15. CASE q.op = "confirmCourse"
  BY <1>1, <1>15, Declared, DeclaredTold DEF Api!ConfirmCourse
<1>16. QED BY <1>2, <1>3, <1>4, <1>5, <1>6, <1>7, <1>8, <1>9, <1>10, <1>11, <1>12, <1>13, <1>14, <1>15 DEF Api!Unimplemented

LEMMA QueriesTold ==
  ASSUME MeetingInv, NEW q \in Api!Queries
  PROVE  Told(q, Api!Endpoint(q))
<1>1. CASE q \in Api!To(Api!Reading, {})
  <2>1. "id" \in DOMAIN q /\ "token" \in DOMAIN q /\ q.op \in Api!Reading
    BY <1>1, ToFields
  <2>2. CASE q.op \in {"getMeetingDetail", "getRecommendations", "getCoursePlan"}
    BY <2>1, <2>2, Queried, ReadingTold
  <2>3. CASE q.op = "downloadCourseImage"
    BY <2>1, <2>3, Queried, DownloadTold
  <2>4. QED BY <2>1, <2>2, <2>3 DEF Api!Reading
<1>2. CASE q \in Api!To(Api!Unimplemented, {"valid"}) \cup Api!To({"getSimilarPlaces"}, {"twice"})
  <2>1. q.op \in Api!Unimplemented
    BY <1>2, ToFields DEF Api!Unimplemented
  <2>2. QED BY <2>1, DeclaredEndpointTold
<1>3. CASE q \in Api!To({"searchPlaces"}, {"valid", "huge"})
  <2>1. "id" \in DOMAIN q /\ "token" \in DOMAIN q /\ q.op = "searchPlaces"
    BY <1>3, ToFields
  <2>2. QED BY <2>1, Queried, SearchTold
<1>4. CASE q \in Api!To({"storeCourseImage"}, {"image", "oversized"})
  <2>1. "id" \in DOMAIN q /\ "token" \in DOMAIN q /\ q.op = "storeCourseImage"
    BY <1>4, ToFields
  <2>2. QED BY <2>1, Queried, StoreTold
<1>5. CASE q.op = "previewInvitation"
  BY <1>5, Queried, PreviewTold
<1>6. CASE q.op = "searchFirstMeetingPlaces"
  BY <1>6, Queried, FirstMeetingTold
<1>7. CASE q.op \in {"getMeetingTypes", "getCategories", "getProfileAvatars"}
  BY <1>7, Queried, ListsTold
<1>8. QED BY <1>1, <1>2, <1>3, <1>4, <1>5, <1>6, <1>7 DEF Api!Queries

\* Every endpoint answers each request of the kinds ApiContract lists with a status
\* that its controller documents, or in one of the known gaps: of the other checks
\* none is missing in the documents.
THEOREM GapsAreKnown == ReleaseSpec => []OnlyKnownGaps
<1>1. ASSUME MeetingInv PROVE Api!Documented
  <2>1. ASSUME NEW requests, \A q \in requests : Told(q, Api!Endpoint(q))
        PROVE  Api!DocumentedOrKnown(requests)
    BY <2>1 DEF Api!DocumentedOrKnown, Told
  <2>2. \A q \in Api!Creations : Told(q, Api!Endpoint(q))
    <3> SUFFICES ASSUME NEW q \in Api!Creations PROVE Told(q, Api!Endpoint(q))
      OBVIOUS
    <3>1. q.op = "createMeeting" /\ q.drawn \in BOOLEAN
      BY DEF Api!Creations
    <3>2. QED BY <3>1, Endpoints, CreateTold
  <2>3. \A q \in Api!Joins : Told(q, Api!Endpoint(q))
    <3> SUFFICES ASSUME NEW q \in Api!Joins PROVE Told(q, Api!Endpoint(q))
      OBVIOUS
    <3>1. q.op = "joinMeeting"
      BY DEF Api!Joins
    <3>2. QED BY <1>1, <3>1, Endpoints, JoinTold
  <2>4. \A q \in Api!Moves : Told(q, Api!Endpoint(q))
    <3> SUFFICES ASSUME NEW q \in Api!Moves PROVE Told(q, Api!Endpoint(q))
      OBVIOUS
    <3>1. /\ "id" \in DOMAIN q /\ "token" \in DOMAIN q /\ q.op = "updateLocation"
          /\ q.locked \in BOOLEAN
      BY DEF Api!Moves
    <3>2. QED BY <3>1, Endpoints, MoveTold
  <2>5. \A q \in Api!Plans : Told(q, Api!Endpoint(q))
    <3> SUFFICES ASSUME NEW q \in Api!Plans PROVE Told(q, Api!Endpoint(q))
      OBVIOUS
    <3>1. "id" \in DOMAIN q /\ "token" \in DOMAIN q /\ q.op = "updateCoursePlan"
      BY ToFields DEF Api!Plans
    <3>2. QED BY <3>1, Endpoints, PlanTold
  <2>6. \A q \in Api!Additions : Told(q, Api!Endpoint(q))
    <3> SUFFICES ASSUME NEW q \in Api!Additions PROVE Told(q, Api!Endpoint(q))
      OBVIOUS
    <3>1. "id" \in DOMAIN q /\ "token" \in DOMAIN q /\ q.op = "addRecommendation"
      BY ToFields DEF Api!Additions
    <3>2. QED BY <3>1, Endpoints, RecommendTold
  <2>7. \A q \in Api!Queries : Told(q, Api!Endpoint(q))
    BY <1>1, QueriesTold
  <2>8. QED BY <2>1, <2>2, <2>3, <2>4, <2>5, <2>6, <2>7 DEF Api!Documented
<1>2. MeetingInv => OnlyKnownGaps
  BY <1>1 DEF OnlyKnownGaps
<1>3. QED BY <1>2, MeetingInvAlways, PTL
=============================================================================
