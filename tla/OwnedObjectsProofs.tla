--------------------------- MODULE OwnedObjectsProofs ---------------------------
(***************************************************************************)
(* Proofs about the objects that own memory: in every order of             *)
(* declarations, copies, assignments and ends of scope, wherever new puts  *)
(* its blocks, only what the compiler writes shares, loses or leaves       *)
(* dangling what an object owns, and undefined behaviour has the causes    *)
(* that OthersStayDefined lists.                                           *)
(*                                                                         *)
(* The invariant speaks of one object at a time (Sound): its pointers lead *)
(* to blocks in use or dangle, no two of them to the same.  Objects may    *)
(* share blocks with each other.  A step gives some members new blocks and *)
(* deletes others (gone); what that does to the owners is proved once, and *)
(* the rest is what the classes make of it.                                *)
(***************************************************************************)
EXTENDS OwnedObjects, TLAPS

Fits(class, n) ==
    /\ class \in OfOne => n = 1
    /\ class \in OfTwo => n = 2
    /\ class \in OfThree => n = 3
    /\ class \in Handler => n <= MaxWorkers

Sound(h, o) ==
    /\ Fits(o.class, Len(o.field))
    /\ o.class # "String" => \A i \in DOMAIN o.field : o.field[i] # Null
    /\ \A i \in DOMAIN o.field : o.field[i] \in Blocks => h[o.field[i]].size > 0
    /\ \A i, j \in DOMAIN o.field :
         o.field[i] = o.field[j] /\ o.field[i] \in Blocks => i = j
    /\ o.class = "BoundCheckIntArray" /\ o.field[1] \in Blocks =>
         h[o.field[1]].size = o.len

Fine(h, s) ==
    h \in [Blocks -> Block] /\ s \in Seq(Object) /\ \A k \in DOMAIN s : Sound(h, s[k])

ObjectsInv ==
    /\ Fine(heap, scope)
    /\ outcome \in {"running", "exited", "undefined"}
    /\ OthersStayDefined

\* What most steps do for the owners of blocks.
SharesNoMore == \A b \in Blocks : Shared(b)' => Shared(b)
LosesNoMore == \A b \in Blocks : Lost(b)' => Lost(b)

DanglesWhereShared ==
    \A at \in Owners(Dangling)' :
      at \in Members /\ (Target(at) = Dangling \/ Shared(Target(at)))

Keeps == ObjectsInv' /\ SharesNoMore /\ LosesNoMore /\ DanglesWhereShared

\* The members of a sequence of objects.
MembersOf(s) ==
    {at \in (DOMAIN s) \X (1..3 \cup 1..MaxWorkers) : at[2] \in DOMAIN s[at[1]].field}

TargetIn(s, at) == s[at[1]].field[at[2]]

-----------------------------------------------------------------------------
LEMMA ObjectType ==
    ASSUME NEW o \in Object
    PROVE  /\ o.field \in Seq(Blocks \cup {Null, Dangling})
           /\ Len(o.field) \in Nat /\ DOMAIN o.field = 1..Len(o.field)
           /\ \A i \in DOMAIN o.field : o.field[i] \in Blocks \cup {Null, Dangling}
           /\ o.class \in Classes /\ o.len \in Int
<1>1. o.field \in Seq(Blocks \cup {Null, Dangling}) /\ o.class \in Classes /\ o.len \in Int
    BY DEF Object
<1> QED
    BY <1>1

LEMMA InvFacts ==
    ASSUME ObjectsInv
    PROVE  /\ heap \in [Blocks -> Block] /\ scope \in Seq(Object)
           /\ Len(scope) \in Nat /\ DOMAIN scope = 1..Len(scope) /\ Objects = DOMAIN scope
           /\ \A b \in Blocks : heap[b].size \in Nat /\ heap[b].text \in Nat
           /\ \A k \in Objects : scope[k] \in Object /\ Sound(heap, scope[k])
<1>1. heap \in [Blocks -> Block] /\ scope \in Seq(Object)
    BY DEF ObjectsInv, Fine
<1>2. \A b \in Blocks : heap[b].size \in Nat /\ heap[b].text \in Nat
    BY <1>1 DEF Block
<1>3. \A k \in Objects : scope[k] \in Object /\ Sound(heap, scope[k])
    BY <1>1 DEF ObjectsInv, Fine, Objects
<1> QED
    BY <1>1, <1>2, <1>3 DEF Objects

LEMMA UnusedType == Unused \in Block
BY DEF Unused, Block

LEMMA MembersAre ==
    /\ Members = MembersOf(scope)
    /\ \A at : Target(at) = TargetIn(scope, at)
    /\ \A b, at : at \in Owners(b) <=> at \in MembersOf(scope) /\ TargetIn(scope, at) = b
    /\ Members' = MembersOf(scope')
    /\ \A at : Target(at)' = TargetIn(scope', at)
    /\ \A b, at : at \in Owners(b)' <=> at \in MembersOf(scope') /\ TargetIn(scope', at) = b
<1>1. Members = MembersOf(scope) /\ \A at : Target(at) = TargetIn(scope, at)
    BY DEF Members, MembersOf, Target, TargetIn, Objects
<1>2. Members' = MembersOf(scope') /\ \A at : Target(at)' = TargetIn(scope', at)
    BY DEF Members, MembersOf, Target, TargetIn, Objects
<1>3. \A b, at : at \in Owners(b) <=> at \in MembersOf(scope) /\ TargetIn(scope, at) = b
    BY <1>1 DEF Owners
<1>4. \A b, at : at \in Owners(b)' <=> at \in MembersOf(scope') /\ TargetIn(scope', at) = b
    BY <1>2 DEF Owners
<1> QED
    BY <1>1, <1>2, <1>3, <1>4

\* A member that an object has is one that Members looks for.
LEMMA MemberOf ==
    ASSUME NEW h, NEW s, Fine(h, s), NEW k \in DOMAIN s, NEW i \in DOMAIN s[k].field
    PROVE  <<k, i>> \in MembersOf(s) /\ TargetIn(s, <<k, i>>) = s[k].field[i]
<1>1. s[k] \in Object /\ Fits(s[k].class, Len(s[k].field))
    BY DEF Fine, Sound
<1>2. /\ s[k].class \in Classes /\ Len(s[k].field) \in Nat
      /\ DOMAIN s[k].field = 1..Len(s[k].field)
    BY <1>1, ObjectType
<1>3. Len(s[k].field) \in {1, 2, 3} \/ Len(s[k].field) <= MaxWorkers
    BY <1>1, <1>2 DEF Classes, Fits
<1> DEFINE n == Len(s[k].field)
<1>4. i \in 1..n /\ n \in Nat /\ (n \in {1, 2, 3} \/ n <= MaxWorkers)
    BY <1>2, <1>3
<1> HIDE DEF n
<1>5. i \in 1..3 \cup 1..MaxWorkers
    BY <1>4, ObjectsAssumption DEF ObjectsAssumption
<1> QED
    BY <1>5 DEF MembersOf, TargetIn

LEMMA OfMembers ==
    ASSUME NEW s, NEW at \in MembersOf(s)
    PROVE  /\ at[1] \in DOMAIN s /\ at[2] \in DOMAIN s[at[1]].field
           /\ at[2] \in 1..3 \cup 1..MaxWorkers /\ at = <<at[1], at[2]>>
BY DEF MembersOf

-----------------------------------------------------------------------------
(***************************************************************************)
(* What a step does to the owners of blocks, when every member gets a new  *)
(* block or stays as it was, but for the blocks that are gone.             *)
(***************************************************************************)
GetsNew(h, gone, t, at) ==
    \/ TargetIn(t, at) = Null
    \/ /\ TargetIn(t, at) \in Blocks
       /\ h[TargetIn(t, at)].size = 0 \/ TargetIn(t, at) \in gone

Stays(s, gone, t, at) ==
    /\ at \in MembersOf(s)
    /\ TargetIn(t, at) = IF TargetIn(s, at) \in gone THEN Dangling ELSE TargetIn(s, at)

LEMMA Sharing ==
    ASSUME ObjectsInv, NEW gone \in SUBSET Blocks,
           \A at \in MembersOf(scope') :
             GetsNew(heap, gone, scope', at) \/ Stays(scope, gone, scope', at),
           \A p, q \in MembersOf(scope') :
             /\ ~Stays(scope, gone, scope', p) /\ ~Stays(scope, gone, scope', q)
             /\ TargetIn(scope', p) = TargetIn(scope', q) /\ TargetIn(scope', p) # Null
             => p = q
    PROVE  SharesNoMore
<1> SUFFICES ASSUME NEW b \in Blocks, Shared(b)'
             PROVE  Shared(b)
    BY DEF SharesNoMore
<1>1. PICK p, q \in MembersOf(scope') :
        p # q /\ TargetIn(scope', p) = b /\ TargetIn(scope', q) = b
    BY MembersAre DEF Shared
<1>2. b # Null /\ b # Dangling
    BY ObjectsAssumption DEF ObjectsAssumption
<1>3. ASSUME NEW at \in MembersOf(scope'), Stays(scope, gone, scope', at),
             TargetIn(scope', at) = b
      PROVE  TargetIn(scope, at) = b /\ ~(heap[b].size = 0) /\ b \notin gone
    <2>1. TargetIn(scope, at) = b /\ b \notin gone /\ at \in MembersOf(scope)
        BY <1>2, <1>3 DEF Stays
    <2>2. heap[b].size > 0
        BY <2>1, OfMembers, InvFacts DEF Sound, TargetIn, Objects
    <2> QED
        BY <2>1, <2>2
<1>4. Stays(scope, gone, scope', p) /\ Stays(scope, gone, scope', q)
    BY <1>1, <1>2, <1>3 DEF GetsNew
<1> QED
    BY <1>1, <1>3, <1>4, MembersAre DEF Shared, Stays

LEMMA Dangles ==
    ASSUME ObjectsInv, NEW gone \in SUBSET Blocks,
           \A at \in MembersOf(scope') :
             GetsNew(heap, gone, scope', at) \/ Stays(scope, gone, scope', at),
           \A at \in MembersOf(scope') :
             Stays(scope, gone, scope', at) /\ TargetIn(scope, at) \in gone =>
               \E q \in MembersOf(scope) : q # at /\ TargetIn(scope, q) = TargetIn(scope, at)
    PROVE  DanglesWhereShared
<1> SUFFICES ASSUME NEW at \in MembersOf(scope'), TargetIn(scope', at) = Dangling
             PROVE  at \in Members /\ (Target(at) = Dangling \/ Shared(Target(at)))
    BY MembersAre DEF DanglesWhereShared
<1>1. Stays(scope, gone, scope', at)
    BY ObjectsAssumption DEF ObjectsAssumption, GetsNew
<1>2. CASE TargetIn(scope, at) \in gone
    BY <1>1, <1>2, MembersAre DEF Stays, Shared
<1>3. CASE TargetIn(scope, at) \notin gone
    BY <1>1, <1>3, MembersAre DEF Stays
<1> QED
    BY <1>2, <1>3

\* A block in use is new for a member, or was in use and has its owners still.
LEMMA Losing ==
    ASSUME ObjectsInv,
           \A b \in Blocks : heap'[b].size > 0 =>
             \/ \E at \in MembersOf(scope') : TargetIn(scope', at) = b
             \/ /\ heap[b].size > 0
                /\ \A at \in MembersOf(scope) : TargetIn(scope, at) = b =>
                     at \in MembersOf(scope') /\ TargetIn(scope', at) = b
    PROVE  LosesNoMore
<1> SUFFICES ASSUME NEW b \in Blocks, Lost(b)'
             PROVE  Lost(b)
    BY DEF LosesNoMore
<1>1. /\ heap'[b].size > 0
      /\ \A at \in MembersOf(scope') : TargetIn(scope', at) # b
    BY MembersAre DEF Lost, Live
<1>2. heap[b].size > 0 /\ \A at \in MembersOf(scope) : TargetIn(scope, at) # b
    BY <1>1
<1>3. \A at : at \notin Owners(b)
    BY <1>2, MembersAre
<1> QED
    BY <1>2, <1>3 DEF Lost, Live

-----------------------------------------------------------------------------
(***************************************************************************)
(* Objects that a step leaves alone, or whose blocks it deletes.           *)
(***************************************************************************)
LEMMA CutOffIs ==
    ASSUME NEW o \in Object, NEW gone \in SUBSET Blocks
    PROVE  LET c == CutOff(o, gone)
           IN  /\ c \in Object /\ c.class = o.class /\ c.len = o.len
               /\ Len(c.field) = Len(o.field) /\ DOMAIN c.field = DOMAIN o.field
               /\ \A i \in DOMAIN o.field :
                    c.field[i] = IF o.field[i] \in gone THEN Dangling ELSE o.field[i]
<1> DEFINE f == [i \in DOMAIN o.field |->
                   IF o.field[i] \in gone THEN Dangling ELSE o.field[i]]
           n == Len(o.field)
           c == CutOff(o, gone)
<1>1. /\ n \in Nat /\ DOMAIN o.field = 1..n
      /\ \A i \in DOMAIN o.field : o.field[i] \in Blocks \cup {Null, Dangling}
    BY ObjectType
<1>2. f \in [1..n -> Blocks \cup {Null, Dangling}]
    BY <1>1
<1>3. f \in Seq(Blocks \cup {Null, Dangling}) /\ Len(f) = n /\ DOMAIN f = 1..n
    BY <1>1, <1>2
<1>4. c = [o EXCEPT !.field = f]
    BY DEF CutOff
<1>5. \A i \in DOMAIN o.field :
        f[i] = IF o.field[i] \in gone THEN Dangling ELSE o.field[i]
    OBVIOUS
<1> HIDE DEF f, c
<1>6. c \in Object /\ c.field = f /\ c.class = o.class /\ c.len = o.len
    BY <1>3, <1>4 DEF Object
<1> HIDE DEF n
<1>7. /\ c \in Object /\ c.class = o.class /\ c.len = o.len
      /\ Len(c.field) = n /\ DOMAIN c.field = DOMAIN o.field
      /\ \A i \in DOMAIN o.field :
           c.field[i] = IF o.field[i] \in gone THEN Dangling ELSE o.field[i]
    BY <1>1, <1>3, <1>5, <1>6
<1> QED
    BY <1>7 DEF c, n

LEMMA Survives ==
    ASSUME NEW h, NEW h1, NEW o, Sound(h, o),
           \A b \in Blocks : h[b].size > 0 => h1[b] = h[b],
           Len(o.field) \in Nat, DOMAIN o.field = 1..Len(o.field)
    PROVE  Sound(h1, o)
<1>1. \A i \in DOMAIN o.field : o.field[i] \in Blocks => h1[o.field[i]] = h[o.field[i]]
    BY DEF Sound
<1>2. /\ Fits(o.class, Len(o.field))
      /\ o.class # "String" => \A i \in DOMAIN o.field : o.field[i] # Null
      /\ \A i \in DOMAIN o.field : o.field[i] \in Blocks => h1[o.field[i]].size > 0
      /\ \A i, j \in DOMAIN o.field :
           o.field[i] = o.field[j] /\ o.field[i] \in Blocks => i = j
    BY <1>1 DEF Sound
<1>3. ASSUME o.class = "BoundCheckIntArray", o.field[1] \in Blocks
      PROVE  h1[o.field[1]].size = o.len
    <2>1. 1 \in DOMAIN o.field
        BY <1>2, <1>3 DEF Fits, OfOne
    <2> QED
        BY <1>1, <1>3, <2>1 DEF Sound
<1> QED
    BY <1>2, <1>3 DEF Sound

LEMMA SurvivesCut ==
    ASSUME NEW h, NEW h1, NEW o \in Object, Sound(h, o), NEW gone \in SUBSET Blocks,
           \A b \in Blocks \ gone : h[b].size > 0 => h1[b] = h[b]
    PROVE  CutOff(o, gone) \in Object /\ Sound(h1, CutOff(o, gone))
<1> DEFINE c == CutOff(o, gone)
<1>1. /\ c \in Object /\ c.class = o.class /\ c.len = o.len
      /\ Len(c.field) = Len(o.field) /\ DOMAIN c.field = DOMAIN o.field
      /\ \A i \in DOMAIN o.field :
           c.field[i] = IF o.field[i] \in gone THEN Dangling ELSE o.field[i]
    BY CutOffIs
<1> HIDE DEF c
<1>2. Dangling \notin Blocks /\ Dangling # Null
    BY ObjectsAssumption DEF ObjectsAssumption
<1>3. \A i \in DOMAIN o.field : c.field[i] \in Blocks =>
        c.field[i] = o.field[i] /\ h1[o.field[i]] = h[o.field[i]]
    BY <1>1, <1>2 DEF Sound
<1>4. Fits(c.class, Len(c.field))
    BY <1>1 DEF Sound
<1>5. c.class # "String" => \A i \in DOMAIN c.field : c.field[i] # Null
    BY <1>1, <1>2 DEF Sound
<1>6. \A i \in DOMAIN c.field : c.field[i] \in Blocks => h1[c.field[i]].size > 0
    BY <1>1, <1>3 DEF Sound
<1>7. \A i, j \in DOMAIN c.field : c.field[i] = c.field[j] /\ c.field[i] \in Blocks => i = j
    BY <1>1, <1>3 DEF Sound
<1>8. ASSUME c.class = "BoundCheckIntArray", c.field[1] \in Blocks
      PROVE  h1[c.field[1]].size = c.len
    <2>1. 1 \in DOMAIN o.field
        <3>1. Len(o.field) = 1 /\ DOMAIN o.field = 1..Len(o.field)
            BY <1>1, <1>8, ObjectType DEF Sound, Fits, OfOne
        <3> QED
            BY <3>1
    <2> QED
        BY <1>1, <1>3, <1>8, <2>1 DEF Sound
<1>9. Sound(h1, c)
    BY <1>4, <1>5, <1>6, <1>7, <1>8 DEF Sound
<1> QED
    BY <1>1, <1>9 DEF c

-----------------------------------------------------------------------------
(***************************************************************************)
(* Steps of every class: undefined behaviour, an object more, the last     *)
(* object less.                                                            *)
(***************************************************************************)
LEMMA SameOwners ==
    ASSUME heap' = heap, scope' = scope
    PROVE  SharesNoMore /\ LosesNoMore /\ DanglesWhereShared
<1>1. \A b : Owners(b)' = Owners(b) /\ Live(b)' = Live(b)
    BY DEF Owners, Members, Target, Objects, Live
<1>2. \A at \in Owners(Dangling) : at \in Members /\ Target(at) = Dangling
    BY DEF Owners
<1> QED
    BY <1>1, <1>2 DEF SharesNoMore, LosesNoMore, DanglesWhereShared, Shared, Lost

\* What undefined behaviour needs.
HasCause(k) ==
    \/ scope[k].class \in {"String", "Second", "Students"}
    \/ scope[k].class \in Handler /\ Len(scope[k].field) = MaxWorkers
    \/ Is(k, "StaffHandler") /\ scope[k].field # << >>
    \/ ~Readable(k)

LEMMA BrokenStep ==
    ASSUME ObjectsInv, Broken, NEW k \in Objects, HasCause(k)
    PROVE  Keeps
<1>1. ObjectsInv'
    BY DEF ObjectsInv, Broken, OthersStayDefined, HasCause, Is, Readable, Objects
<1> QED
    BY <1>1, SameOwners DEF Keeps, Broken

LEMMA OneMore ==
    ASSUME ObjectsInv, outcome = "running", outcome' = outcome,
           heap' \in [Blocks -> Block],
           NEW o \in Object, Sound(heap', o), scope' = Append(scope, o),
           \A i \in DOMAIN o.field :
             o.field[i] = Null \/ (o.field[i] \in Blocks /\ heap[o.field[i]].size = 0),
           \A b \in Blocks : (\A i \in DOMAIN o.field : o.field[i] # b) => heap'[b] = heap[b]
    PROVE  Keeps
<1> DEFINE n == Len(scope)
<1>1. /\ n \in Nat /\ DOMAIN scope = 1..n /\ scope \in Seq(Object) /\ Objects = DOMAIN scope
      /\ \A k \in DOMAIN scope : scope[k] \in Object /\ Sound(heap, scope[k])
    BY InvFacts
<1>2. /\ scope' \in Seq(Object) /\ DOMAIN scope' = 1..(n + 1) /\ scope'[n + 1] = o
      /\ \A k \in DOMAIN scope : scope'[k] = scope[k] /\ k \in DOMAIN scope'
      /\ \A k \in DOMAIN scope' : k \in DOMAIN scope \/ k = n + 1
    BY <1>1
<1> HIDE DEF n
<1>3. \A b \in Blocks : heap[b].size > 0 => heap'[b] = heap[b]
    <2>1. \A b \in Blocks : heap[b].size > 0 => heap[b].size # 0
        OBVIOUS
    <2> QED
        BY <2>1, ObjectsAssumption DEF ObjectsAssumption
<1>4. \A k \in DOMAIN scope : Sound(heap', scope[k])
    BY <1>1, <1>3, Survives, ObjectType
<1>5. Fine(heap', scope')
    BY <1>2, <1>4 DEF Fine
<1>6. ObjectsInv'
    BY <1>5 DEF ObjectsInv, OthersStayDefined
<1>7. ASSUME NEW at \in MembersOf(scope')
      PROVE  \/ at[1] = n + 1 /\ GetsNew(heap, {}, scope', at)
             \/ at[1] # n + 1 /\ Stays(scope, {}, scope', at)
    <2>1. at[1] \in DOMAIN scope' /\ at[2] \in DOMAIN scope'[at[1]].field
          /\ at[2] \in 1..3 \cup 1..MaxWorkers /\ at = <<at[1], at[2]>>
        BY OfMembers
    <2>2. CASE at[1] = n + 1
        BY <1>2, <2>1, <2>2 DEF GetsNew, TargetIn
    <2>3. CASE at[1] # n + 1
        BY <1>2, <2>1, <2>3 DEF Stays, TargetIn, MembersOf
    <2> QED
        BY <2>2, <2>3
<1>8. ASSUME NEW p \in MembersOf(scope'), NEW q \in MembersOf(scope'),
             ~Stays(scope, {}, scope', p), ~Stays(scope, {}, scope', q),
             TargetIn(scope', p) = TargetIn(scope', q), TargetIn(scope', p) # Null
      PROVE  p = q
    <2>1. TargetIn(scope', p) \in Blocks /\ heap[TargetIn(scope', p)].size = 0
        BY <1>7, <1>8 DEF GetsNew
    <2>2. ASSUME NEW at \in MembersOf(scope'), TargetIn(scope', at) = TargetIn(scope', p)
          PROVE  at[1] = n + 1
        <3>1. SUFFICES ASSUME Stays(scope, {}, scope', at)
                       PROVE  FALSE
            BY <1>7
        <3>2. at \in MembersOf(scope) /\ TargetIn(scope, at) = TargetIn(scope', p)
            BY <2>2, <3>1 DEF Stays
        <3>3. heap[TargetIn(scope, at)].size > 0
            BY <1>1, <2>1, <3>2, OfMembers DEF Sound, TargetIn
        <3> QED
            BY <2>1, <3>2, <3>3
    <2>3. p[1] = n + 1 /\ q[1] = n + 1
        BY <1>8, <2>2
    <2>4. /\ p[2] \in DOMAIN o.field /\ q[2] \in DOMAIN o.field
          /\ o.field[p[2]] = o.field[q[2]] /\ o.field[p[2]] \in Blocks
        <3>1. p[2] \in DOMAIN scope'[p[1]].field /\ q[2] \in DOMAIN scope'[q[1]].field
            BY OfMembers
        <3> QED
            BY <1>2, <1>8, <2>1, <2>3, <3>1 DEF TargetIn
    <2>5. p[2] = q[2]
        BY <2>4 DEF Sound
    <2> QED
        BY <2>3, <2>5, OfMembers
<1>9. SharesNoMore
    BY <1>7, <1>8, Sharing
<1>10. DanglesWhereShared
    <2>1. \A at \in MembersOf(scope') :
            GetsNew(heap, {}, scope', at) \/ Stays(scope, {}, scope', at)
        BY <1>7
    <2>2. \A at \in MembersOf(scope') :
            Stays(scope, {}, scope', at) /\ TargetIn(scope, at) \in {} =>
              \E q \in MembersOf(scope) : q # at /\ TargetIn(scope, q) = TargetIn(scope, at)
        OBVIOUS
    <2>3. {} \in SUBSET Blocks
        OBVIOUS
    <2> QED
        BY <2>1, <2>2, <2>3, Dangles
<1>11. ASSUME NEW b \in Blocks, heap'[b].size > 0
       PROVE  \/ \E at \in MembersOf(scope') : TargetIn(scope', at) = b
              \/ /\ heap[b].size > 0
                 /\ \A at \in MembersOf(scope) : TargetIn(scope, at) = b =>
                      at \in MembersOf(scope') /\ TargetIn(scope', at) = b
    <2>1. CASE \E i \in DOMAIN o.field : o.field[i] = b
        <3>1. PICK i \in DOMAIN o.field : o.field[i] = b
            BY <2>1
        <3>2. PICK k \in DOMAIN scope' : scope'[k] = o
            BY <1>1, <1>2
        <3>3. i \in DOMAIN scope'[k].field
            BY <3>2
        <3>4. <<k, i>> \in MembersOf(scope') /\ TargetIn(scope', <<k, i>>) = scope'[k].field[i]
            BY ONLY <1>5, <3>3, MemberOf, k \in DOMAIN scope', ObjectsAssumption
        <3> QED
            BY <3>1, <3>2, <3>4
    <2>2. CASE \A i \in DOMAIN o.field : o.field[i] # b
        BY <1>2, <1>11, <2>2, OfMembers DEF MembersOf, TargetIn
    <2> QED
        BY <2>1, <2>2
<1>12. LosesNoMore
    BY <1>11, Losing
<1> QED
    BY <1>6, <1>9, <1>10, <1>12 DEF Keeps

\* The end of the last object.
LEMMA DestroyStep ==
    ASSUME ObjectsInv, outcome = "running", NEW class, Destroy(class)
    PROVE  Keeps
<1> DEFINE k == Len(scope)
           o == scope[k]
           owned == {i \in DOMAIN o.field : o.field[i] # Null}
           gone == {o.field[i] : i \in owned}
<1>1. /\ k \in DOMAIN scope /\ k \in Nat \ {0} /\ DOMAIN scope = 1..k /\ k \in Objects
      /\ o \in Object /\ Sound(heap, o)
    BY InvFacts DEF Destroy
<1>2. \A i \in DOMAIN o.field : o.field[i] \in Blocks \cup {Null, Dangling}
    BY <1>1, ObjectType
<1>3. CASE Dangling \in gone
    <2>1. HasCause(k)
        BY <1>3 DEF HasCause, Readable
    <2> QED
        BY <1>1, <1>3, <2>1, BrokenStep DEF Destroy
<1>4. CASE Dangling \notin gone
    <2>1. gone \subseteq Blocks
        BY <1>2, <1>4
    <2>2. \A i, m \in owned : o.field[i] = o.field[m] => i = m
        BY <1>1, <2>1 DEF Sound
    <2>3. /\ heap' = Without(gone) /\ outcome' = outcome
          /\ scope' = [m \in 1..(k - 1) |-> CutOff(scope[m], gone)]
        BY <1>4, <2>2 DEF Destroy
    <2>4. \A b \in gone : \E i \in DOMAIN o.field : o.field[i] = b
        OBVIOUS
    <2>5. \A i \in DOMAIN o.field : o.field[i] = Null \/ o.field[i] \in gone
        OBVIOUS
    <2> HIDE DEF gone, owned
    <2>6. /\ heap' \in [Blocks -> Block]
          /\ \A b \in Blocks : b \notin gone => heap'[b] = heap[b]
          /\ \A b \in gone : heap'[b].size = 0
        <3>1. heap \in [Blocks -> Block]
            BY InvFacts
        <3> QED
            BY <2>1, <2>3, <3>1, UnusedType DEF Without, Unused
    <2>7. ASSUME NEW m \in 1..(k - 1)
          PROVE  /\ m \in DOMAIN scope /\ m # k /\ scope'[m] \in Object
                 /\ Sound(heap', scope'[m]) /\ scope'[m] = CutOff(scope[m], gone)
                 /\ DOMAIN scope'[m].field = DOMAIN scope[m].field
                 /\ \A i \in DOMAIN scope[m].field :
                      scope'[m].field[i] = IF scope[m].field[i] \in gone THEN Dangling
                                           ELSE scope[m].field[i]
        <3>0. \A n \in Nat \ {0} : \A l \in 1..(n - 1) : l \in 1..n /\ l # n
            OBVIOUS
        <3>1. m \in DOMAIN scope /\ m # k
            BY <1>1, <3>0
        <3>2. scope[m] \in Object /\ Sound(heap, scope[m])
            BY <3>1, InvFacts
        <3>3. scope'[m] = CutOff(scope[m], gone)
            BY <2>3
        <3>4. CutOff(scope[m], gone) \in Object /\ Sound(heap', CutOff(scope[m], gone))
            BY <2>1, <2>6, <3>2, SurvivesCut
        <3> QED
            BY <2>1, <3>1, <3>2, <3>3, <3>4, CutOffIs
    <2>8. DOMAIN scope' = 1..(k - 1) /\ scope' \in Seq(Object)
        <3>1. scope' \in [1..(k - 1) -> Object]
            BY <2>3, <2>7
        <3> QED
            BY <1>1, <3>1
    <2>9. Fine(heap', scope')
        BY <2>6, <2>7, <2>8 DEF Fine
    <2>10. ObjectsInv'
        BY <2>3, <2>9 DEF ObjectsInv, OthersStayDefined
    <2>11. ASSUME NEW at \in MembersOf(scope')
           PROVE  Stays(scope, gone, scope', at) /\ at[1] # k
        <3>1. /\ at[1] \in 1..(k - 1) /\ at[2] \in DOMAIN scope'[at[1]].field
              /\ at[2] \in 1..3 \cup 1..MaxWorkers /\ at = <<at[1], at[2]>>
            BY <2>8, OfMembers
        <3>2. at[1] \in DOMAIN scope /\ at[2] \in DOMAIN scope[at[1]].field /\ at[1] # k
            BY <2>7, <3>1
        <3>3. at \in MembersOf(scope)
            BY <3>1, <3>2 DEF MembersOf
        <3> QED
            BY <2>7, <3>1, <3>2, <3>3 DEF Stays, TargetIn
    <2>12. ASSUME NEW i \in DOMAIN o.field
           PROVE  <<k, i>> \in MembersOf(scope) /\ TargetIn(scope, <<k, i>>) = o.field[i]
        BY <1>1, MemberOf DEF ObjectsInv
    <2>13. SharesNoMore
        BY <2>1, <2>11, Sharing
    <2>14. DanglesWhereShared
        <3>1. ASSUME NEW at \in MembersOf(scope'), TargetIn(scope, at) \in gone
              PROVE  \E q \in MembersOf(scope) :
                       q # at /\ TargetIn(scope, q) = TargetIn(scope, at)
            <4>1. PICK i \in DOMAIN o.field : o.field[i] = TargetIn(scope, at)
                BY <2>4, <3>1
            <4>2. <<k, i>> \in MembersOf(scope) /\ TargetIn(scope, <<k, i>>) = TargetIn(scope, at)
                BY <2>12, <4>1
            <4>3. <<k, i>> # at
                BY <2>11
            <4> QED
                BY <4>2, <4>3
        <3> QED
            BY <2>1, <2>11, <3>1, Dangles
    <2>15. ASSUME NEW b \in Blocks, heap'[b].size > 0,
                  NEW at \in MembersOf(scope), TargetIn(scope, at) = b
           PROVE  at \in MembersOf(scope') /\ TargetIn(scope', at) = b
        <3>1. b \notin gone
            BY <2>6, <2>15
        <3>2. /\ at[1] \in 1..k /\ at[2] \in DOMAIN scope[at[1]].field
              /\ at[2] \in 1..3 \cup 1..MaxWorkers /\ at = <<at[1], at[2]>>
            BY <1>1, OfMembers
        <3>3. at[1] # k
            <4>1. SUFFICES ASSUME at[1] = k PROVE FALSE
                OBVIOUS
            <4>2. at[2] \in DOMAIN o.field /\ o.field[at[2]] = b
                BY <2>15, <3>2, <4>1 DEF TargetIn
            <4> QED
                BY <2>5, <3>1, <4>2, ObjectsAssumption DEF ObjectsAssumption
        <3>4. at[1] \in 1..(k - 1)
            BY <1>1, <3>2, <3>3
        <3>5. at[1] \in DOMAIN scope' /\ at[2] \in DOMAIN scope'[at[1]].field
            BY <2>7, <2>8, <3>2, <3>4
        <3>6. scope'[at[1]].field[at[2]] = b
            BY <2>7, <2>15, <3>1, <3>2, <3>4 DEF TargetIn
        <3> QED
            BY <3>2, <3>5, <3>6 DEF MembersOf, TargetIn
    <2>16. \A b \in Blocks : heap'[b].size > 0 => heap[b].size > 0
        <3>1. \A b \in gone : ~(heap'[b].size > 0)
            BY <2>6
        <3> QED
            BY <2>6, <3>1
    <2>17. LosesNoMore
        BY <2>15, <2>16, Losing
    <2> QED
        BY <2>10, <2>13, <2>14, <2>17 DEF Keeps
<1> QED
    BY <1>3, <1>4

\* Blocks that new gives, each to one member.
Renews(h, n, at, texts, g) ==
    /\ g \in [Blocks -> Block]
    /\ \A i \in 1..n : g[at[i]].size = texts[i] + 1
    /\ \A b \in Blocks : (\A i \in 1..n : at[i] # b) => g[b] = h[b]

LEMMA NewBlocks ==
    ASSUME NEW h \in [Blocks -> Block], NEW n \in Nat, NEW at \in [1..n -> Blocks],
           \A i, j \in 1..n : at[i] = at[j] => i = j,
           NEW texts \in [1..n -> Nat]
    PROVE  Renews(h, n, at, texts, Holding(h, at, texts))
<1> DEFINE g == Holding(h, at, texts)
           e(i) == [size |-> texts[i] + 1, text |-> texts[i]]
<1>1. DOMAIN at = 1..n
    OBVIOUS
<1>2. ASSUME NEW i \in 1..n
      PROVE  g[at[i]] = e(i)
    <2>1. at[i] \in Blocks
        OBVIOUS
    <2>2. (CHOOSE m \in DOMAIN at : at[m] = at[i]) = i
        BY <1>1
    <2> QED
        BY <1>1, <2>1, <2>2 DEF Holding
<1>3. \A b \in Blocks : (\A i \in 1..n : at[i] # b) => g[b] = h[b]
    BY <1>1 DEF Holding
<1>4. \A i \in 1..n : e(i) \in Block /\ e(i).size = texts[i] + 1
    BY DEF Block
<1> HIDE DEF e, g
<1>5. ASSUME NEW b \in Blocks
      PROVE  g[b] \in Block
    <2>1. CASE \E i \in 1..n : at[i] = b
        BY <2>1, <1>2, <1>4
    <2>2. CASE \A i \in 1..n : at[i] # b
        BY <2>2, <1>3
    <2> QED
        BY <2>1, <2>2
<1>6. g = [b \in Blocks |-> g[b]]
    BY DEF Holding, g
<1>7. g \in [Blocks -> Block]
    BY <1>5, <1>6
<1>8. Renews(h, n, at, texts, g)
    BY <1>2, <1>3, <1>4, <1>7 DEF Renews
<1> QED
    BY <1>8 DEF g

LEMMA DeclareStep ==
    ASSUME ObjectsInv, outcome = "running", NEW class \in Classes, NEW texts \in Seq(Nat),
           NEW len \in Int, Fits(class, Len(texts)),
           class = "BoundCheckIntArray" => texts[1] + 1 = len,
           Declare(class, texts, len)
    PROVE  Keeps
<1> DEFINE n == Len(texts)
<1>1. n \in Nat /\ texts \in [1..n -> Nat] /\ DOMAIN texts = 1..n
    OBVIOUS
<1>2. PICK at \in Fresh(n, {b \in Blocks : ~Live(b)}) :
        /\ heap' = Holding(heap, at, texts)
        /\ scope' = Append(scope, [class |-> class, field |-> at, len |-> len])
    BY DEF Declare
<1> DEFINE o == [class |-> class, field |-> at, len |-> len]
<1>3. /\ at \in [1..n -> Blocks]
      /\ \A i, j \in 1..n : at[i] = at[j] => i = j
      /\ \A i \in 1..n : ~Live(at[i])
    BY <1>2 DEF Fresh
<1>4. heap \in [Blocks -> Block] /\ \A b \in Blocks : heap[b].size \in Nat
    BY InvFacts
<1>5. /\ heap' \in [Blocks -> Block]
      /\ \A i \in 1..n : heap'[at[i]].size = texts[i] + 1
      /\ \A b \in Blocks : (\A i \in 1..n : at[i] # b) => heap'[b] = heap[b]
    <2> HIDE DEF n
    <2>1. Renews(heap, n, at, texts, Holding(heap, at, texts))
        BY <1>1, <1>3, <1>4, NewBlocks
    <2> QED
        BY <1>2, <2>1 DEF Renews
<1>6. at \in Seq(Blocks \cup {Null, Dangling}) /\ Len(at) = n /\ DOMAIN at = 1..n
    BY <1>1, <1>3
<1>7. o \in Object /\ o.field = at /\ o.class = class /\ o.len = len
    BY <1>6 DEF Object
<1>8. \A i \in 1..n : heap[at[i]].size = 0 /\ at[i] \in Blocks
    <2>1. \A i \in 1..n : at[i] \in Blocks /\ ~(heap[at[i]].size > 0)
        BY <1>3 DEF Live
    <2> QED
        BY <2>1, <1>4
<1>9. scope' = Append(scope, o) /\ outcome' = outcome /\ Fits(class, n)
    BY <1>2 DEF Declare
<1>10. \A i \in 1..n : texts[i] \in Nat /\ texts[i] + 1 > 0
    BY <1>1
<1>11. class = "BoundCheckIntArray" => n = 1
    BY <1>9 DEF Fits, OfOne
<1> HIDE DEF o, n
<1>12. Sound(heap', o)
    <2>1. \A i \in DOMAIN o.field : o.field[i] \in Blocks /\ o.field[i] # Null
        BY <1>6, <1>7, <1>8, ObjectsAssumption DEF ObjectsAssumption
    <2>2. Fits(o.class, Len(o.field))
        BY <1>6, <1>7, <1>9
    <2>3. \A i \in DOMAIN o.field : heap'[o.field[i]].size > 0
        BY <1>5, <1>6, <1>7, <1>10
    <2>4. \A i, j \in DOMAIN o.field : o.field[i] = o.field[j] => i = j
        BY <1>3, <1>6, <1>7
    <2>5. o.class = "BoundCheckIntArray" => heap'[o.field[1]].size = o.len
        BY <1>1, <1>5, <1>7, <1>11
    <2> QED
        BY <2>1, <2>2, <2>3, <2>4, <2>5 DEF Sound
<1>13. /\ \A i \in DOMAIN o.field : o.field[i] \in Blocks /\ heap[o.field[i]].size = 0
       /\ \A b \in Blocks : (\A i \in DOMAIN o.field : o.field[i] # b) => heap'[b] = heap[b]
    BY <1>5, <1>6, <1>7, <1>8
<1> QED
    BY <1>5, <1>7, <1>9, <1>12, <1>13, OneMore

\* An object without a length.
LEMMA DeclareOther ==
    ASSUME ObjectsInv, outcome = "running", NEW class \in Classes, NEW texts \in Seq(Nat),
           Fits(class, Len(texts)), class # "BoundCheckIntArray",
           Declare(class, texts, 0)
    PROVE  Keeps
<1> DEFINE len == 0
<1>1. len \in Int /\ Declare(class, texts, len)
    OBVIOUS
<1> HIDE DEF len
<1> QED
    BY <1>1, DeclareStep

-----------------------------------------------------------------------------
(***************************************************************************)
(* What the compiler writes.                                               *)
(***************************************************************************)
LEMMA ImplicitCopyStep ==
    ASSUME ObjectsInv, outcome = "running", NEW k \in Objects, ImplicitCopy(k)
    PROVE  ObjectsInv' /\ LosesNoMore
<1> DEFINE n == Len(scope)
<1>1. /\ n \in Nat /\ DOMAIN scope = 1..n /\ scope \in Seq(Object) /\ Objects = DOMAIN scope
      /\ \A l \in DOMAIN scope : scope[l] \in Object /\ Sound(heap, scope[l])
      /\ heap \in [Blocks -> Block]
    BY InvFacts
<1>2. scope' = Append(scope, scope[k]) /\ heap' = heap /\ outcome' = outcome
    BY DEF ImplicitCopy
<1>3. /\ scope' \in Seq(Object) /\ DOMAIN scope' = 1..(n + 1)
      /\ \A l \in DOMAIN scope : scope'[l] = scope[l] /\ l \in DOMAIN scope'
      /\ \A l \in DOMAIN scope' : l \in DOMAIN scope \/ scope'[l] = scope[k]
    BY <1>1, <1>2
<1> HIDE DEF n
<1>4. Fine(heap', scope')
    BY <1>1, <1>2, <1>3 DEF Fine
<1>5. ObjectsInv'
    BY <1>2, <1>4 DEF ObjectsInv, OthersStayDefined
<1>6. \A at \in MembersOf(scope) :
        at \in MembersOf(scope') /\ TargetIn(scope', at) = TargetIn(scope, at)
    BY <1>3, OfMembers DEF MembersOf, TargetIn
<1>7. LosesNoMore
    BY <1>2, <1>6, Losing
<1> QED
    BY <1>5, <1>7

LEMMA ImplicitAssignStep ==
    ASSUME ObjectsInv, outcome = "running", NEW k \in Objects, NEW j \in Objects,
           ImplicitAssign(k, j)
    PROVE  ObjectsInv'
<1>1. /\ scope \in Seq(Object) /\ Objects = DOMAIN scope
      /\ \A l \in DOMAIN scope : scope[l] \in Object /\ Sound(heap, scope[l])
      /\ heap \in [Blocks -> Block]
    BY InvFacts
<1>2. scope' = [scope EXCEPT ![k] = scope[j]] /\ heap' = heap /\ outcome' = outcome
    BY DEF ImplicitAssign
<1>3. /\ scope' \in Seq(Object) /\ DOMAIN scope' = DOMAIN scope
      /\ \A l \in DOMAIN scope : scope'[l] = scope[l] \/ scope'[l] = scope[j]
    BY <1>1, <1>2
<1>4. Fine(heap', scope')
    BY <1>1, <1>2, <1>3 DEF Fine
<1> QED
    BY <1>2, <1>4 DEF ObjectsInv, OthersStayDefined

\* What reads a dangling pointer may do anything.
LEMMA ShowStep ==
    ASSUME ObjectsInv, outcome = "running", NEW k \in Objects, Show(k)
    PROVE  Keeps
<1>1. CASE Readable(k)
    <2>1. heap' = heap /\ scope' = scope /\ outcome' = outcome
        BY <1>1 DEF Show, vars
    <2> QED
        BY <2>1, SameOwners DEF Keeps, ObjectsInv, OthersStayDefined
<1>2. CASE ~Readable(k)
    BY <1>2, BrokenStep DEF Show, HasCause
<1> QED
    BY <1>1, <1>2

-----------------------------------------------------------------------------
(***************************************************************************)
(* The classes.                                                            *)
(***************************************************************************)
\* A readable object without null pointers has its texts.
LEMMA TextsOf ==
    ASSUME ObjectsInv, NEW k \in Objects, scope[k].class # "String", Readable(k)
    PROVE  \A i \in DOMAIN scope[k].field : Text(k, i) \in Nat
<1>1. \A i \in DOMAIN scope[k].field : scope[k].field[i] \in Blocks
    BY InvFacts, ObjectType DEF Sound, Readable
<1> QED
    BY <1>1, InvFacts DEF Text

LEMMA CardsStep ==
    ASSUME ObjectsInv, outcome = "running", Cards
    PROVE  Keeps
<1>1. ASSUME NEW s \in Nat, NEW t \in Nat, NEW u \in Nat,
             FirstNameCard(s, t, u) \/ NameCard(s, t, u)
      PROVE  Keeps
    <2> DEFINE texts == <<s, t, u>>
    <2>1. texts \in Seq(Nat) /\ Len(texts) = 3
        OBVIOUS
    <2>2. PICK class \in {"FirstNameCard", "NameCard"} : Declare(class, texts, 0)
        BY <1>1 DEF FirstNameCard, NameCard
    <2> HIDE DEF texts
    <2>3. class \in Classes /\ Fits(class, Len(texts)) /\ class # "BoundCheckIntArray"
        BY <2>1 DEF Classes, Fits, Handler, OfOne, OfTwo, OfThree
    <2> QED
        BY <2>1, <2>2, <2>3, DeclareOther
<1>2. ASSUME NEW k \in Objects, CopyNameCard(k)
      PROVE  Keeps
    <2>1. Is(k, "NameCard") /\ scope[k].class # "String"
        BY <1>2 DEF CopyNameCard, Is
    <2>2. CASE Readable(k)
        <3>1. DOMAIN scope[k].field = 1..3
            BY <2>1, InvFacts, ObjectType DEF Sound, Fits, OfThree, Is
        <3>2. Text(k, 1) \in Nat /\ Text(k, 2) \in Nat /\ Text(k, 3) \in Nat
            BY <2>1, <2>2, <3>1, TextsOf
        <3> QED
            BY <1>1, <1>2, <2>2, <3>2 DEF CopyNameCard
    <2>3. CASE ~Readable(k)
        BY <1>2, <2>3, BrokenStep DEF CopyNameCard, HasCause
    <2> QED
        BY <2>2, <2>3
<1>3. DropFirstNameCard \/ DropNameCard => Keeps
    BY DestroyStep DEF DropFirstNameCard, DropNameCard
<1> QED
    BY <1>1, <1>2, <1>3, ObjectsAssumption DEF Cards, ObjectsAssumption

\* An object with one member that is no String.
LEMMA OfOneStep ==
    ASSUME ObjectsInv, outcome = "running", NEW class \in OfOne, NEW n \in Nat, NEW len \in Int,
           class = "BoundCheckIntArray" => n + 1 = len,
           Declare(class, <<n>>, len)
    PROVE  Keeps
<1> DEFINE texts == <<n>>
<1>1. texts \in Seq(Nat) /\ Len(texts) = 1 /\ texts[1] = n
    OBVIOUS
<1>2. Declare(class, texts, len)
    OBVIOUS
<1>3. class \in Classes /\ Fits(class, 1)
    BY DEF Classes, Fits, Handler, OfOne, OfTwo, OfThree
<1> HIDE DEF texts
<1> QED
    BY <1>1, <1>2, <1>3, DeclareStep

LEMMA PeopleStep ==
    ASSUME ObjectsInv, outcome = "running", People
    PROVE  Keeps
<1>1. ASSUME NEW n \in Nat, Person(n)
      PROVE  Keeps
    <2>1. "Person" \in OfOne
        BY DEF OfOne
    <2> QED
        BY <1>1, <2>1, OfOneStep DEF Person
<1>2. ASSUME NEW k \in Objects, CopyPerson(k)
      PROVE  Keeps
    <2>1. Is(k, "Person") /\ scope[k].class # "String"
        BY <1>2 DEF CopyPerson, Is
    <2>2. CASE Readable(k)
        <3>1. 1 \in DOMAIN scope[k].field
            BY <2>1, InvFacts, ObjectType DEF Sound, Fits, OfOne, Is
        <3>2. Text(k, 1) \in Nat
            BY <2>1, <2>2, <3>1, TextsOf
        <3> QED
            BY <1>1, <1>2, <2>2, <3>2 DEF CopyPerson
    <2>3. CASE ~Readable(k)
        BY <1>2, <2>3, BrokenStep DEF CopyPerson, HasCause
    <2> QED
        BY <2>2, <2>3
<1>3. DropPerson => Keeps
    BY DestroyStep DEF DropPerson
<1> QED
    BY <1>1, <1>2, <1>3, ObjectsAssumption DEF People, ObjectsAssumption

LEMMA BooksStep ==
    ASSUME ObjectsInv, outcome = "running", Books
    PROVE  Keeps
<1>1. ASSUME NEW s \in Nat, NEW t \in Nat, Book(s, t)
      PROVE  Keeps
    <2> DEFINE texts == <<s, t>>
    <2>1. texts \in Seq(Nat) /\ Len(texts) = 2 /\ Declare("Book", texts, 0)
        BY <1>1 DEF Book
    <2> HIDE DEF texts
    <2>2. "Book" \in Classes /\ Fits("Book", Len(texts)) /\ "Book" # "BoundCheckIntArray"
        BY <2>1 DEF Classes, Fits, Handler, OfOne, OfTwo, OfThree
    <2> QED
        BY <2>1, <2>2, DeclareOther
<1>2. ASSUME NEW s \in Nat, NEW t \in Nat, NEW u \in Nat, EBook(s, t, u)
      PROVE  Keeps
    <2> DEFINE texts == <<s, t, u>>
    <2>1. texts \in Seq(Nat) /\ Len(texts) = 3 /\ Declare("EBook", texts, 0)
        BY <1>2 DEF EBook
    <2> HIDE DEF texts
    <2>2. "EBook" \in Classes /\ Fits("EBook", Len(texts)) /\ "EBook" # "BoundCheckIntArray"
        BY <2>1 DEF Classes, Fits, Handler, OfOne, OfTwo, OfThree
    <2> QED
        BY <2>1, <2>2, DeclareOther
<1>3. DropBook \/ DropEBook => Keeps
    BY DestroyStep DEF DropBook, DropEBook
<1> QED
    BY <1>1, <1>2, <1>3, ObjectsAssumption DEF Books, ObjectsAssumption

LEMMA PointersStep ==
    ASSUME ObjectsInv, outcome = "running", Pointers
    PROVE  Keeps
<1>1. "SmartPtr" \in OfOne
    BY DEF OfOne
<1> QED
    BY <1>1, OfOneStep, DestroyStep DEF Pointers, SmartPtr, DropSmartPtr

\* operator[] leaves the array alone, ends the program or finds that a copy
\* of the array has deleted the numbers.
LEMMA ArraysStep ==
    ASSUME ObjectsInv, outcome = "running", Arrays
    PROVE  Keeps
<1>1. ASSUME NEW n \in Texts \ {0}, BoundCheckIntArray(n)
      PROVE  Keeps
    <2>1. n - 1 \in Nat /\ n \in Int /\ (n - 1) + 1 = n
        BY ObjectsAssumption DEF ObjectsAssumption
    <2>2. "BoundCheckIntArray" \in OfOne
        BY DEF OfOne
    <2> QED
        BY <1>1, <2>1, <2>2, OfOneStep DEF BoundCheckIntArray
<1>2. DropBoundCheckIntArray => Keeps
    BY DestroyStep DEF DropBoundCheckIntArray
<1>3. ASSUME NEW k \in Objects, NEW idx \in -1..MaxLen, Element(k, idx)
      PROVE  Keeps
    <2>1. scope[k].class = "BoundCheckIntArray" /\ scope[k] \in Object /\ Sound(heap, scope[k])
        BY <1>3, InvFacts DEF Element, Is
    <2>2. 1 \in DOMAIN scope[k].field
        BY <2>1, ObjectType DEF Sound, Fits, OfOne
    <2>3. scope[k].field[1] \in Blocks \cup {Dangling}
        BY <2>1, <2>2, ObjectType DEF Sound
    <2>4. CASE scope[k].field[1] = Dangling
        <3>1. HasCause(k)
            BY <2>2, <2>4 DEF HasCause, Readable
        <3>2. Broken \/ (heap' = heap /\ scope' = scope /\ outcome' = "exited")
            BY <1>3, <2>4 DEF Element, InArray
        <3> QED
            BY <3>1, <3>2, BrokenStep, SameOwners DEF Keeps, ObjectsInv, OthersStayDefined
    <2>5. CASE scope[k].field[1] \in Blocks
        <3>1. heap[scope[k].field[1]].size = scope[k].len
            BY <2>1, <2>5 DEF Sound
        <3>2. scope[k].field[1] # Dangling
            BY <2>5, ObjectsAssumption DEF ObjectsAssumption
        <3>3. scope[k].len \in Int /\ idx \in Int
            BY <2>1, ObjectType
        <3>4. heap' = heap /\ scope' = scope /\ outcome' \in {outcome, "exited"}
            BY <1>3, <3>1, <3>2, <3>3 DEF Element, InArray, vars
        <3> QED
            BY <3>4, SameOwners DEF Keeps, ObjectsInv, OthersStayDefined
    <2> QED
        BY <2>3, <2>4, <2>5
<1> QED
    BY <1>1, <1>2, <1>3 DEF Arrays

\* A DataStorage that ends loses its array, and nothing else changes hands.
LEMMA StoragesStep ==
    ASSUME ObjectsInv, outcome = "running", Storages
    PROVE  /\ ObjectsInv' /\ SharesNoMore /\ DanglesWhereShared
           /\ DropDataStorage \/ LosesNoMore
<1>1. ASSUME NEW n \in Texts \ {0}, DataStorage(n)
      PROVE  Keeps
    <2>1. n - 1 \in Nat
        BY ObjectsAssumption DEF ObjectsAssumption
    <2>2. "DataStorage" \in OfOne
        BY DEF OfOne
    <2> QED
        BY <1>1, <2>1, <2>2, OfOneStep DEF DataStorage
<1>2. ASSUME DropDataStorage
      PROVE  ObjectsInv' /\ SharesNoMore /\ DanglesWhereShared
    <2> DEFINE n == Len(scope)
    <2>1. /\ n \in Nat \ {0} /\ DOMAIN scope = 1..n /\ scope \in Seq(Object)
          /\ \A l \in DOMAIN scope : scope[l] \in Object /\ Sound(heap, scope[l])
          /\ heap \in [Blocks -> Block]
        BY <1>2, InvFacts DEF DropDataStorage
    <2>2. scope' = SubSeq(scope, 1, n - 1) /\ heap' = heap /\ outcome' = outcome
        BY <1>2 DEF DropDataStorage
    <2>3. /\ scope' \in Seq(Object)
          /\ \A l \in DOMAIN scope' : l \in DOMAIN scope /\ scope'[l] = scope[l]
        BY <2>1, <2>2
    <2> HIDE DEF n
    <2>4. Fine(heap', scope')
        BY <2>1, <2>2, <2>3 DEF Fine
    <2>5. ObjectsInv'
        BY <2>2, <2>4 DEF ObjectsInv, OthersStayDefined
    <2>6. \A at \in MembersOf(scope') : Stays(scope, {}, scope', at)
        BY <2>3, OfMembers DEF MembersOf, Stays, TargetIn
    <2>7. {} \in SUBSET Blocks /\ \A at : TargetIn(scope, at) \notin {}
        OBVIOUS
    <2>8. SharesNoMore
        BY <2>6, <2>7, Sharing
    <2>9. DanglesWhereShared
        BY <2>6, <2>7, Dangles
    <2> QED
        BY <2>5, <2>8, <2>9
<1> QED
    BY <1>1, <1>2 DEF Storages, Keeps

LEMMA BasesStep ==
    ASSUME ObjectsInv, outcome = "running", Bases
    PROVE  Keeps
<1>1. ASSUME NEW s \in Nat, NEW t \in Nat, Second(s, t)
      PROVE  Keeps
    <2> DEFINE texts == <<s, t>>
    <2>1. texts \in Seq(Nat) /\ Len(texts) = 2 /\ Declare("Second", texts, 0)
        BY <1>1 DEF Second
    <2> HIDE DEF texts
    <2>2. "Second" \in Classes /\ Fits("Second", Len(texts)) /\ "Second" # "BoundCheckIntArray"
        BY <2>1 DEF Classes, Fits, Handler, OfOne, OfTwo, OfThree
    <2> QED
        BY <2>1, <2>2, DeclareOther
<1>2. ASSUME Students
      PROVE  Keeps
    <2> DEFINE texts == <<0, 0, 0>>
    <2>1. texts \in Seq(Nat) /\ Len(texts) = 3 /\ Declare("Students", texts, 0)
        BY <1>2 DEF Students
    <2> HIDE DEF texts
    <2>2. /\ "Students" \in Classes /\ Fits("Students", Len(texts))
          /\ "Students" # "BoundCheckIntArray"
        BY <2>1 DEF Classes, Fits, Handler, OfOne, OfTwo, OfThree
    <2> QED
        BY <2>1, <2>2, DeclareOther
<1>3. ASSUME DropSecond \/ DropStudents
      PROVE  Keeps
    <2>1. Len(scope) \in Objects /\ HasCause(Len(scope)) /\ Broken
        BY <1>3, InvFacts DEF DropSecond, DropStudents, HasCause, Is
    <2> QED
        BY <2>1, BrokenStep
<1> QED
    BY <1>1, <1>2, <1>3, ObjectsAssumption DEF Bases, ObjectsAssumption

-----------------------------------------------------------------------------
(***************************************************************************)
(* Arrays of workers: one object with a member more.                       *)
(***************************************************************************)
LEMMA EmployStep ==
    ASSUME ObjectsInv, outcome = "running",
           NEW k \in Objects, scope[k].class \in Handler, Employ(k)
    PROVE  Keeps
<1>1. CASE Len(scope[k].field) = MaxWorkers
    BY <1>1, BrokenStep DEF Employ, HasCause
<1>2. CASE Len(scope[k].field) # MaxWorkers
    <2> DEFINE f == scope[k].field
               n == Len(f) + 1
    <2>1. PICK b \in Blocks :
            /\ ~Live(b)
            /\ heap' = [heap EXCEPT ![b] = [size |-> 1, text |-> 0]]
            /\ scope' = [scope EXCEPT ![k].field = Append(@, b)]
            /\ UNCHANGED outcome
        BY <1>2 DEF Employ
    <2> DEFINE o == [scope[k] EXCEPT !.field = Append(f, b)]
    <2>2. /\ scope[k] \in Object /\ Sound(heap, scope[k])
          /\ scope \in Seq(Object) /\ Objects = DOMAIN scope
          /\ \A l \in DOMAIN scope : scope[l] \in Object /\ Sound(heap, scope[l])
          /\ heap \in [Blocks -> Block] /\ \A c \in Blocks : heap[c].size \in Nat
        BY InvFacts
    <2>3. /\ f \in Seq(Blocks \cup {Null, Dangling}) /\ Len(f) \in Nat /\ DOMAIN f = 1..Len(f)
          /\ Len(f) < MaxWorkers
        BY <1>2, <2>2, ObjectType, ObjectsAssumption DEF Sound, Fits, ObjectsAssumption
    <2>4. o \in Object /\ o.class = scope[k].class /\ o.field = Append(f, b)
        <3> DEFINE g == Append(f, b)
        <3>1. g \in Seq(Blocks \cup {Null, Dangling})
            BY <2>3
        <3> HIDE DEF g
        <3> QED
            BY <2>2, <3>1 DEF Object, g
    <2>5. /\ DOMAIN o.field = 1..n /\ Len(o.field) = n /\ n \in Nat /\ n <= MaxWorkers
          /\ \A i \in DOMAIN f : o.field[i] = f[i] /\ i \in DOMAIN o.field /\ i # n
          /\ o.field[n] = b /\ n \in DOMAIN o.field
          /\ \A i \in DOMAIN o.field : i = n \/ i \in DOMAIN f
        BY <2>3, <2>4, ObjectsAssumption DEF ObjectsAssumption
    <2>6. /\ heap' \in [Blocks -> Block] /\ heap[b].size = 0 /\ heap'[b].size > 0
          /\ \A c \in Blocks : c # b => heap'[c] = heap[c]
        BY <2>1, <2>2 DEF Live, Block
    <2>7. /\ scope' = [scope EXCEPT ![k] = o] /\ scope' \in Seq(Object)
          /\ DOMAIN scope' = DOMAIN scope /\ scope'[k] = o
          /\ \A l \in DOMAIN scope : l # k => scope'[l] = scope[l]
        BY <2>1, <2>2, <2>4
    <2> HIDE DEF o, f, n
    <2>8. \A c \in Blocks : heap[c].size > 0 => c # b /\ heap'[c] = heap[c]
        BY <2>6
    <2>9. \A i \in DOMAIN f : f[i] \in Blocks => heap[f[i]].size > 0 /\ f[i] # b
        BY <2>2, <2>8 DEF Sound, f
    <2>10. Sound(heap', o)
        <3>1. Fits(o.class, Len(o.field))
            BY <2>4, <2>5 DEF Fits, Handler, OfOne, OfTwo, OfThree
        <3>2. \A i \in DOMAIN o.field : o.field[i] # Null
            BY <2>2, <2>5, ObjectsAssumption DEF Sound, Handler, ObjectsAssumption, f
        <3>3. \A i \in DOMAIN o.field : o.field[i] \in Blocks => heap'[o.field[i]].size > 0
            BY <2>5, <2>6, <2>8, <2>9
        <3>4. \A i, j \in DOMAIN o.field :
                o.field[i] = o.field[j] /\ o.field[i] \in Blocks => i = j
            <4>1. \A i, j \in DOMAIN f : f[i] = f[j] /\ f[i] \in Blocks => i = j
                BY <2>2 DEF Sound, f
            <4> QED
                BY <2>5, <2>9, <4>1
        <3>5. o.class # "BoundCheckIntArray"
            BY <2>4 DEF Handler
        <3> QED
            BY <3>1, <3>2, <3>3, <3>4, <3>5 DEF Sound
    <2>11. Fine(heap', scope')
        <3>1. \A l \in DOMAIN scope : Sound(heap', scope[l]) 
            BY <2>2, <2>8, Survives, ObjectType
        <3> QED
            BY <2>6, <2>7, <2>10, <3>1 DEF Fine
    <2>12. ObjectsInv'
        BY <2>1, <2>11 DEF ObjectsInv, OthersStayDefined
    <2>13. ASSUME NEW at \in MembersOf(scope')
           PROVE  \/ at = <<k, n>> /\ TargetIn(scope', at) = b
                  \/ Stays(scope, {}, scope', at)
        <3>1. /\ at[1] \in DOMAIN scope /\ at[2] \in DOMAIN scope'[at[1]].field
              /\ at[2] \in 1..3 \cup 1..MaxWorkers /\ at = <<at[1], at[2]>>
            BY <2>7, OfMembers
        <3>2. CASE at[1] # k
            BY <2>7, <3>1, <3>2 DEF Stays, MembersOf, TargetIn
        <3>3. CASE at[1] = k /\ at[2] = n
            BY <2>5, <2>7, <3>1, <3>3 DEF TargetIn
        <3>4. CASE at[1] = k /\ at[2] # n
            <4>1. at[2] \in DOMAIN scope[k].field
                BY <2>5, <2>7, <3>1, <3>4 DEF f
            <4>2. at \in MembersOf(scope)
                BY <3>1, <3>4, <4>1 DEF MembersOf
            <4>3. TargetIn(scope', at) = TargetIn(scope, at)
                BY <2>5, <2>7, <3>4, <4>1 DEF TargetIn, f
            <4> QED
                BY <4>2, <4>3 DEF Stays
        <3> QED
            BY <3>2, <3>3, <3>4
    <2>14. {} \in SUBSET Blocks /\ \A at : TargetIn(scope, at) \notin {}
        OBVIOUS
    <2>15. \A at \in MembersOf(scope') :
             GetsNew(heap, {}, scope', at) \/ Stays(scope, {}, scope', at)
        BY <2>6, <2>13 DEF GetsNew
    <2>16. SharesNoMore
        BY <2>13, <2>14, <2>15, Sharing
    <2>17. DanglesWhereShared
        BY <2>14, <2>15, Dangles
    <2>18. LosesNoMore
        <3>1. ASSUME NEW c \in Blocks, c # b, NEW at \in MembersOf(scope),
                     TargetIn(scope, at) = c
              PROVE  at \in MembersOf(scope') /\ TargetIn(scope', at) = c
            <4>1. /\ at[1] \in DOMAIN scope /\ at[2] \in DOMAIN scope[at[1]].field
                  /\ at[2] \in 1..3 \cup 1..MaxWorkers /\ at = <<at[1], at[2]>>
                BY OfMembers
            <4>2. at[2] \in DOMAIN scope'[at[1]].field
                  /\ scope'[at[1]].field[at[2]] = scope[at[1]].field[at[2]]
                BY <2>5, <2>7, <4>1 DEF f
            <4> QED
                BY <2>7, <3>1, <4>1, <4>2 DEF MembersOf, TargetIn
        <3>2. <<k, n>> \in MembersOf(scope') /\ TargetIn(scope', <<k, n>>) = b
            <4>1. k \in DOMAIN scope' /\ n \in DOMAIN scope'[k].field
                BY <2>2, <2>5, <2>7
            <4>2. /\ <<k, n>> \in MembersOf(scope')
                  /\ TargetIn(scope', <<k, n>>) = scope'[k].field[n]
                BY ONLY <2>11, <4>1, MemberOf
            <4> QED
                BY <2>5, <2>7, <4>2
        <3>3. \A c \in Blocks : c # b => heap'[c] = heap[c]
            BY <2>6
        <3>4. ASSUME NEW c \in Blocks, heap'[c].size > 0
              PROVE  \/ \E at \in MembersOf(scope') : TargetIn(scope', at) = c
                     \/ /\ heap[c].size > 0
                        /\ \A at \in MembersOf(scope) : TargetIn(scope, at) = c =>
                             at \in MembersOf(scope') /\ TargetIn(scope', at) = c
            <4>1. CASE c = b
                BY <3>2, <4>1
            <4>2. CASE c # b
                BY <3>1, <3>3, <3>4, <4>2
            <4> QED
                BY <4>1, <4>2
        <3> QED
            BY <3>4, Losing
    <2> QED
        BY <2>12, <2>16, <2>17, <2>18 DEF Keeps
<1> QED
    BY <1>1, <1>2

LEMMA HandlersStep ==
    ASSUME ObjectsInv, outcome = "running", Handlers
    PROVE  Keeps
<1>1. ASSUME NEW class \in Handler, Declare(class, << >>, 0)
      PROVE  Keeps
    <2> DEFINE none == << >>
    <2>1. none \in Seq(Nat) /\ Len(none) = 0 /\ Declare(class, none, 0)
        BY <1>1
    <2> HIDE DEF none
    <2>2. class \in Classes /\ Fits(class, Len(none)) /\ class # "BoundCheckIntArray"
        BY <2>1, ObjectsAssumption
           DEF ObjectsAssumption, Classes, Fits, Handler, OfOne, OfTwo, OfThree
    <2> QED
        BY <2>1, <2>2, DeclareOther
<1>2. EmployeeHandler \/ StaffHandler => Keeps
    BY <1>1 DEF EmployeeHandler, StaffHandler, Handler
<1>3. DropEmployeeHandler => Keeps
    BY DestroyStep DEF DropEmployeeHandler
<1>4. ASSUME DropStaffHandler
      PROVE  Keeps
    <2>1. Len(scope) \in Objects
        BY <1>4, InvFacts DEF DropStaffHandler
    <2>2. scope[Len(scope)].field # << >> => HasCause(Len(scope))
        BY <1>4 DEF DropStaffHandler, HasCause
    <2> QED
        BY <1>4, <2>1, <2>2, BrokenStep, DestroyStep DEF DropStaffHandler
<1>5. ASSUME NEW k \in Objects, AddEmployee(k) \/ AddStaff(k)
      PROVE  Keeps
    BY <1>5, EmployStep DEF AddEmployee, AddStaff, Is, Handler
<1> QED
    BY <1>2, <1>3, <1>4, <1>5 DEF Handlers

-----------------------------------------------------------------------------
(***************************************************************************)
(* Strings.                                                                *)
(***************************************************************************)
\* A String is an object with one pointer.
LEMMA StringType ==
    ASSUME NEW b \in Blocks \cup {Null}, NEW n \in Int, NEW h,
           b \in Blocks => h[b].size > 0
    PROVE  LET o == [class |-> "String", field |-> <<b>>, len |-> n]
           IN  /\ o \in Object /\ Sound(h, o)
               /\ DOMAIN o.field = {1} /\ o.field[1] = b /\ o.class = "String"
<1> DEFINE f == <<b>>
           o == [class |-> "String", field |-> f, len |-> n]
<1>1. f \in Seq(Blocks \cup {Null, Dangling}) /\ DOMAIN f = {1} /\ Len(f) = 1 /\ f[1] = b
    OBVIOUS
<1> HIDE DEF f
<1>2. "String" \in Classes
    BY DEF Classes, OfOne
<1>3. o \in Object /\ o.field = f /\ o.class = "String"
    BY <1>1, <1>2 DEF Object
<1> HIDE DEF o
<1>4. Sound(h, o)
    BY <1>1, <1>3 DEF Sound, Fits, Handler, OfOne, OfTwo, OfThree
<1> QED
    BY <1>1, <1>3, <1>4 DEF o, f

\* One String more, with a new block.
LEMMA MoreStrings ==
    ASSUME ObjectsInv, outcome = "running",
           NEW b \in Blocks, ~Live(b), NEW e \in Block, e.size > 0, NEW n \in Int,
           heap' = [heap EXCEPT ![b] = e],
           scope' = Append(scope, [class |-> "String", field |-> <<b>>, len |-> n]),
           UNCHANGED outcome
    PROVE  Keeps
<1> DEFINE o == [class |-> "String", field |-> <<b>>, len |-> n]
<1>1. /\ heap \in [Blocks -> Block] /\ heap' \in [Blocks -> Block]
      /\ heap[b].size = 0 /\ heap'[b].size > 0
      /\ \A c \in Blocks : c # b => heap'[c] = heap[c]
    BY InvFacts DEF Live
<1>2. /\ o \in Object /\ Sound(heap', o)
      /\ DOMAIN o.field = {1} /\ o.field[1] = b /\ o.class = "String"
    BY <1>1, StringType
<1>3. scope' = Append(scope, o)
    OBVIOUS
<1> HIDE DEF o
<1>4. /\ \A i \in DOMAIN o.field : o.field[i] \in Blocks /\ heap[o.field[i]].size = 0
      /\ \A c \in Blocks : (\A i \in DOMAIN o.field : o.field[i] # c) => heap'[c] = heap[c]
    BY <1>1, <1>2
<1> QED
    BY <1>1, <1>2, <1>3, <1>4, OneMore

\* What a String can be copied from.
LEMMA CopyType ==
    ASSUME ObjectsInv, NEW k \in Objects, Is(k, "String"), Copyable(k)
    PROVE  /\ Duplicate(k) \in Block /\ Duplicate(k).size > 0
           /\ scope[k].len \in Int
           /\ \A b : [scope[k] EXCEPT !.field = <<b>>]
                       = [class |-> "String", field |-> <<b>>, len |-> scope[k].len]
<1>1. scope[k] \in Object /\ scope[k].len \in Int
    BY InvFacts DEF Object
<1>2. Text(k, 1) \in Nat /\ Text(k, 1) < scope[k].len
    BY InvFacts DEF Copyable, Text
<1>3. scope[k].len \in Nat /\ scope[k].len > 0
    BY <1>1, <1>2
<1>4. Duplicate(k) \in Block /\ Duplicate(k).size > 0
    BY <1>2, <1>3 DEF Duplicate, Block
<1>5. ASSUME NEW b
      PROVE  [scope[k] EXCEPT !.field = <<b>>]
                       = [class |-> "String", field |-> <<b>>, len |-> scope[k].len]
    BY <1>1 DEF Object, Is
<1> QED
    BY <1>1, <1>4, <1>5

\* operator= deletes the old text and may get the same block again.
LEMMA AssignStep ==
    ASSUME ObjectsInv, outcome = "running", NEW k \in Objects, NEW j \in Objects, Assign(k, j)
    PROVE  Keeps
<1>1. Is(k, "String") /\ Is(j, "String")
    BY DEF Assign
<1>2. CASE ~(k # j /\ Copyable(j))
    BY <1>1, <1>2, BrokenStep DEF Assign, HasCause, Is
<1>3. CASE k # j /\ Copyable(j)
    <2> DEFINE gone == {scope[k].field[1]} \cap Blocks
    <2>1. PICK b \in Blocks :
            /\ ~Live(b) \/ b \in gone
            /\ heap' = [Without(gone) EXCEPT ![b] = Duplicate(j)]
            /\ scope' = [l \in Objects |->
                          IF l = k THEN [scope[j] EXCEPT !.field = <<b>>]
                          ELSE CutOff(scope[l], gone)]
            /\ UNCHANGED outcome
        BY <1>3 DEF Assign
    <2> DEFINE o == [class |-> "String", field |-> <<b>>, len |-> scope[j].len]
    <2>2. /\ scope[k] \in Object /\ Sound(heap, scope[k])
          /\ scope \in Seq(Object) /\ Objects = DOMAIN scope
          /\ DOMAIN scope = 1..Len(scope) /\ Len(scope) \in Nat
          /\ \A l \in DOMAIN scope : scope[l] \in Object /\ Sound(heap, scope[l])
          /\ heap \in [Blocks -> Block] /\ \A c \in Blocks : heap[c].size \in Nat
        BY InvFacts
    <2>3. DOMAIN scope[k].field = {1}
        BY <1>1, <2>2, ObjectType DEF Sound, Fits, OfOne, Is
    <2>4. /\ Duplicate(j) \in Block /\ Duplicate(j).size > 0 /\ scope[j].len \in Int
          /\ [scope[j] EXCEPT !.field = <<b>>] = o
        BY <1>1, <1>3, CopyType
    <2>5. /\ heap' \in [Blocks -> Block] /\ heap'[b].size > 0
          /\ \A c \in gone : c # b => heap'[c].size = 0
          /\ \A c \in Blocks : c # b /\ c \notin gone => heap'[c] = heap[c]
        <3>1. Without(gone) \in [Blocks -> Block]
            BY <2>2, UnusedType DEF Without
        <3>2. /\ heap'[b] = Duplicate(j)
              /\ \A c \in Blocks : c # b => heap'[c] = Without(gone)[c]
            BY <2>1, <3>1
        <3>3. \A c \in Blocks : Without(gone)[c] = IF c \in gone THEN Unused ELSE heap[c]
            BY DEF Without
        <3>4. gone \subseteq Blocks /\ Unused.size = 0
            BY DEF Unused
        <3> HIDE DEF gone
        <3> QED
            BY <2>1, <2>4, <3>1, <3>2, <3>3, <3>4
    <2>6. /\ o \in Object /\ Sound(heap', o)
          /\ DOMAIN o.field = {1} /\ o.field[1] = b /\ o.class = "String"
        BY <2>4, <2>5, StringType
    <2>7. scope' = [l \in DOMAIN scope |-> IF l = k THEN o ELSE CutOff(scope[l], gone)]
        BY <2>1, <2>2, <2>4
    <2>8. heap[b].size = 0 \/ b \in gone
        BY <2>1, <2>2 DEF Live
    <2>9. gone \subseteq Blocks /\ \A c \in gone : scope[k].field[1] = c
        OBVIOUS
    <2>10. \A c \in Blocks : scope[k].field[1] = c => c \in gone
        OBVIOUS
    <2> HIDE DEF gone, o
    <2>11. \A c \in Blocks \ gone : heap[c].size > 0 => heap'[c] = heap[c]
        <3>1. \A c \in Blocks \ gone : heap[c].size > 0 => c # b
            BY <2>8
        <3> QED
            BY <2>5, <3>1
    <2>12. ASSUME NEW l \in DOMAIN scope, l # k
           PROVE  /\ scope'[l] \in Object /\ Sound(heap', scope'[l])
                  /\ DOMAIN scope'[l].field = DOMAIN scope[l].field
                  /\ \A i \in DOMAIN scope[l].field :
                       scope'[l].field[i] = IF scope[l].field[i] \in gone THEN Dangling
                                            ELSE scope[l].field[i]
        <3>1. scope'[l] = CutOff(scope[l], gone) /\ scope[l] \in Object /\ Sound(heap, scope[l])
            BY <2>2, <2>7, <2>12
        <3>2. CutOff(scope[l], gone) \in Object /\ Sound(heap', CutOff(scope[l], gone))
            BY <2>9, <2>11, <3>1, SurvivesCut
        <3> QED
            BY <2>9, <3>1, <3>2, CutOffIs
    <2>13. scope'[k] = o /\ DOMAIN scope' = DOMAIN scope /\ k \in DOMAIN scope
        BY <2>2, <2>7
    <2>14. scope' \in Seq(Object)
        <3>1. scope' \in [1..Len(scope) -> Object]
            BY <2>2, <2>6, <2>7, <2>12, <2>13
        <3> QED
            BY <2>2, <3>1
    <2>15. Fine(heap', scope')
        BY <2>5, <2>6, <2>12, <2>13, <2>14 DEF Fine
    <2>16. ObjectsInv'
        BY <2>1, <2>15 DEF ObjectsInv, OthersStayDefined
    <2>17. ASSUME NEW at \in MembersOf(scope')
           PROVE  \/ at = <<k, 1>> /\ TargetIn(scope', at) = b
                  \/ at # <<k, 1>> /\ Stays(scope, gone, scope', at)
        <3>1. /\ at[1] \in DOMAIN scope /\ at[2] \in DOMAIN scope'[at[1]].field
              /\ at[2] \in 1..3 \cup 1..MaxWorkers /\ at = <<at[1], at[2]>>
            BY <2>13, OfMembers
        <3>2. CASE at[1] = k
            BY <2>6, <2>13, <3>1, <3>2 DEF TargetIn
        <3>3. CASE at[1] # k
            <4>1. at[2] \in DOMAIN scope[at[1]].field
                BY <2>12, <3>1, <3>3
            <4>2. at \in MembersOf(scope)
                BY <3>1, <4>1 DEF MembersOf
            <4>3. at # <<k, 1>>
                BY <3>3
            <4> QED
                BY <2>12, <3>1, <3>3, <4>1, <4>2, <4>3 DEF Stays, TargetIn
        <3> QED
            BY <3>2, <3>3
    <2>18. \A at \in MembersOf(scope') :
             GetsNew(heap, gone, scope', at) \/ Stays(scope, gone, scope', at)
        BY <2>8, <2>17 DEF GetsNew
    <2>19. SharesNoMore
        BY <2>9, <2>17, <2>18, Sharing
    <2>20. <<k, 1>> \in MembersOf(scope) /\ TargetIn(scope, <<k, 1>>) = scope[k].field[1]
        <3>1. k \in DOMAIN scope /\ 1 \in DOMAIN scope[k].field
            BY <2>3, <2>13
        <3> QED
            BY <3>1, MemberOf DEF ObjectsInv
    <2>21. DanglesWhereShared
        <3>1. ASSUME NEW at \in MembersOf(scope'), Stays(scope, gone, scope', at),
                     TargetIn(scope, at) \in gone
              PROVE  \E q \in MembersOf(scope) :
                       q # at /\ TargetIn(scope, q) = TargetIn(scope, at)
            <4>1. at # <<k, 1>>
                <5>1. SUFFICES ASSUME at = <<k, 1>> PROVE FALSE
                    OBVIOUS
                <5>2. TargetIn(scope', at) = b /\ TargetIn(scope', at) = Dangling
                    BY <2>17, <3>1, <5>1 DEF Stays
                <5> QED
                    BY <5>2, ObjectsAssumption DEF ObjectsAssumption
            <4> QED
                BY <2>9, <2>20, <3>1, <4>1
        <3> QED
            BY <2>9, <2>18, <3>1, Dangles
    <2>22. LosesNoMore
        <3>1. <<k, 1>> \in MembersOf(scope') /\ TargetIn(scope', <<k, 1>>) = b
            <4>1. k \in DOMAIN scope' /\ 1 \in DOMAIN scope'[k].field
                BY <2>6, <2>13
            <4>2. /\ <<k, 1>> \in MembersOf(scope')
                  /\ TargetIn(scope', <<k, 1>>) = scope'[k].field[1]
                BY ONLY <2>15, <4>1, MemberOf
            <4> QED
                BY <2>6, <2>13, <4>2
        <3>2. ASSUME NEW c \in Blocks, c # b, heap'[c].size > 0
              PROVE  /\ heap[c].size > 0
                     /\ \A at \in MembersOf(scope) : TargetIn(scope, at) = c =>
                          at \in MembersOf(scope') /\ TargetIn(scope', at) = c
            <4>1. c \notin gone /\ heap[c].size > 0
                <5>1. c \notin gone
                    BY <2>5, <3>2
                <5> QED
                    BY <2>5, <3>2, <5>1
            <4>2. ASSUME NEW at \in MembersOf(scope), TargetIn(scope, at) = c
                  PROVE  at \in MembersOf(scope') /\ TargetIn(scope', at) = c
                <5>1. /\ at[1] \in DOMAIN scope /\ at[2] \in DOMAIN scope[at[1]].field
                      /\ at[2] \in 1..3 \cup 1..MaxWorkers /\ at = <<at[1], at[2]>>
                    BY OfMembers
                <5>2. at[1] # k
                    BY <2>3, <2>10, <4>1, <4>2, <5>1 DEF TargetIn
                <5>3. /\ at[2] \in DOMAIN scope'[at[1]].field
                      /\ scope'[at[1]].field[at[2]] = c
                    BY <2>12, <4>1, <4>2, <5>1, <5>2 DEF TargetIn
                <5> QED
                    BY <2>13, <5>1, <5>3 DEF MembersOf, TargetIn
            <4> QED
                BY <4>1, <4>2
        <3>3. ASSUME NEW c \in Blocks, heap'[c].size > 0
              PROVE  \/ \E at \in MembersOf(scope') : TargetIn(scope', at) = c
                     \/ /\ heap[c].size > 0
                        /\ \A at \in MembersOf(scope) : TargetIn(scope, at) = c =>
                             at \in MembersOf(scope') /\ TargetIn(scope', at) = c
            BY <3>1, <3>2, <3>3
        <3> QED
            BY <3>3, Losing
    <2> QED
        BY <2>16, <2>19, <2>21, <2>22 DEF Keeps
<1> QED
    BY <1>2, <1>3

\* operator+= leaves the text as it is.
LEMMA AddAssignStep ==
    ASSUME ObjectsInv, outcome = "running", NEW k \in Objects, NEW j \in Objects,
           AddAssign(k, j)
    PROVE  Keeps
<1>1. Is(k, "String") /\ Is(j, "String")
    BY DEF AddAssign
<1>2. CASE Broken
    BY <1>1, <1>2, BrokenStep DEF HasCause, Is
<1>3. CASE /\ scope' = [scope EXCEPT ![k].len = @ + scope[j].len - 1]
           /\ UNCHANGED <<heap, outcome>>
    <2> DEFINE p == scope[k]
               n == p.len + scope[j].len - 1
               o == [p EXCEPT !.len = n]
    <2>1. /\ p \in Object /\ Sound(heap, p) /\ scope[j] \in Object
          /\ heap \in [Blocks -> Block] /\ scope \in Seq(Object) /\ k \in DOMAIN scope
          /\ \A l \in DOMAIN scope : scope[l] \in Object /\ Sound(heap, scope[l])
        BY InvFacts
    <2>2. n \in Int
        BY <2>1 DEF Object
    <2> HIDE DEF n
    <2>3. o \in Object /\ o.field = p.field /\ o.class = p.class
        BY <2>1, <2>2 DEF Object
    <2>4. scope' = [scope EXCEPT ![k] = o]
        BY <1>3 DEF n
    <2> HIDE DEF o
    <2>5. Sound(heap, o)
        BY <1>1, <2>1, <2>3 DEF Sound, Is
    <2>6. /\ scope' \in Seq(Object) /\ DOMAIN scope' = DOMAIN scope
          /\ \A l \in DOMAIN scope : scope'[l] = scope[l] \/ (scope'[l] = o /\ l = k)
        BY <2>1, <2>3, <2>4
    <2>7. \A l \in DOMAIN scope : scope'[l].field = scope[l].field
        BY <2>3, <2>6
    <2>8. heap' = heap /\ outcome' = outcome
        BY <1>3
    <2>9. ObjectsInv'
        BY <2>1, <2>5, <2>6, <2>8 DEF ObjectsInv, Fine, OthersStayDefined
    <2>10. MembersOf(scope') = MembersOf(scope)
        BY <2>6, <2>7 DEF MembersOf
    <2>11. \A at \in MembersOf(scope) : TargetIn(scope', at) = TargetIn(scope, at)
        BY <2>7, OfMembers DEF TargetIn
    <2>12. \A at \in MembersOf(scope') : Stays(scope, {}, scope', at)
        BY <2>10, <2>11 DEF Stays
    <2>13. {} \in SUBSET Blocks /\ \A at : TargetIn(scope, at) \notin {}
        OBVIOUS
    <2>14. SharesNoMore
        BY <2>12, <2>13, Sharing
    <2>15. DanglesWhereShared
        BY <2>12, <2>13, Dangles
    <2>16. LosesNoMore
        BY <2>8, <2>10, <2>11, Losing
    <2> QED
        BY <2>9, <2>14, <2>15, <2>16 DEF Keeps
<1> QED
    BY <1>2, <1>3 DEF AddAssign

LEMMA StringsStep ==
    ASSUME ObjectsInv, outcome = "running", Strings
    PROVE  Keeps
<1>1. ASSUME EmptyString
      PROVE  Keeps
    <2> DEFINE o == [class |-> "String", field |-> <<Null>>, len |-> 0]
    <2>1. scope' = Append(scope, o) /\ heap' = heap /\ outcome' = outcome
        BY <1>1 DEF EmptyString
    <2>2. /\ o \in Object /\ Sound(heap', o)
          /\ DOMAIN o.field = {1} /\ o.field[1] = Null /\ o.class = "String"
        BY StringType, ObjectsAssumption DEF ObjectsAssumption
    <2> HIDE DEF o
    <2>3. \A i \in DOMAIN o.field : o.field[i] = Null
        BY <2>2
    <2>4. heap' \in [Blocks -> Block]
        BY <2>1, InvFacts
    <2> QED
        BY <2>1, <2>2, <2>3, <2>4, OneMore
<1>2. ASSUME NEW s \in Texts, StringOf(s)
      PROVE  Keeps
    <2> DEFINE e == [size |-> s + 1, text |-> s]
    <2>1. PICK b \in Blocks :
            /\ ~Live(b) /\ heap' = [heap EXCEPT ![b] = e]
            /\ scope' = Append(scope, [class |-> "String", field |-> <<b>>, len |-> s + 1])
        BY <1>2 DEF StringOf
    <2>2. s + 1 \in Int /\ e \in Block /\ e.size > 0
        BY ObjectsAssumption DEF ObjectsAssumption, Block
    <2>3. UNCHANGED outcome
        BY <1>2 DEF StringOf
    <2> HIDE DEF e
    <2> QED
        BY <2>1, <2>2, <2>3, MoreStrings
<1>3. ASSUME NEW k \in Objects, CopyString(k)
      PROVE  Keeps
    <2>1. Is(k, "String")
        BY <1>3 DEF CopyString
    <2>2. CASE Copyable(k)
        <3>1. PICK b \in Blocks :
                /\ ~Live(b) /\ heap' = [heap EXCEPT ![b] = Duplicate(k)]
                /\ scope' = Append(scope, [scope[k] EXCEPT !.field = <<b>>])
                /\ UNCHANGED outcome
            BY <1>3, <2>2 DEF CopyString
        <3> QED
            BY <2>1, <2>2, <3>1, CopyType, MoreStrings
    <2>3. CASE ~Copyable(k)
        BY <1>3, <2>1, <2>3, BrokenStep DEF CopyString, HasCause, Is
    <2> QED
        BY <2>2, <2>3
<1>4. DropString => Keeps
    BY DestroyStep DEF DropString
<1> QED
    BY <1>1, <1>2, <1>3, <1>4, AssignStep, AddAssignStep DEF Strings

-----------------------------------------------------------------------------
(***************************************************************************)
(* The program.                                                            *)
(***************************************************************************)
LEMMA ObjectsInitially == ObjectsInit => ObjectsInv
<1> SUFFICES ASSUME ObjectsInit PROVE ObjectsInv
    OBVIOUS
<1>1. heap \in [Blocks -> Block] /\ scope \in Seq(Object) /\ DOMAIN scope = {}
    BY UnusedType DEF ObjectsInit
<1>2. Fine(heap, scope)
    BY <1>1 DEF Fine
<1> QED
    BY <1>2 DEF ObjectsInit, ObjectsInv, OthersStayDefined

\* Every step keeps the invariant, and what OneOwner says of it.
OwnersStay ==
    LET copied == \E k \in Objects : ImplicitCopy(k)
        assigned == \E k, j \in Objects : ImplicitAssign(k, j)
    IN  /\ copied \/ assigned \/ SharesNoMore
        /\ assigned \/ DropDataStorage \/ LosesNoMore
        /\ copied \/ assigned \/ DanglesWhereShared

LEMMA ObjectsStepKeeps ==
    ASSUME ObjectsInv, [ObjectsNext]_vars
    PROVE  ObjectsInv' /\ OwnersStay
<1>1. CASE UNCHANGED vars
    <2>1. heap' = heap /\ scope' = scope /\ outcome' = outcome
        BY <1>1 DEF vars
    <2>2. ObjectsInv'
        BY <2>1 DEF ObjectsInv, OthersStayDefined, Is, Readable, Objects
    <2> QED
        BY <2>1, <2>2, SameOwners DEF OwnersStay
<1>2. CASE outcome = "running" /\ ObjectsStep
    <2>1. ASSUME Keeps
          PROVE  ObjectsInv' /\ OwnersStay
        BY <2>1 DEF Keeps, OwnersStay
    <2>2. CASE Cards \/ People \/ Books \/ Arrays \/ Pointers \/ Bases \/ Handlers \/ Strings
        BY <1>2, <2>1, <2>2, CardsStep, PeopleStep, BooksStep, ArraysStep, PointersStep,
           BasesStep, HandlersStep, StringsStep
    <2>3. CASE Storages
        BY <1>2, <2>3, StoragesStep DEF OwnersStay
    <2>4. CASE \E k \in Objects : ImplicitCopy(k)
        BY <1>2, <2>4, ImplicitCopyStep DEF OwnersStay
    <2>5. CASE \E k, j \in Objects : ImplicitAssign(k, j)
        BY <1>2, <2>5, ImplicitAssignStep DEF OwnersStay
    <2>6. CASE \E k \in Objects : Show(k)
        BY <1>2, <2>1, <2>6, ShowStep
    <2> QED
        BY <1>2, <2>2, <2>3, <2>4, <2>5, <2>6 DEF ObjectsStep, Implicit
<1> QED
    BY <1>1, <1>2 DEF ObjectsNext

LEMMA ObjectsStays == ObjectsInv /\ [ObjectsNext]_vars => ObjectsInv'
BY ObjectsStepKeeps

LEMMA ObjectsAlways == ObjectsSpec => []ObjectsInv
BY ObjectsInitially, ObjectsStays, PTL DEF ObjectsSpec

(***************************************************************************)
(* The types of the objects and blocks, for every number of them; empList  *)
(* is never longer than MaxWorkers (EmployeeHandler).                      *)
(***************************************************************************)
THEOREM ObjectsKeepTypes == ObjectsSpec => []ObjectsTypeOK
<1>1. ObjectsInv => ObjectsTypeOK
    BY DEF ObjectsInv, ObjectsTypeOK, Fine, Sound, Fits, Objects
<1> QED
    BY <1>1, ObjectsAlways, PTL

(***************************************************************************)
(* For every number of objects and blocks, all lengths of texts and every  *)
(* choice of addresses by new: only a copy or an assignment that the       *)
(* compiler writes shares a block, only its assignment or the end of a     *)
(* DataStorage loses one, and a pointer dangles only where it was shared.  *)
(* What the exercises write themselves keeps every block with its owner.   *)
(***************************************************************************)
THEOREM BlocksHaveOneOwner == ObjectsSpec => OneOwner
<1>1. ObjectsInv /\ [ObjectsNext]_vars => [OwnersStay]_vars
    BY ObjectsStepKeeps
<1>2. OwnersStay =>
        LET copied == \E k \in Objects : ImplicitCopy(k)
            assigned == \E k, j \in Objects : ImplicitAssign(k, j)
        IN  /\ copied \/ assigned \/ \A b \in Blocks : Shared(b)' => Shared(b)
            /\ assigned \/ DropDataStorage \/ \A b \in Blocks : Lost(b)' => Lost(b)
            /\ copied \/ assigned
               \/ \A at \in Owners(Dangling)' :
                    at \in Members /\ (Target(at) = Dangling \/ Shared(Target(at)))
    BY DEF OwnersStay, SharesNoMore, LosesNoMore, DanglesWhereShared
<1> QED
    BY <1>1, <1>2, ObjectsAlways, PTL DEF ObjectsSpec, OneOwner

(***************************************************************************)
(* Undefined behaviour has one of the causes that OthersStayDefined lists: *)
(* no constructor, copy or destructor that an exercise declares deletes a  *)
(* block twice, reads a deleted one or leaves an array.                    *)
(***************************************************************************)
THEOREM UndefinedHasItsCause == ObjectsSpec => []OthersStayDefined
<1>1. ObjectsInv => OthersStayDefined
    BY DEF ObjectsInv
<1> QED
    BY <1>1, ObjectsAlways, PTL

=============================================================================
