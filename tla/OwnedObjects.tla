----------------------------- MODULE OwnedObjects -----------------------------
(***************************************************************************)
(* The classes of the C++ exercises that own memory through raw pointers,  *)
(* and a program that declares objects of them and uses them as C++ allows:*)
(* it makes them with the constructors that their classes declare, or by a *)
(* copy, assigns one to another of its class, reads them, and destroys     *)
(* them in the reverse order, as automatic variables are.  The mains of    *)
(* the exercises are such programs.  Where a class declares no copy        *)
(* constructor or no assignment the compiler writes it, and it copies the  *)
(* pointers.  After undefined behaviour nothing happens any more.          *)
(***************************************************************************)
EXTENDS Integers, Sequences

CONSTANTS
    Blocks,       \* addresses that new may give
    Null,
    Dangling,     \* a pointer whose block was deleted
    Texts,        \* lengths of the texts the objects are made of
    MaxObjects,   \* bound: objects at a time
    MaxLen,       \* bound: what a String takes for its length
    MaxWorkers    \* of empList (50 in the code)

ASSUME ObjectsAssumption ==
    /\ Null \notin Blocks /\ Dangling \notin Blocks /\ Null # Dangling
    /\ Texts \subseteq Nat
    /\ MaxObjects \in Nat /\ MaxLen \in Nat /\ MaxWorkers \in Nat

VARIABLES
    heap,      \* block -> its size, the text in it
    scope,     \* the objects: class, owning pointers, len (arrlen of an array)
    outcome

vars == <<heap, scope, outcome>>

Objects == DOMAIN scope
Is(k, class) == scope[k].class = class

Unused == [size |-> 0, text |-> 0]
Live(b) == heap[b].size > 0

\* The text of a member, with strlen.
Text(k, i) == heap[scope[k].field[i]].text

ObjectsInit ==
    /\ heap = [b \in Blocks |-> Unused]
    /\ scope = << >>
    /\ outcome = "running"

Broken == outcome' = "undefined" /\ UNCHANGED <<heap, scope>>

-----------------------------------------------------------------------------
(***************************************************************************)
(* new and delete.  Of what is no text, a Point or an array of numbers,    *)
(* only the size matters.                                                  *)
(***************************************************************************)
Fresh(n, free) ==
    {at \in [1..n -> free] : \A i, j \in 1..n : at[i] = at[j] => i = j}

\* Every new char[strlen(text) + 1] with its strcpy.
Holding(h, at, texts) ==
    [b \in Blocks |->
       IF \E i \in DOMAIN at : at[i] = b
       THEN LET i == CHOOSE n \in DOMAIN at : at[n] = b
            IN  [size |-> texts[i] + 1, text |-> texts[i]]
       ELSE h[b]]

Declare(class, texts, len) ==
    /\ Len(scope) < MaxObjects
    /\ \E at \in Fresh(Len(texts), {b \in Blocks : ~Live(b)}) :
         /\ heap' = Holding(heap, at, texts)
         /\ scope' = Append(scope, [class |-> class, field |-> at, len |-> len])
    /\ UNCHANGED outcome

\* delete: the blocks are unused, and whoever points to them dangles.
Without(blocks) == [b \in Blocks |-> IF b \in blocks THEN Unused ELSE heap[b]]

CutOff(o, blocks) ==
    [o EXCEPT !.field =
       [i \in DOMAIN @ |-> IF @[i] \in blocks THEN Dangling ELSE @[i]]]

\* The last object goes: its destructor deletes what its members point to.  A
\* null pointer may be deleted.
Destroy(class) ==
    LET k == Len(scope)
        o == scope[k]
        owned == {i \in DOMAIN o.field : o.field[i] # Null}
        blocks == {o.field[i] : i \in owned}
    IN  /\ scope # << >> /\ Is(k, class)
        /\ IF Dangling \notin blocks
              /\ \A i, j \in owned : o.field[i] = o.field[j] => i = j
           THEN /\ heap' = Without(blocks)
                /\ scope' = [m \in 1..(k - 1) |-> CutOff(scope[m], blocks)]
                /\ UNCHANGED outcome
           ELSE Broken

\* What reads the members of an object follows its pointers.
Readable(k) == \A i \in DOMAIN scope[k].field : scope[k].field[i] # Dangling

-----------------------------------------------------------------------------
(***************************************************************************)
(* What the compiler writes: a copy constructor and an assignment that     *)
(* take over the pointers.  NameCard (05-1) and Person declare a copy      *)
(* constructor, String both; the MAX_LEN of a DataStorage is constant.     *)
(***************************************************************************)
CompilerCopies ==
    {"FirstNameCard", "Book", "EBook", "SmartPtr", "BoundCheckIntArray",
     "EmployeeHandler", "StaffHandler", "DataStorage"}

CompilerAssigns == (CompilerCopies \ {"DataStorage"}) \cup {"NameCard", "Person"}

ImplicitCopy(k) ==
    /\ scope[k].class \in CompilerCopies /\ Len(scope) < MaxObjects
    /\ scope' = Append(scope, scope[k])
    /\ UNCHANGED <<heap, outcome>>

ImplicitAssign(k, j) ==
    /\ scope[k].class \in CompilerAssigns /\ Is(j, scope[k].class)
    /\ scope' = [scope EXCEPT ![k] = scope[j]]
    /\ UNCHANGED <<heap, outcome>>

(***************************************************************************)
(* What reads an object: ShowNameCardInfo, ShowPersonInfo, ShowBookInfo,   *)
(* operator* and ->, ShowTotalSalary (07), ShowAllData.                    *)
(***************************************************************************)
Showable ==
    {"FirstNameCard", "NameCard", "Person", "Book", "EBook", "SmartPtr",
     "EmployeeHandler", "DataStorage"}

Show(k) ==
    /\ scope[k].class \in Showable
    /\ IF Readable(k) THEN UNCHANGED vars ELSE Broken

-----------------------------------------------------------------------------
(***************************************************************************)
(* NameCard, without a copy constructor (04-3) and with one (05-1).        *)
(***************************************************************************)
FirstNameCard(name, comname, tel) ==
    Declare("FirstNameCard", <<name, comname, tel>>, 0)

DropFirstNameCard == Destroy("FirstNameCard")

NameCard(name, comname, tel) == Declare("NameCard", <<name, comname, tel>>, 0)

CopyNameCard(k) ==
    /\ Is(k, "NameCard")
    /\ IF Readable(k) THEN NameCard(Text(k, 1), Text(k, 2), Text(k, 3)) ELSE Broken

DropNameCard == Destroy("NameCard")

(***************************************************************************)
(* Person (05, practice): the copy first takes the pointer of the other    *)
(* person, then a block of its own.                                        *)
(***************************************************************************)
Person(name) == Declare("Person", <<name>>, 0)

\* Mutant: the copy keeps the pointer that its initialiser took.
CopyPersonShallow(k) ==
    /\ Is(k, "Person") /\ Len(scope) < MaxObjects
    /\ scope' = Append(scope, scope[k]) /\ UNCHANGED <<heap, outcome>>

CopyPerson(k) ==
    /\ Is(k, "Person")
    /\ IF Readable(k) THEN Person(Text(k, 1)) ELSE Broken

DropPerson == Destroy("Person")

(***************************************************************************)
(* Book and EBook (07-2-2).  The destructor of Book runs after EBook's.    *)
(***************************************************************************)
Book(title, isbn) == Declare("Book", <<title, isbn>>, 0)
DropBook == Destroy("Book")

EBook(title, isbn, key) == Declare("EBook", <<title, isbn, key>>, 0)
DropEBook == Destroy("EBook")

(***************************************************************************)
(* SmartPtr owns the Point that is made for it.                            *)
(***************************************************************************)
SmartPtr == Declare("SmartPtr", <<0>>, 0)
DropSmartPtr == Destroy("SmartPtr")

(***************************************************************************)
(* BoundCheckIntArray: an index that is not in the array ends the program. *)
(***************************************************************************)
BoundCheckIntArray(len) == Declare("BoundCheckIntArray", <<len - 1>>, len)

\* arr[idx].
InArray(k, idx) ==
    LET arr == scope[k].field[1]
    IN  IF arr # Dangling /\ idx < heap[arr].size THEN UNCHANGED vars ELSE Broken

\* Mutant: the index one behind the last element passes.
ElementOneMore(k, idx) ==
    /\ Is(k, "BoundCheckIntArray")
    /\ IF idx < 0 \/ idx > scope[k].len
       THEN outcome' = "exited" /\ UNCHANGED <<heap, scope>>
       ELSE InArray(k, idx)

Element(k, idx) ==
    /\ Is(k, "BoundCheckIntArray")
    /\ IF idx < 0 \/ idx >= scope[k].len
       THEN outcome' = "exited" /\ UNCHANGED <<heap, scope>>
       ELSE InArray(k, idx)

DropBoundCheckIntArray == Destroy("BoundCheckIntArray")

(***************************************************************************)
(* DataStorage has no destructor: its array is not given back.  It is the  *)
(* first thing that main makes; what a program that made many of them      *)
(* would lose is not followed.                                             *)
(***************************************************************************)
DataStorage(arrlen) ==
    (\A b \in Blocks : ~Live(b)) /\ Declare("DataStorage", <<arrlen - 1>>, 0)

DropDataStorage ==
    /\ scope # << >> /\ Is(Len(scope), "DataStorage")
    /\ scope' = SubSeq(scope, 1, Len(scope) - 1)
    /\ UNCHANGED <<heap, outcome>>

(***************************************************************************)
(* Objects that are deleted through a pointer to their base class, whose   *)
(* destructor is not virtual: that is undefined.  A Second is deleted as a *)
(* First, and of the three operands of the delete in ObjectPointer the     *)
(* first is deleted, a Student, as a Person.                               *)
(***************************************************************************)
Second(str1, str2) == Declare("Second", <<str1, str2>>, 0)
DropSecond == scope # << >> /\ Is(Len(scope), "Second") /\ Broken

Students == Declare("Students", <<0, 0, 0>>, 0)
DropStudents == scope # << >> /\ Is(Len(scope), "Students") /\ Broken

-----------------------------------------------------------------------------
(***************************************************************************)
(* EmployeeHandler (07 and 08) owns the workers that main makes for it.    *)
(* empNum is not compared with the size of empList.                        *)
(***************************************************************************)
EmployeeHandler == Declare("EmployeeHandler", << >>, 0)

Employ(k) ==
    IF Len(scope[k].field) = MaxWorkers THEN Broken
    ELSE \E b \in Blocks :
           /\ ~Live(b)
           /\ heap' = [heap EXCEPT ![b] = [size |-> 1, text |-> 0]]
           /\ scope' = [scope EXCEPT ![k].field = Append(@, b)]
           /\ UNCHANGED outcome

\* Mutant: the array has an element more.
AddEmployeeTooMany(k) ==
    /\ Is(k, "EmployeeHandler")
    /\ \E b \in Blocks :
         /\ ~Live(b) /\ Len(scope[k].field) <= MaxWorkers
         /\ heap' = [heap EXCEPT ![b] = [size |-> 1, text |-> 0]]
         /\ scope' = [scope EXCEPT ![k].field = Append(@, b)]
         /\ UNCHANGED outcome

AddEmployee(k) == Is(k, "EmployeeHandler") /\ Employ(k)

DropEmployeeHandler == Destroy("EmployeeHandler")

\* The workers of 08 are of classes derived from Employee, and deleted as
\* Employees, whose destructor is not virtual.
StaffHandler == Declare("StaffHandler", << >>, 0)

AddStaff(k) == Is(k, "StaffHandler") /\ Employ(k)

DropStaffHandler ==
    /\ scope # << >> /\ Is(Len(scope), "StaffHandler")
    /\ IF scope[Len(scope)].field = << >> THEN Destroy("StaffHandler") ELSE Broken

-----------------------------------------------------------------------------
(***************************************************************************)
(* String (12-stringclass).  len is strlen + 1, and 0 for a String without *)
(* a text, whose pointer is null: strcpy must not read it.                 *)
(***************************************************************************)
EmptyString ==
    /\ Len(scope) < MaxObjects
    /\ scope' = Append(scope, [class |-> "String", field |-> <<Null>>, len |-> 0])
    /\ UNCHANGED <<heap, outcome>>

StringOf(s) ==
    /\ Len(scope) < MaxObjects
    /\ \E b \in Blocks :
         /\ ~Live(b)
         /\ heap' = [heap EXCEPT ![b] = [size |-> s + 1, text |-> s]]
         /\ scope' = Append(scope, [class |-> "String", field |-> <<b>>, len |-> s + 1])
    /\ UNCHANGED outcome

\* new char[s.len] and strcpy of s.str work.
Copyable(k) ==
    LET p == scope[k].field[1]
    IN  p \in Blocks /\ heap[p].text < scope[k].len

Duplicate(k) == [size |-> scope[k].len, text |-> Text(k, 1)]

CopyString(k) ==
    /\ Is(k, "String") /\ Len(scope) < MaxObjects
    /\ IF Copyable(k)
       THEN \E b \in Blocks :
              /\ ~Live(b)
              /\ heap' = [heap EXCEPT ![b] = Duplicate(k)]
              /\ scope' = Append(scope, [scope[k] EXCEPT !.field = <<b>>])
              /\ UNCHANGED outcome
       ELSE Broken

\* operator=: the old text is deleted first.  A String that is assigned to
\* itself copies from the new block, which holds no text yet.
Assign(k, j) ==
    /\ Is(k, "String") /\ Is(j, "String")
    /\ LET old == {scope[k].field[1]} \cap Blocks
       IN  IF k # j /\ Copyable(j)
           THEN \E b \in Blocks :
                  /\ ~Live(b) \/ b \in old
                  /\ heap' = [Without(old) EXCEPT ![b] = Duplicate(j)]
                  /\ scope' = [l \in Objects |->
                                IF l = k THEN [scope[j] EXCEPT !.field = <<b>>]
                                ELSE CutOff(scope[l], old)]
                  /\ UNCHANGED outcome
           ELSE Broken

\* operator+= changes the length and leaves the text.  It has no return: the
\* caller may or may not go on.
AddAssign(k, j) ==
    /\ Is(k, "String") /\ Is(j, "String")
    /\ scope[k].len + scope[j].len - 1 \in -1..MaxLen
    /\ \/ /\ scope' = [scope EXCEPT ![k].len = @ + scope[j].len - 1]
          /\ UNCHANGED <<heap, outcome>>
       \/ Broken

DropString == Destroy("String")

-----------------------------------------------------------------------------
Cards ==
    \/ \E s, t, u \in Texts : FirstNameCard(s, t, u) \/ NameCard(s, t, u)
    \/ DropFirstNameCard \/ DropNameCard
    \/ \E k \in Objects : CopyNameCard(k)

People ==
    (\E t \in Texts : Person(t)) \/ (\E k \in Objects : CopyPerson(k)) \/ DropPerson

Books ==
    \/ \E s, t \in Texts : Book(s, t) \/ \E u \in Texts : EBook(s, t, u)
    \/ DropBook \/ DropEBook

Arrays ==
    \/ \E n \in Texts \ {0} : BoundCheckIntArray(n)
    \/ \E k \in Objects, idx \in -1..MaxLen : Element(k, idx)
    \/ DropBoundCheckIntArray

Pointers == SmartPtr \/ DropSmartPtr

Storages ==
    (\E n \in Texts \ {0} : DataStorage(n)) \/ DropDataStorage

Bases ==
    \/ (\E s, t \in Texts : Second(s, t)) \/ DropSecond
    \/ Students \/ DropStudents

Handlers ==
    \/ EmployeeHandler \/ DropEmployeeHandler \/ StaffHandler \/ DropStaffHandler
    \/ \E k \in Objects : AddEmployee(k) \/ AddStaff(k)

Strings ==
    \/ EmptyString \/ DropString
    \/ \E s \in Texts : StringOf(s)
    \/ \E k, j \in Objects : CopyString(k) \/ Assign(k, j) \/ AddAssign(k, j)

Implicit ==
    \E k \in Objects : ImplicitCopy(k) \/ \E j \in Objects : ImplicitAssign(k, j)

ObjectsStep ==
    \/ Cards \/ People \/ Books \/ Arrays \/ Pointers \/ Storages \/ Bases \/ Handlers
    \/ Strings \/ Implicit
    \/ \E k \in Objects : Show(k)

ObjectsNext ==
    \/ outcome = "running" /\ ObjectsStep
    \/ outcome # "running" /\ UNCHANGED vars

ObjectsSpec == ObjectsInit /\ [][ObjectsNext]_vars

-----------------------------------------------------------------------------
(***************************************************************************)
(* Types: every object points to blocks or to nothing, and empList is as   *)
(* long as it is.  The classes are listed by how many blocks their objects *)
(* own.                                                                    *)
(***************************************************************************)
Handler == {"EmployeeHandler", "StaffHandler"}
OfOne == {"Person", "SmartPtr", "BoundCheckIntArray", "DataStorage", "String"}
OfTwo == {"Book", "Second"}
OfThree == {"FirstNameCard", "NameCard", "EBook", "Students"}

Classes == Handler \cup OfOne \cup OfTwo \cup OfThree

Block == [size : Nat, text : Nat]
Object == [class : Classes, field : Seq(Blocks \cup {Null, Dangling}), len : Int]

ObjectsTypeOK ==
    /\ heap \in [Blocks -> Block] /\ scope \in Seq(Object)
    /\ outcome \in {"running", "exited", "undefined"}
    /\ \A k \in Objects : scope[k].class \in Handler => Len(scope[k].field) <= MaxWorkers

\* The members of the objects, and what they point to.
Members ==
    {at \in Objects \X (1..3 \cup 1..MaxWorkers) : at[2] \in DOMAIN scope[at[1]].field}

Target(at) == scope[at[1]].field[at[2]]

Owners(b) == {at \in Members : Target(at) = b}

Shared(b) == \E p, q \in Owners(b) : p # q
Lost(b) == Live(b) /\ Owners(b) = {}

(***************************************************************************)
(* Every block has one owner, but for what the compiler writes: only a     *)
(* copy or an assignment of its making gives a block a second owner, only  *)
(* its assignment loses one (and a DataStorage that ends, its array), and  *)
(* a pointer dangles only after a block was shared.  The copy constructors *)
(* of NameCard, Person and String, the assignment of String, new workers   *)
(* and all destructors keep what belongs to one object its own.            *)
(***************************************************************************)
OneOwner ==
    [][LET copied == \E k \in Objects : ImplicitCopy(k)
           assigned == \E k, j \in Objects : ImplicitAssign(k, j)
       IN  /\ copied \/ assigned \/ \A b \in Blocks : Shared(b)' => Shared(b)
           /\ assigned \/ DropDataStorage \/ \A b \in Blocks : Lost(b)' => Lost(b)
           /\ copied \/ assigned
              \/ \A at \in Owners(Dangling)' :
                   at \in Members /\ (Target(at) = Dangling \/ Shared(Target(at)))]_vars

(***************************************************************************)
(* Undefined behaviour has one of these causes: a String (its assignment   *)
(* to itself, its copy without a text, operator+=), a full empList, a      *)
(* delete through a base class, or a pointer that the compiler's copies    *)
(* and assignments left dangling.  No other class deletes twice, reads     *)
(* what was deleted or leaves an array.                                    *)
(***************************************************************************)
OthersStayDefined ==
    outcome = "undefined" =>
      \E k \in Objects :
        \/ scope[k].class \in {"String", "Second", "Students"}
        \/ scope[k].class \in Handler /\ Len(scope[k].field) = MaxWorkers
        \/ Is(k, "StaffHandler") /\ scope[k].field # << >>
        \/ ~Readable(k)

=============================================================================
