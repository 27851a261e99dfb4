------------------------------- MODULE Nullable -------------------------------
(***************************************************************************)
(* Nullable wrappers and the recursive walks over them                     *)
(* (include/bozo/core/recursive.h and the ext/ headers).                   *)
(*                                                                         *)
(* A value's type is a chain of wrappers around a terminal type, e.g.      *)
(* std::optional<std::shared_ptr<connection>>: kinds[1] is the outermost   *)
(* wrapper and kinds[Len(kinds)] the terminal type, a type that unwraps to *)
(* itself.  null[i] is the null state of level i; a level below a null one *)
(* does not exist, and is kept in its default state.                       *)
(*                                                                         *)
(* The owner of the value changes it through the wrappers' own operations  *)
(* (allocate_nullable, emplace, reset, the expiry of a weak_ptr's owner);  *)
(* the properties compare, in every state it can reach, the recursive      *)
(* walks of recursive.h with what they promise.                            *)
(***************************************************************************)
EXTENDS Naturals, Sequences

CONSTANTS MaxWrappers   \* how deeply wrappers are nested

\* Wrappers: the nullable types of ext/ whose unwrap yields the value
\* inside.  The pointers that specialise allocate_nullable_impl get a new
\* T{} from allocate_nullable; the others are given a value by their owner.
Allocatable == {"std::shared_ptr", "boost::shared_ptr", "boost::scoped_ptr"}
Engageable == {"std::optional", "boost::optional", "boost::weak_ptr"}
Wrappers == Allocatable \cup Engageable
\* Terminal types: unwrap_type<T> is T.  std::nullopt_t and std::nullptr_t
\* unwrap to themselves (detail::functional::forward) and are always null;
\* "value" is a type that is not nullable at all (a connection, an int).
Terminals == {"value", "nullopt_t", "nullptr_t"}

VARIABLES kinds, null

vars == <<kinds, null>>

Depth == Len(kinds)
Levels == 1..Depth

IsTerminal(i) == kinds[i] \in Terminals

\* The default state of level i: a default-constructed wrapper is null, a
\* terminal type is null exactly when it is nullopt_t or nullptr_t.
DefaultNull(i) == kinds[i] # "value"

\* Level i exists: every wrapper around it holds a value.
Reached(i) == \A j \in 1..(i - 1) : ~null[j]

-----------------------------------------------------------------------------
(***************************************************************************)
(* bozo::is_null and bozo::unwrap on one level.  Only the engaged level of *)
(* a wrapper may be unwrapped: unwrap is a dereference (optional,          *)
(* shared_ptr, scoped_ptr) or *v.lock() (weak_ptr).                        *)
(***************************************************************************)
IsNull(i) == null[i]

\* Unwrapping level i dereferences a null handle.
UnwrapDerefsNull(i) == ~IsTerminal(i) /\ null[i]

\* The outcome of a walk: its answer and the levels whose unwrap
\* dereferenced a null handle (undefined behaviour).
Walk(answer, bad) == [null |-> answer, ub |-> bad]
Unwrapped(level, bad) == [level |-> level, ub |-> bad]

(***************************************************************************)
(* Faulty variants of the walks.                                           *)
(***************************************************************************)
RECURSIVE IsNullRecursiveUnwrapFirst(_)
\* Unwraps before asking whether the level is null.
IsNullRecursiveUnwrapFirst(i) ==
    IF IsTerminal(i) THEN Walk(IsNull(i), {})
    ELSE LET rest == IF null[i] THEN Walk(TRUE, {})
                     ELSE IsNullRecursiveUnwrapFirst(i + 1)
         IN Walk(IsNull(i) \/ rest.null,
                 rest.ub \cup (IF UnwrapDerefsNull(i) THEN {i} ELSE {}))

-----------------------------------------------------------------------------
(***************************************************************************)
(* is_null_recursive: a type that unwraps to itself is answered by its own *)
(* is_null (is_null_recursive_impl's primary template); any other level    *)
(* answers true if it is null and otherwise recurses into unwrap(v).       *)
(***************************************************************************)
RECURSIVE IsNullRecursive(_)
IsNullRecursive(i) ==
    IF IsTerminal(i) THEN Walk(IsNull(i), {})
    ELSE IF IsNull(i) THEN Walk(TRUE, {})
    ELSE LET rest == IsNullRecursive(i + 1)
         IN Walk(rest.null, rest.ub)

(***************************************************************************)
(* unwrap_recursive: unwraps until the type unwraps to itself, with no     *)
(* check of its own; the answer is the level it stops at.                  *)
(***************************************************************************)
RECURSIVE UnwrapRecursive(_)
UnwrapRecursive(i) ==
    IF IsTerminal(i) THEN Unwrapped(i, {})
    ELSE LET rest == UnwrapRecursive(i + 1)
         IN Unwrapped(rest.level,
                 rest.ub \cup (IF UnwrapDerefsNull(i) THEN {i} ELSE {}))

(***************************************************************************)
(* The loop recursive.h documents for is_null_recursive (lines 60-68):     *)
(* while the type is not terminal, answer true on a null level, else       *)
(* unwrap; answer false once the terminal type is reached.                 *)
(***************************************************************************)
RECURSIVE DocumentedIsNullRecursive(_)
DocumentedIsNullRecursive(i) ==
    IF IsTerminal(i) THEN FALSE
    ELSE IsNull(i) \/ DocumentedIsNullRecursive(i + 1)

(***************************************************************************)
(* The examples' print_error(ec, conn): the error code's message always;   *)
(* libpq's error message and context, which unwrap the connection, only    *)
(* when is_null_recursive(conn) is false.  The answer is the level the     *)
(* reads reached (0: none) and the null handles they dereferenced.         *)
(***************************************************************************)
\* Reads libpq's error without asking is_null_recursive first.
PrintErrorUnguarded == UnwrapRecursive(1)

PrintError ==
    IF ~IsNullRecursive(1).null THEN UnwrapRecursive(1) ELSE Unwrapped(0, {})

-----------------------------------------------------------------------------
(***************************************************************************)
(* What the owner does to the value.                                       *)
(***************************************************************************)

\* Level i holds a fresh default-constructed value: every level inside it
\* is in its default state.
Fill(i) ==
    null' = [j \in Levels |-> IF j < i THEN null[j]
                              ELSE IF j = i THEN FALSE
                              ELSE DefaultNull(j)]

\* Allocates into a pointer that some outer wrapper does not hold.
AllocateNullableUnreached(i) ==
    /\ kinds[i] \in Allocatable
    /\ null[i]
    /\ Fill(i)
    /\ UNCHANGED kinds

\* allocate_nullable_impl for std::shared_ptr (std::allocate_shared),
\* boost::shared_ptr (boost::allocate_shared) and boost::scoped_ptr
\* (reset(new T{})): a null pointer gets a new T{}.
AllocateNullable(i) ==
    /\ kinds[i] \in Allocatable
    /\ Reached(i) /\ null[i]
    /\ Fill(i)
    /\ UNCHANGED kinds

\* An optional is emplaced, or a weak_ptr is assigned from a live owner.
Engage(i) ==
    /\ kinds[i] \in Engageable
    /\ Reached(i) /\ null[i]
    /\ Fill(i)
    /\ UNCHANGED kinds

\* A wrapper is reset (for a weak_ptr: its last owner lets go); what it
\* held is destroyed.
Reset(i) ==
    /\ ~IsTerminal(i)
    /\ Reached(i) /\ ~null[i]
    /\ null' = [j \in Levels |-> IF j < i THEN null[j] ELSE DefaultNull(j)]
    /\ UNCHANGED kinds

\* Every type the headers make nullable, nested up to MaxWrappers deep.
Types == UNION {[1..n -> Wrappers] : n \in 0..MaxWrappers}

Init ==
    /\ \E ws \in Types, t \in Terminals : kinds = ws \o <<t>>
    /\ null = [j \in Levels |-> DefaultNull(j)]

Next == \E i \in Levels : AllocateNullable(i) \/ Engage(i) \/ Reset(i)

Spec == Init /\ [][Next]_vars

-----------------------------------------------------------------------------
TypeOK ==
    /\ kinds \in Seq(Wrappers \cup Terminals)
    /\ kinds[Depth] \in Terminals
    /\ \A i \in 1..(Depth - 1) : kinds[i] \in Wrappers
    /\ null \in [Levels -> BOOLEAN]
    /\ \A i \in Levels : ~Reached(i) => null[i] = DefaultNull(i)

\* The levels that exist in the current value.
Existing == {i \in Levels : Reached(i)}

(* is_null_recursive answers whether some level of the value is in a null *)
(* state, terminal nullopt_t and nullptr_t included, and it finds out     *)
(* without dereferencing a null wrapper: it asks is_null before unwrap.   *)
NullWalkCorrect ==
    LET w == IsNullRecursive(1) IN
    /\ w.null = \E i \in Existing : IsNull(i)
    /\ w.ub = {}

(* The guard the examples and tests rely on (print_error in              *)
(* retry_request.cpp:13-21, retry_integration.cpp:54): whenever           *)
(* is_null_recursive lets print_error read the connection's libpq error,  *)
(* unwrapping reaches the terminal type without ever dereferencing a null *)
(* handle.                                                                *)
GuardedUnwrapSafe ==
    LET u == PrintError IN u.ub = {} /\ u.level \in {0, Depth}

(* recursive.h documents is_null_recursive as a loop that stops at the    *)
(* terminal type and answers false there; the code agrees with it.        *)
CodeMatchesDocumentedLoop ==
    IsNullRecursive(1).null = DocumentedIsNullRecursive(1)

=============================================================================
