--------------------------- MODULE TrackedAllocator ---------------------------
(***************************************************************************)
(* class TrackedAllocator (memory/memory.h), which counts what goes        *)
(* through it per usage, and the ways the header offers to allocate and to *)
(* free: Create and Destroy, MakeUniqueN and MakeShared with their         *)
(* Deleter, and StlAllocator.  Free is told a size and a usage by whoever  *)
(* frees; it does not know what was allocated.                             *)
(*                                                                         *)
(* The allocator behind it is an external one.  It may throw, and so may   *)
(* the constructor of the object, and the shared_ptr made around it.       *)
(***************************************************************************)
EXTENDS Integers, FiniteSets, Functions

CONSTANTS
  Threads,
  Blocks,      \* addresses
  Types,       \* object types
  SizeOf,      \* sizeof of each
  Bases,       \* pairs <<T, B>>: T is derived from B
  Counts,      \* arguments n of MakeUniqueN and StlAllocator::allocate
  MaxStats,    \* bound: a count, and a number of bytes, in the statistics
  None

Usages == {"Create", "Stl"}     \* the others are never asked for

VARIABLES
  by_usage,    \* stats_
  block,       \* Blocks: what was really allocated there, or None
  handle,      \* Blocks: who will free it, and how
  lost,        \* history: what no Free will ever take back
  op           \* Threads: what Allocate is still to return

vars == <<by_usage, block, handle, lost, op>>

Kinds == {"Create", "Unique", "Shared", "Stl"}
Request == [size : Nat, usage : Usages]
(* type is the static type, by which it will be freed; made_as is history: *)
(* the type that it was allocated as.                                      *)
Handle == [kind : Kinds, made_as : Types, type : Types, count : Nat]
Idle == [step |-> "idle"]

ASSUME AllocatorAssumption ==
  /\ IsFiniteSet(Threads) /\ IsFiniteSet(Blocks)
  /\ SizeOf \in [Types -> Nat \ {0}]
  /\ Bases \subseteq Types \X Types
  /\ \A pair \in Bases : SizeOf[pair[2]] <= SizeOf[pair[1]]
  /\ Counts \subseteq Nat
  /\ MaxStats \in Nat
  /\ None \notin Request \cup Handle

(* by_usage never wraps: no count or size is taken off that is not there,  *)
(* which is what Free asserts ("TrackedAllocator detected abnormal         *)
(* free()"), whoever frees what, in whatever order.                        *)
TypeOK ==
  /\ by_usage \in [Usages -> [count : Nat, bytes : Nat]]
  /\ block \in [Blocks -> Request \cup {None}]
  /\ handle \in [Blocks -> Handle \cup {None}]
  /\ lost \in [Usages -> [count : Nat, bytes : Nat]]
  /\ op \in [Threads -> {Idle} \cup
               [step : {"allocate", "construct"}, request : Request, handle : Handle,
                at : Blocks \cup {None}]]

Nothing == [u \in Usages |-> [count |-> 0, bytes |-> 0]]

Init ==
  /\ by_usage = Nothing
  /\ block = [b \in Blocks |-> None]
  /\ handle = [b \in Blocks |-> None]
  /\ lost = Nothing
  /\ op = [t \in Threads |-> Idle]

-----------------------------------------------------------------------------
Count(stats, request) ==
  [stats EXCEPT ![request.usage] = [count |-> @.count + 1, bytes |-> @.bytes + request.size]]

Uncount(stats, request) ==
  [stats EXCEPT ![request.usage] = [count |-> @.count - 1, bytes |-> @.bytes - request.size]]

UsageOf(h) == IF h.kind = "Stl" THEN "Stl" ELSE "Create"

(* What Create, MakeUniqueN, MakeShared and StlAllocator::allocate ask for *)
AllocateRequest(h) == [size |-> SizeOf[h.type] * h.count, usage |-> UsageOf(h)]

(* Mutant: deallocate leaves the usage to Destroy. *)
FreeRequest_Create(h) == [size |-> SizeOf[h.type] * h.count, usage |-> "Create"]

(* Mutant: the Deleter of MakeUniqueN frees one object. *)
FreeRequest_One(h) == [size |-> SizeOf[h.type], usage |-> UsageOf(h)]

(* ... and what Destroy, Deleter and deallocate say they free: by the      *)
(* static type of the pointer, and the Deleter by its own count.           *)
FreeRequest(h) == [size |-> SizeOf[h.type] * h.count, usage |-> UsageOf(h)]

(* What was allocated for h, and a request by its static type leaves out.  *)
Sliced(h) == SizeOf[h.made_as] * h.count - SizeOf[h.type] * h.count

(* The first thing they do is TrackedAllocator::Allocate, which counts and *)
(* calls the allocator after it has released mutex_.  MakeUniqueN(0)       *)
(* allocates nothing.                                                      *)
Allocate(t, h) ==
  /\ op[t] = Idle /\ h.made_as = h.type
  /\ h.kind \in {"Create", "Shared"} => h.count = 1
  /\ h.kind = "Unique" => h.count > 0
  /\ by_usage' = Count(by_usage, AllocateRequest(h))
  /\ \A u \in Usages : by_usage'[u].count <= MaxStats /\ by_usage'[u].bytes <= MaxStats
  /\ op' = [op EXCEPT ![t] = [step |-> "allocate", request |-> AllocateRequest(h),
                              handle |-> h, at |-> None]]
  /\ UNCHANGED <<block, handle, lost>>

Allocate_Returns(t, b) ==
  /\ op[t].step = "allocate" /\ block[b] = None
  /\ block' = [block EXCEPT ![b] = op[t].request]
  /\ op' = [op EXCEPT ![t].step = "construct", ![t].at = b]
  /\ UNCHANGED <<by_usage, handle, lost>>

(* The statistics are not put back. *)
Allocate_Throws(t) ==
  /\ op[t].step = "allocate"
  /\ lost' = Count(lost, op[t].request)
  /\ op' = [op EXCEPT ![t] = Idle]
  /\ UNCHANGED <<by_usage, block, handle>>

(* Placement new of one object, for any count; StlAllocator leaves that to *)
(* the container.                                                          *)
Construct(t) ==
  /\ op[t].step = "construct"
  /\ handle' = [handle EXCEPT ![op[t].at] = op[t].handle]
  /\ op' = [op EXCEPT ![t] = Idle]
  /\ UNCHANGED <<by_usage, block, lost>>

(* Nobody frees the block. *)
Construct_Throws(t) ==
  /\ op[t].step = "construct" /\ op[t].handle.kind # "Stl"
  /\ lost' = Count(lost, op[t].request)
  /\ op' = [op EXCEPT ![t] = Idle]
  /\ UNCHANGED <<by_usage, block, handle>>

(* A shared_ptr that cannot be made runs the Deleter. *)
MakeShared_Throws(t) ==
  /\ op[t].step = "construct" /\ op[t].handle.kind = "Shared"
  /\ by_usage' = Uncount(by_usage, FreeRequest(op[t].handle))
  /\ block' = [block EXCEPT ![op[t].at] = None]
  /\ op' = [op EXCEPT ![t] = Idle]
  /\ UNCHANGED <<handle, lost>>

(* A pointer, or a UniquePtr, to a derived type becomes one to its base;   *)
(* Deleter is one class for all types.  A shared_ptr keeps the pointer it  *)
(* was made with.                                                          *)
MoveToBase(b, base) ==
  /\ handle[b] # None /\ handle[b].kind \in {"Create", "Unique"}
  /\ <<handle[b].type, base>> \in Bases
  /\ handle' = [handle EXCEPT ![b].type = base]
  /\ UNCHANGED <<by_usage, block, lost, op>>

(* Destroy, Deleter, deallocate: TrackedAllocator::Free, which calls the   *)
(* allocator with mutex_ held.                                             *)
Free(t, b) ==
  /\ op[t] = Idle /\ handle[b] # None
  /\ LET request == FreeRequest(handle[b])
     IN  /\ by_usage' = Uncount(by_usage, request)
         /\ lost' = [lost EXCEPT ![request.usage].bytes = @ + Sliced(handle[b])]
  /\ block' = [block EXCEPT ![b] = None]
  /\ handle' = [handle EXCEPT ![b] = None]
  /\ UNCHANGED op

Next ==
  \/ \E t \in Threads :
       \/ \E h \in [kind : Kinds, made_as : Types, type : Types, count : Counts] : Allocate(t, h)
       \/ \E b \in Blocks : Allocate_Returns(t, b) \/ Free(t, b)
       \/ Allocate_Throws(t) \/ Construct(t) \/ Construct_Throws(t) \/ MakeShared_Throws(t)
  \/ \E b \in Blocks, base \in Types : MoveToBase(b, base)

Spec == Init /\ [][Next]_vars

-----------------------------------------------------------------------------
(* Properties.                                                             *)

Held(u) == {b \in Blocks : handle[b] # None /\ block[b].usage = u}
InProgress(u) == {t \in Threads : op[t] # Idle /\ op[t].request.usage = u}

BytesHeld(u) == SumFunction([b \in Held(u) |-> block[b].size])
BytesInProgress(u) == SumFunction([t \in InProgress(u) |-> op[t].request.size])

(* At any moment the statistics are those of the allocations that are held *)
(* or in the making, per usage, in number and in bytes, as the comment on  *)
(* the class has it -- but for what an exception made nobody's (Allocate   *)
(* counts before it calls the allocator) and what a derived object, if one *)
(* was freed through its base, is larger than that (sizeof(T) in Deleter,  *)
(* Destroy): every other difference between what was asked for and what is *)
(* freed would stay in them.                                               *)
StatsExact ==
  \A u \in Usages :
    by_usage[u] = [count |-> Cardinality(Held(u)) + Cardinality(InProgress(u)) + lost[u].count,
                   bytes |-> BytesHeld(u) + BytesInProgress(u) + lost[u].bytes]
=============================================================================
