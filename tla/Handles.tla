------------------------------- MODULE Handles -------------------------------
(***************************************************************************)
(* The handles of the frame layer in src/ffi.rs: contexts that live in a   *)
(* block from the caller's allocator when it gave one, in a Box when not,  *)
(* and dictionaries, which always live in a Box.  The handle's own state   *)
(* is FrameEncoder's and FrameDecoder's; here it is created, measured and  *)
(* freed.                                                                  *)
(***************************************************************************)
EXTENDS Integers, FiniteSets, FiniteSetsExt

CONSTANTS
  Ids,      \* handles a program may have at a time
  Mems,     \* the LZ4F_CustomMem values it passes, each [hooks, opaque]: which
            \* of "alloc", "calloc" and "free" are given, and the opaque state
  Sizes,    \* size_of Owned<T>, for each kind of context
  MaxCalls  \* bound: creations

VARIABLES
  handle,    \* the live handles: what each Owned or CDict holds
  route,     \* ghost: where each live block came from, a Box or whose hook
  audit,     \* external: bytes each allocator has out, by opaque state
  misrouted, \* ghost: a block was released another way than it was allocated
  calls

vars == <<handle, route, audit, misrouted, calls>>

-----------------------------------------------------------------------------
NoHooks == [hooks |-> {}, opaque |-> "none"]
Opaques == { mem.opaque : mem \in Mems \cup {NoHooks} }
Live == DOMAIN handle

Without(f, id) == [x \in DOMAIN f \ {id} |-> f[x]]
With(f, id, v) == [x \in DOMAIN f \cup {id} |-> IF x = id THEN v ELSE f[x]]

(* owned_new: customCalloc, else customAlloc, else a Box.                  *)
Hooked(mem) == mem.hooks \cap {"calloc", "alloc"} # {}

(* Slip: the allocator is not kept with the handle.                        *)
OwnedForgetting(mem, size) == [size |-> size, mem |-> NoHooks, kind |-> "context"]
Owned(mem, size) == [size |-> size, mem |-> mem, kind |-> "context"]

New(id, owned, from) ==
  /\ id \notin Live /\ calls < MaxCalls /\ calls' = calls + 1
  /\ handle' = With(handle, id, owned) /\ route' = With(route, id, from)
  /\ UNCHANGED misrouted

(* LZ4F_createCompressionContext_advanced and its decompression twin; the  *)
(* plain ones pass default_cmem.                                           *)
CreateHooked(id, mem, size) ==
  /\ Hooked(mem)
  /\ New(id, Owned(mem, size), mem.opaque)
  /\ audit' = [audit EXCEPT ![mem.opaque] = @ + size]

CreateBoxed(id, mem, size) ==
  /\ ~Hooked(mem)
  /\ New(id, Owned(mem, size), "box") /\ UNCHANGED audit

(* The hook has no memory: no handle, and the call reports it.             *)
CreateRefused(mem) ==
  /\ Hooked(mem) /\ calls < MaxCalls /\ calls' = calls + 1
  /\ UNCHANGED <<handle, route, audit, misrouted>>

(* LZ4F_createCDict_advanced ignores the allocator it is given.            *)
CreateCDict(id) ==
  /\ New(id, [size |-> 0, mem |-> NoHooks, kind |-> "cdict"], "box")
  /\ UNCHANGED audit

(* owned_free: a Box when no hook at all was given, else the free hook, if *)
(* there is one.                                                           *)
BoxFreed(mem) == mem.hooks = {}
HookFreed(mem) == "free" \in mem.hooks

Release(id, how) ==
  /\ handle' = Without(handle, id) /\ route' = Without(route, id)
  /\ misrouted' = (misrouted \/ how # route[id])
  /\ UNCHANGED calls

FreeBox(id) ==
  /\ handle[id].kind = "context" /\ BoxFreed(handle[id].mem)
  /\ Release(id, "box") /\ UNCHANGED audit

(* The hook takes back a block it gave out, and knows nothing of others.   *)
FreeHook(id) ==
  LET mem == handle[id].mem IN
  /\ handle[id].kind = "context" /\ HookFreed(mem)
  /\ Release(id, mem.opaque)
  /\ audit' = IF route[id] = mem.opaque
              THEN [audit EXCEPT ![mem.opaque] = @ - handle[id].size] ELSE audit

(* An allocator without a free hook keeps its blocks: only the value in    *)
(* them is dropped.                                                        *)
FreeNothing(id) ==
  LET mem == handle[id].mem IN
  /\ handle[id].kind = "context" /\ ~BoxFreed(mem) /\ ~HookFreed(mem)
  /\ Release(id, route[id]) /\ UNCHANGED audit

FreeCDict(id) == handle[id].kind = "cdict" /\ Release(id, "box") /\ UNCHANGED audit

-----------------------------------------------------------------------------
Init ==
  /\ handle = [x \in {} |-> NoHooks] /\ route = [x \in {} |-> "box"]
  /\ audit = [o \in Opaques |-> 0] /\ misrouted = FALSE /\ calls = 0

Rest == Live = {} /\ calls = MaxCalls /\ UNCHANGED vars

Next ==
  \/ \E id \in Ids :
       \/ \E mem \in Mems \cup {NoHooks}, size \in Sizes :
            CreateHooked(id, mem, size) \/ CreateBoxed(id, mem, size)
       \/ CreateCDict(id)
  \/ \E mem \in Mems : CreateRefused(mem)
  \/ \E id \in Live : FreeBox(id) \/ FreeHook(id) \/ FreeNothing(id) \/ FreeCDict(id)
  \/ Rest

Spec == Init /\ [][Next]_vars

-----------------------------------------------------------------------------
(* Properties.                                                             *)

(* LZ4F_cctx_size and LZ4F_dctx_size.                                      *)
SizeOf(id) == handle[id].size

(* The audit of frametest (ffi.rs 838-847): the sizes the contexts report  *)
(* add up, allocator by allocator, to the bytes the hooks have out, with   *)
(* contexts of several allocators and of none alive at once; an allocator  *)
(* without a free hook may have more out.                                  *)
AuditAgrees ==
  \A mem \in Mems : Hooked(mem) /\ HookFreed(mem) =>
    audit[mem.opaque] = MapThenSumSet(SizeOf, { id \in Live : route[id] = mem.opaque })

(* "Release an Owned<T> through whichever route allocated it" (ffi.rs      *)
(* 908).                                                                   *)
ReleasedAsAllocated == ~misrouted
=============================================================================
