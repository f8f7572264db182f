-------------------------------- MODULE Hooks --------------------------------
(***************************************************************************)
(* The functions of libc that src/api/hooks.c replaces.  A call is the     *)
(* list of the steps still to do.                                          *)
(*                                                                         *)
(* Allocation: a hook finds libc's function with dlsym the first time,     *)
(* dlsym itself calls calloc, and calloc must work meanwhile; a pointer    *)
(* goes back to klmalloc or to libc by the options of the moment.          *)
(*                                                                         *)
(* Files: the kernel cannot fault a page in, so a hook brings the buffer   *)
(* of a system call in first.  The buffers are pages of one allocation;    *)
(* prot is their protection (module Pages has the rest of their state).    *)
(***************************************************************************)
EXTENDS Integers, Sequences, FiniteSets

CONSTANTS
  Callers,      \* the threads
  Buffer,       \* the pages the buffers of system calls lie on
  MaxPtrs,      \* bound on the pointers the program holds
  MaxInternal,  \* the allocations that fit in internal_calloc_mem; bound also
                \* on those dlsym holds
  Usage         \* what may happen: pointers are "kept" across SBMA_init and
                \* SBMA_destroy, and threads run "early", before calloc is found

ASSUME HookAssumption ==
  /\ MaxPtrs \in Nat /\ MaxInternal \in Nat
  /\ Usage \subseteq {"kept", "early"}

VARIABLES
  _libc_calloc,         \* "NULL", "internal" or "libc"
  resolved,             \* history: has dlsym found calloc?
  internal_calloc_ptr,  \* how many allocations it has given
  loaded,               \* its value as a thread has read it
  enabled, osvmm,       \* klmalloc's switch and the option VMM_OSVMM
  ptrs,                 \* the pointers held: where from, which, by whom
  prot,
  doing,                \* of each thread: the steps left
  bare,                 \* history, of each thread: the pages of its call that its
                        \* hook leaves alone, or that were evicted after the hook
                        \* had brought them in
  wrong                 \* what went wrong

alloc == <<_libc_calloc, resolved, internal_calloc_ptr, loaded, enabled, osvmm, ptrs>>
hookvars == <<alloc, prot, doing, bare, wrong>>

HookInit ==
  /\ _libc_calloc = "NULL" /\ resolved = FALSE /\ internal_calloc_ptr = 0
  /\ loaded = [t \in Callers |-> 0]
  /\ enabled = FALSE /\ osvmm = FALSE /\ ptrs = {}
  /\ prot = [x \in Buffer |-> "none"]
  /\ doing = [t \in Callers |-> <<>>] /\ bare = [t \in Callers |-> {}]
  /\ wrong = {}

Op(what, on) == <<what, on>>
At(t, what) == doing[t] # <<>> /\ Head(doing[t])[1] = what
Arg(t) == Head(doing[t])[2]
Go(t, steps) == doing' = [doing EXCEPT ![t] = steps \o Tail(@)]

\* HOOK_INIT(calloc); every hook of the allocator has it in front.
HOOK_INIT == << Op("init", "calloc") >>
calloc(who) == HOOK_INIT \o << Op("which", who) >>

\* The wrappers libc_func, before they call libc's func: HOOK_INIT(func) looks
\* func up unless an earlier call did (which is left open).  libc_malloc,
\* libc_realloc and libc_free are reached only when libc is the allocator.
libc == HOOK_INIT \o << Op("dlsym", "func") >>
libc_alloc == << Op("dlsym", "alloc") >>

(***************************************************************************)
(* The calls of the program.                                               *)
(***************************************************************************)
\* The mutant sends internal memory to an allocator.
FreeAll(p) == HOOK_INIT \o libc_alloc \o << Op("give back", p) >>
free(p) == HOOK_INIT \o (IF p.from = "internal" THEN <<>>
                       ELSE libc_alloc \o << Op("give back", p) >>)
malloc == HOOK_INIT \o libc_alloc \o << Op("take", "program") >>
realloc(p) == HOOK_INIT \o libc_alloc \o << Op("give back", p), Op("take", p.by) >>

MayCall(t) ==
  /\ doing[t] = <<>>
  /\ "early" \in Usage \/ resolved \/ \A u \in Callers : doing[u] = <<>>

CallAlloc(t) ==
  /\ MayCall(t)
  /\ \/ /\ Cardinality(ptrs) < MaxPtrs /\ UNCHANGED ptrs
        /\ \/ doing' = [doing EXCEPT ![t] = malloc]
           \/ doing' = [doing EXCEPT ![t] = calloc("program")]
     \/ \E p \in ptrs : /\ doing' = [doing EXCEPT ![t] = free(p)]
                        /\ ptrs' = ptrs \ {p}
     \/ \E p \in ptrs : /\ p.by = "program"
                        /\ doing' = [doing EXCEPT ![t] = realloc(p)]
                        /\ ptrs' = ptrs \ {p}
  /\ UNCHANGED <<_libc_calloc, resolved, internal_calloc_ptr, loaded, enabled, osvmm, prot, bare, wrong>>

\* SBMA_init and SBMA_destroy, with and without VMM_OSVMM.
Switch(t) ==
  /\ doing[t] = <<>>
  /\ \/ "kept" \in Usage
     \/ (\A p \in ptrs : p.from = "internal") /\ (\A u \in Callers : doing[u] = <<>>)
  /\ enabled' = ~ enabled
  /\ osvmm' \in IF enabled THEN {FALSE} ELSE BOOLEAN
  /\ UNCHANGED <<_libc_calloc, resolved, internal_calloc_ptr, loaded, ptrs, prot, doing, bare, wrong>>

(***************************************************************************)
(* The steps of an allocation.                                             *)
(***************************************************************************)
\* Which allocator malloc, calloc, realloc and free go to.
Allocator == IF osvmm \/ ~ enabled THEN "libc" ELSE "kl"

InitCalloc(t) ==
  /\ At(t, "init")
  /\ IF _libc_calloc # "NULL" THEN Go(t, <<>>) /\ UNCHANGED _libc_calloc
     ELSE _libc_calloc' = "internal" /\ Go(t, << Op("dlsym", "calloc"), Op("found", "") >>)
  /\ UNCHANGED <<resolved, internal_calloc_ptr, loaded, enabled, osvmm, ptrs, prot, bare, wrong>>

\* dlsym may allocate.
Dlsym(t) ==
  /\ At(t, "dlsym")
  /\ \/ /\ Arg(t) = "alloc" => Allocator = "libc"
        /\ Cardinality({p \in ptrs : p.by = "dlsym"}) < MaxInternal
        /\ Go(t, calloc("dlsym"))
     \/ Go(t, <<>>)
  /\ UNCHANGED <<alloc, prot, bare, wrong>>

Found(t) ==
  /\ At(t, "found") /\ _libc_calloc' = "libc" /\ resolved' = TRUE /\ Go(t, <<>>)
  /\ UNCHANGED <<internal_calloc_ptr, loaded, enabled, osvmm, ptrs, prot, bare, wrong>>

\* calloc's test for the temporary function.
Which(t) ==
  /\ At(t, "which")
  /\ Go(t, << Op(IF _libc_calloc = "internal" THEN "load" ELSE "take", Arg(t)) >>)
  /\ UNCHANGED <<alloc, prot, bare, wrong>>

\* internal_calloc reads the pointer and moves it; it returns NULL when its
\* memory is used up.
InternalLoad(t) ==
  /\ At(t, "load")
  /\ loaded' = [loaded EXCEPT ![t] = internal_calloc_ptr]
  /\ wrong' = IF resolved THEN wrong \union {"internal again"} ELSE wrong
  /\ Go(t, IF internal_calloc_ptr < MaxInternal THEN << Op("store", Arg(t)) >> ELSE <<>>)
  /\ UNCHANGED <<_libc_calloc, resolved, internal_calloc_ptr, enabled, osvmm, ptrs, prot, bare>>

InternalStore(t) ==
  LET p == [from |-> "internal", nr |-> loaded[t], by |-> Arg(t)]
  IN  /\ At(t, "store")
      /\ internal_calloc_ptr' = loaded[t] + 1
      /\ wrong' = IF \E q \in ptrs : q.from = "internal" /\ q.nr = p.nr
                  THEN wrong \union {"overlap"} ELSE wrong
      /\ ptrs' = ptrs \union {p}
      /\ Go(t, <<>>)
      /\ UNCHANGED <<_libc_calloc, resolved, loaded, enabled, osvmm, prot, bare>>

Take(t) ==
  /\ At(t, "take")
  /\ \E nr \in 0 .. MaxPtrs + MaxInternal :
       LET p == [from |-> Allocator, nr |-> nr, by |-> Arg(t)]
       IN  /\ \A q \in ptrs : q.from = p.from => q.nr # nr
           /\ \A k \in 0 .. nr - 1 : \E q \in ptrs : q.from = p.from /\ q.nr = k
           /\ ptrs' = ptrs \union {p}
  /\ Go(t, <<>>)
  /\ UNCHANGED <<_libc_calloc, resolved, internal_calloc_ptr, loaded, enabled, osvmm, prot, bare, wrong>>

GiveBack(t) ==
  /\ At(t, "give back")
  /\ wrong' = IF Arg(t).from = Allocator THEN wrong ELSE wrong \union {"allocator"}
  /\ Go(t, <<>>)
  /\ UNCHANGED <<alloc, prot, bare>>

(***************************************************************************)
(* The hooks of system calls, as what is done to their buffer R.           *)
(***************************************************************************)
Touch(R) == << Op("touch", R) >>
\* The mutant has no memset: the pages are not writable.
ReadTouch(R) == Touch(R) \o libc \o << Op("kernel writes", R) >>
read(R) == Touch(R) \o << Op("memset", R) >> \o libc \o << Op("kernel writes", R) >>
fread(R) == read(R)
write(R) == Touch(R) \o libc \o << Op("kernel reads", R) >>
\* Only the first element of the array is touched.
fwrite(R, S) == Touch(S) \o libc \o << Op("kernel reads", R) >>
\* strlen reads the path; the kernel reads it and writes the result, to memory
\* of the allocation (R) or elsewhere (R is empty).
stat(P, R) == << Op("touch", P) >> \o Touch(P) \o Touch(R) \o libc
              \o << Op("kernel reads", P), Op("kernel writes", R) >>
open(P) == << Op("touch", P) >> \o Touch(P) \o libc \o << Op("kernel reads", P) >>
\* memcpy and memmove work in user space, where a fault is handled.
memcpy(R, S) == HOOK_INIT \o << Op("touch", R \union S) >> \o libc
                \o << Op("touch", S), Op("memset", R) >>
mlock(R) == Touch(R) \o libc \o << Op("kernel reads", R) >>
mlockall == Touch(Buffer) \o libc \o << Op("kernel reads", Buffer) >>
msync(R) == << Op("evict", R) >>

\* A call with the pages its hook leaves alone: the other elements of an array that
\* fwrite writes, and the buffer that stat fills, which is touched and not written.
FileCalls(R, S) ==
  {<<call, {}>> : call \in {read(R), fread(R), write(R), open(R), memcpy(R, S), mlock(R), mlockall, msync(R)}}
  \union {<<fwrite(R, E), R \ E>> : E \in (SUBSET R) \ {{}}}
  \union {<<stat(R, S), S>>, <<stat(R, {}), {}>>}

CallFile(t) ==
  /\ MayCall(t)
  /\ \E R, S \in (SUBSET Buffer) \ {{}} : \E f \in FileCalls(R, S) :
       doing' = [doing EXCEPT ![t] = f[1]] /\ bare' = [bare EXCEPT ![t] = f[2]]
  /\ UNCHANGED <<alloc, prot, wrong>>

\* The pages that the kernel will use and no step before that brings in any more.
BringsIn(k) == IF k = "kernel reads" THEN {"touch", "memset"} ELSE {"memset"}
Exposed(steps) ==
  {x \in Buffer : \E j \in DOMAIN steps :
     /\ steps[j][1] \in {"kernel reads", "kernel writes"} /\ x \in steps[j][2]
     /\ ~ \E i \in 1 .. j - 1 : steps[i][1] \in BringsIn(steps[j][1]) /\ x \in steps[i][2]}

\* All threads lose the pages of R.
Evict(R) ==
  /\ prot' = [x \in Buffer |-> IF x \in R THEN "none" ELSE prot[x]]
  /\ bare' = [t \in Callers |-> bare[t] \union (R \intersect Exposed(doing[t]))]

Grant(R, how) == [x \in Buffer |-> IF x \in R /\ (how = "rw" \/ prot[x] = "none") THEN how ELSE prot[x]]

UserStep(t) ==
  /\ \/ At(t, "touch") /\ prot' = Grant(Arg(t), "r") /\ UNCHANGED bare
     \/ At(t, "memset") /\ prot' = Grant(Arg(t), "rw") /\ UNCHANGED bare
     \/ At(t, "evict") /\ Evict(Arg(t))
  /\ Go(t, <<>>)
  /\ UNCHANGED <<alloc, wrong>>

\* The kernel fails with EFAULT where the page is not accessible.
Efault(t, x) == IF x \in bare[t] THEN "EFAULT on a bare page" ELSE "EFAULT"
Kernel(t) ==
  /\ \/ At(t, "kernel reads") /\ wrong' = wrong \union
          {Efault(t, x) : x \in {y \in Arg(t) : prot[y] = "none"}}
     \/ At(t, "kernel writes") /\ wrong' = wrong \union
          {Efault(t, x) : x \in {y \in Arg(t) : prot[y] # "rw"}}
  /\ Go(t, <<>>)
  /\ bare' = [bare EXCEPT ![t] = @ \intersect Exposed(Tail(doing[t]))]
  /\ UNCHANGED <<alloc, prot>>

\* The SIGIPC handler evicts everything.
Sigipc ==
  /\ Evict(Buffer)
  /\ UNCHANGED <<alloc, doing, wrong>>

InHook == \E t \in Callers :
  \/ InitCalloc(t) \/ Dlsym(t) \/ Found(t) \/ Which(t)
  \/ InternalLoad(t) \/ InternalStore(t) \/ Take(t) \/ GiveBack(t)
AllocNext == \E t \in Callers : CallAlloc(t) \/ Switch(t)
FileNext == Sigipc \/ \E t \in Callers : CallFile(t) \/ UserStep(t) \/ Kernel(t)
HookNext == InHook \/ AllocNext \/ FileNext

HookSpec == HookInit /\ [][HookNext]_hookvars

------------------------------------------------------------------------------
\* A pointer is given back to the allocator it came from, also the memory that
\* dlsym got while calloc was being looked up.
Matched == "allocator" \notin wrong

\* "After the libc_calloc is populated using dlsym, this function will never be
\* called again" (api/hooks.c:83), and its allocations do not overlap.
InternalOnlyFirst == {"internal again", "overlap"} \intersect wrong = {}

\* Every pointer comes from the allocator meant to serve the call and returns to it.
RightAllocator == Matched /\ InternalOnlyFirst

\* A system call fails on a page only if its hook leaves the page alone or the page
\* was evicted, by a SIGIPC or by another thread's msync, after the hook had brought
\* it in: whatever was evicted before, and whatever the hooks of other threads do to
\* the same pages, the steps of the hook make up for.
KernelServed == "EFAULT" \notin wrong

\* The stronger statement does not hold: "When memset finishes, buf[0, count) is not
\* all resident.  This is an error" (the comment in read, hooks.c:615).
BufferServed == {"EFAULT", "EFAULT on a bare page"} \intersect wrong = {}

==============================================================================
