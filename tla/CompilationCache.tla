-------------------------- MODULE CompilationCache --------------------------
(***************************************************************************)
(* The cache of compiled wasm modules: an LRU cache in memory, a file for  *)
(* each module, and a map that says which codes are being compiled.        *)
(*                                                                         *)
(* A caller has the hash of a code in storage, or the code itself, and     *)
(* wants a module (fetch_or_compile).  The cache of transactions has one   *)
(* caller at a time, who may bring the code; the validity predicates of a  *)
(* transaction run in parallel and are called by hash.  While a block is   *)
(* executed the handles are read-write, in a dry run they are read-only.   *)
(* InitChain has the codes of genesis compiled by background threads.      *)
(*                                                                         *)
(* A step is what happens between two lock operations.  Of the locks only  *)
(* the read guard that a read-only compile_or_fetch keeps across steps is  *)
(* state.  A crash loses all but the files; a file whose writing was cut   *)
(* short does not load.                                                    *)
(***************************************************************************)
EXTENDS Integers, Sequences

CONSTANTS
  Code,          \* the codes, named by their hash
  Compilable,    \* those that prepare_wasm_code and compile accept
  GenesisCode,   \* those that InitChain pre-compiles
  Caller,        \* the threads that call the cache
  MemCapacity,   \* how many modules fit into memory
  MaxCrashes     \* the bound on restarts of the process

ASSUME CacheAssumption ==
  /\ Compilable \subseteq Code
  /\ GenesisCode \subseteq Code
  /\ "" \notin Code
  /\ MemCapacity \in Nat /\ MaxCrashes \in Nat

VARIABLES
  progress,    \* of each code: None, Compiling, Done
  in_memory,   \* the modules in memory, the least recently used first
  file,        \* of each code: none, partial, whole
  guard,       \* the callers that keep a read guard of progress
  call,        \* what each caller is doing
  job,         \* the background thread of each code
  node         \* which cache it is, whether the process is past InitChain
               \* and had run it before a crash, whether a block is
               \* committed, and how often the process crashed

cacheVars == <<progress, in_memory, file, guard, call, job, node>>

Idle == [pc |-> "idle", code |-> "", access |-> "", result |-> "", fallback |-> FALSE]

CacheInit ==
  /\ progress = [c \in Code |-> "None"]
  /\ in_memory = << >>
  /\ file = [c \in Code |-> "none"]
  /\ guard = {}
  /\ call = [t \in Caller |-> Idle]
  /\ job = [c \in Code |-> "idle"]
  /\ \E kind \in {"tx", "vp"} :
       node = [kind |-> kind, up |-> FALSE, rerun |-> FALSE, committed |-> FALSE,
               crashes |-> 0]

-----------------------------------------------------------------------------
InFlight(t) == call[t].pc # "idle"

(* progress.write() waits for every read guard to be dropped.              *)
CanWrite == guard = {}

Goto(t, pc) == call' = [call EXCEPT ![t].pc = pc]

Return(t, result) ==
  /\ call' = [call EXCEPT ![t] = [@ EXCEPT !.pc = "idle", !.result = result]]
  /\ guard' = guard \ {t}

(* CLruCache::get and put_with_weight.                                     *)
peek(c) == \E i \in 1..Len(in_memory) : in_memory[i] = c
touch(c) ==
  LET k == CHOOSE i \in 1..Len(in_memory) : in_memory[i] = c
      others == SubSeq(in_memory, 1, k - 1) \o SubSeq(in_memory, k + 1, Len(in_memory))
  IN  Append(IF peek(c) THEN others ELSE in_memory, c)
put(c) ==
  LET s == touch(c)
  IN  SubSeq(s, IF Len(s) > MemCapacity THEN Len(s) - MemCapacity + 1 ELSE 1, Len(s))

(* A transaction is run, or the validity predicates it triggers are, and   *)
(* all of them return before the next.  fetch_or_compile: by hash it       *)
(* fetches first, a code is compiled or fetched right away.                *)
Execute(wanted, by, access) ==
  /\ node.up
  /\ \A t \in Caller : ~InFlight(t)
  /\ node.kind = "vp" => by = "hash"
  /\ node.kind = "tx" => \E t \in Caller : DOMAIN wanted = {t}
  /\ call' = [t \in Caller |->
       IF t \notin DOMAIN wanted THEN Idle
       ELSE [pc |-> IF by = "hash" THEN "fetch" ELSE "compile_or_fetch",
             code |-> wanted[t], access |-> access, result |-> "", fallback |-> FALSE]]
  /\ UNCHANGED <<progress, in_memory, file, guard, job, node>>

(* The first look into memory, of get and of peek.                         *)
Fetch(t) ==
  LET c == call[t].code
  IN  /\ call[t].pc = "fetch"
      /\ IF peek(c)
         THEN /\ in_memory' = IF call[t].access = "rw" THEN touch(c) ELSE in_memory
              /\ Return(t, "module")
         ELSE Goto(t, "look") /\ UNCHANGED <<in_memory, guard>>
      /\ UNCHANGED <<progress, file, job, node>>

(* One turn of the loop; a turn that finds Compiling sleeps and repeats.   *)
Look(t) ==
  LET c == call[t].code
  IN  /\ call[t].pc = "look"
      /\ progress[c] # "Compiling"
      /\ Goto(t, IF progress[c] = "Done" THEN "load" ELSE "open")
      /\ UNCHANGED <<progress, in_memory, file, guard, job, node>>

(* A fetch without a module is followed by compile_or_fetch, unless it was *)
(* compile_or_fetch that called it: NoCompiledWasmCode.                    *)
NoModule(t) ==
  IF call[t].fallback THEN Return(t, "NoCompiledWasmCode")
  ELSE Goto(t, "compile_or_fetch") /\ UNCHANGED guard

(* The code is Done: it is in memory or in a file.                         *)
Load(t) ==
  LET c == call[t].code
      rw == call[t].access = "rw"
  IN  /\ call[t].pc = "load"
      /\ \/ /\ peek(c)
            /\ in_memory' = IF rw THEN touch(c) ELSE in_memory
            /\ Return(t, "module")
         \/ /\ ~peek(c) /\ file[c] = "whole"
            /\ in_memory' = IF rw THEN put(c) ELSE in_memory
            /\ Return(t, "module")
         \/ /\ ~peek(c) /\ file[c] # "whole"
            /\ NoModule(t)
            /\ UNCHANGED in_memory
      /\ UNCHANGED <<progress, file, job, node>>

(* The code is not known to this process: there may be a file.             *)
Open(t) ==
  LET c == call[t].code
  IN  /\ call[t].pc = "open"
      /\ IF file[c] # "whole" THEN NoModule(t)
         ELSE IF call[t].access = "rw"
         THEN Goto(t, "adopt") /\ UNCHANGED guard
         ELSE Return(t, "module")
      /\ UNCHANGED <<progress, in_memory, file, job, node>>

(* get marks a code Done once its file is loaded.                          *)
Adopt(t) ==
  LET c == call[t].code
  IN  /\ call[t].pc = "adopt"
      /\ CanWrite
      /\ progress' = [progress EXCEPT ![c] = "Done"]
      /\ in_memory' = put(c)
      /\ Return(t, "module")
      /\ UNCHANGED <<file, job, node>>

-----------------------------------------------------------------------------
Fallback(t) ==
  call' = [call EXCEPT ![t] = [@ EXCEPT !.pc = "fetch", !.fallback = TRUE]]

(* compile_or_fetch of a read-only handle: what progress.get returned      *)
(* borrows the read guard, which lives until the call returns.             *)
CompileOrPeek(t) ==
  LET c == call[t].code
  IN  /\ call[t].pc = "compile_or_fetch"
      /\ call[t].access = "ro"
      /\ guard' = guard \union {t}
      /\ IF progress[c] # "None" THEN Fallback(t) ELSE Goto(t, "compile")
      /\ UNCHANGED <<progress, in_memory, file, job, node>>

(* compile_or_fetch of a read-write handle that looks before it locks.     *)
CompileOrFetch_MarkLater(t) ==
  LET c == call[t].code
  IN  /\ call[t].pc = "compile_or_fetch"
      /\ call[t].access = "rw"
      /\ CanWrite
      /\ IF progress[c] # "None" THEN Fallback(t) ELSE Goto(t, "compile")
      /\ UNCHANGED <<progress, in_memory, file, guard, job, node>>

CompileOrFetch(t) ==
  LET c == call[t].code
  IN  /\ call[t].pc = "compile_or_fetch"
      /\ call[t].access = "rw"
      /\ CanWrite
      /\ IF progress[c] # "None"
         THEN Fallback(t) /\ UNCHANGED progress
         ELSE /\ Goto(t, "compile")
              /\ progress' = [progress EXCEPT ![c] = "Compiling"]
      /\ UNCHANGED <<in_memory, file, guard, job, node>>

(* prepare_wasm_code and compile; then a read-write handle begins to write *)
(* the file.                                                               *)
Compile(t) ==
  LET c == call[t].code
      rw == call[t].access = "rw"
  IN  /\ call[t].pc = "compile"
      /\ \/ /\ ~rw
            /\ Return(t, IF c \in Compilable THEN "module" ELSE "CompileError")
            /\ UNCHANGED file
         \/ /\ rw /\ c \in Compilable
            /\ file' = [file EXCEPT ![c] = "partial"]
            /\ Goto(t, "write") /\ UNCHANGED guard
         \/ /\ rw /\ c \notin Compilable
            /\ Goto(t, "unmark") /\ UNCHANGED <<file, guard>>
      /\ UNCHANGED <<progress, in_memory, job, node>>

WriteFile(t) ==
  LET c == call[t].code
  IN  /\ call[t].pc = "write"
      /\ file' = [file EXCEPT ![c] = "whole"]
      /\ Goto(t, "publish")
      /\ UNCHANGED <<progress, in_memory, guard, job, node>>

Publish(t) ==
  LET c == call[t].code
  IN  /\ call[t].pc = "publish"
      /\ CanWrite
      /\ progress' = [progress EXCEPT ![c] = "Done"]
      /\ in_memory' = put(c)
      /\ Return(t, "module")
      /\ UNCHANGED <<file, job, node>>

(* An error that leaves the code marked.                                   *)
Unmark_MarkKept(t) ==
  /\ call[t].pc = "unmark"
  /\ Return(t, "CompileError")
  /\ UNCHANGED <<progress, in_memory, file, job, node>>

Unmark(t) ==
  /\ call[t].pc = "unmark"
  /\ CanWrite
  /\ progress' = [progress EXCEPT ![call[t].code] = "None"]
  /\ Return(t, "CompileError")
  /\ UNCHANGED <<in_memory, file, job, node>>

-----------------------------------------------------------------------------
(* InitChain calls pre_compile for each code of genesis: what is known     *)
(* stays, what has a file is Done, the rest is compiled in the background. *)
pre_compile ==
  LET new == {c \in GenesisCode : progress[c] = "None"}
      exists == {c \in new : file[c] # "none"}
  IN  /\ progress' = [c \in Code |->
                        CASE c \in exists -> "Done"
                          [] c \in new \ exists -> "Compiling"
                          [] OTHER -> progress[c]]
      /\ job' = [c \in Code |-> IF c \in new \ exists THEN "compile" ELSE job[c]]

InitChain ==
  /\ ~node.up
  /\ pre_compile
  /\ node' = [node EXCEPT !.up = TRUE, !.rerun = node.crashes > 0]
  /\ UNCHANGED <<in_memory, file, guard, call>>

JobCompile(c) ==
  /\ job[c] = "compile"
  /\ IF c \in Compilable
     THEN /\ job' = [job EXCEPT ![c] = "write"]
          /\ file' = [file EXCEPT ![c] = "partial"]
     ELSE job' = [job EXCEPT ![c] = "unmark"] /\ UNCHANGED file
  /\ UNCHANGED <<progress, in_memory, guard, call, node>>

JobWrite(c) ==
  /\ job[c] = "write"
  /\ file' = [file EXCEPT ![c] = "whole"]
  /\ job' = [job EXCEPT ![c] = "publish"]
  /\ UNCHANGED <<progress, in_memory, guard, call, node>>

(* Storing the file fails and the unwrap ends the background thread.       *)
JobPanic(c) ==
  /\ job[c] = "write"
  /\ job' = [job EXCEPT ![c] = "panicked"]
  /\ UNCHANGED <<progress, in_memory, file, guard, call, node>>

JobFinish(c) ==
  /\ job[c] \in {"publish", "unmark"}
  /\ CanWrite
  /\ progress' = [progress EXCEPT ![c] = IF job[c] = "publish" THEN "Done" ELSE "None"]
  /\ job' = [job EXCEPT ![c] = "idle"]
  /\ UNCHANGED <<in_memory, file, guard, call, node>>

(* A block is committed: CometBFT calls InitChain no more.                 *)
CommitFirst ==
  /\ node.up /\ ~node.committed
  /\ \A t \in Caller : ~InFlight(t)
  /\ node' = [node EXCEPT !.committed = TRUE]
  /\ UNCHANGED <<progress, in_memory, file, guard, call, job>>

CrashCache ==
  /\ node.crashes < MaxCrashes
  /\ node' = [node EXCEPT !.up = node.committed, !.rerun = FALSE, !.crashes = @ + 1]
  /\ progress' = [c \in Code |-> "None"]
  /\ in_memory' = << >>
  /\ guard' = {}
  /\ call' = [t \in Caller |-> Idle]
  /\ job' = [c \in Code |-> "idle"]
  /\ UNCHANGED file

CallerStep(t) ==
  \/ Fetch(t) \/ Look(t) \/ Load(t) \/ Open(t) \/ Adopt(t)
  \/ CompileOrPeek(t) \/ CompileOrFetch(t) \/ Compile(t) \/ WriteFile(t)
  \/ Publish(t) \/ Unmark(t)

JobStep(c) == JobCompile(c) \/ JobWrite(c) \/ JobFinish(c)

CacheNext ==
  \/ \E callers \in SUBSET Caller \ {{}}, by \in {"hash", "code"}, access \in {"rw", "ro"} :
       \E wanted \in [callers -> Code] : Execute(wanted, by, access)
  \/ \E t \in Caller : CallerStep(t)
  \/ \E c \in Code : JobStep(c) \/ JobPanic(c)
  \/ InitChain \/ CommitFirst \/ CrashCache

(* A thread that can take a step is scheduled; new calls, failing disks    *)
(* and crashes are up to the environment.                                  *)
CacheFairness ==
  /\ \A t \in Caller : WF_cacheVars(CallerStep(t))
  /\ \A c \in Code : WF_cacheVars(JobStep(c))

CacheSpec == CacheInit /\ [][CacheNext]_cacheVars /\ CacheFairness

-----------------------------------------------------------------------------
(* Who is compiling code c for the files.                                  *)
Compilers(c) ==
  {t \in Caller : call[t].code = c /\ call[t].access = "rw"
                    /\ call[t].pc \in {"compile", "write"}}
    \union (IF job[c] \in {"compile", "write"} THEN {c} ELSE {})

(* No two threads compile a code and write its file at a time; a module in *)
(* memory was compiled; a code that is Done has a file that loads; and a   *)
(* code that compiles always gives a module: no interleaving of the other  *)
(* callers, of the background threads or of evictions makes a call return  *)
(* without one.  The exception is a file that a crash cut short, which     *)
(* InitChain, run again, takes for a compiled module                       *)
(* (compilation_cache/common.rs).                                          *)
CacheConsistent ==
  /\ \A c \in Code : \A x, y \in Compilers(c) : x = y
  /\ \A c \in Code : peek(c) => file[c] = "whole" /\ c \in Compilable
  /\ \A c \in Code : progress[c] = "Done" =>
       file[c] = "whole" \/ (node.rerun /\ file[c] = "partial")
  /\ \A t \in Caller :
       (~InFlight(t) /\ call[t].code \in Compilable /\ call[t].result # "module")
         => /\ call[t].result = "NoCompiledWasmCode"
            /\ file[call[t].code] = "partial"
            /\ node.rerun

(* A background thread that panicked leaves its code marked for good.      *)
MarkLeft == \E c \in Code : job[c] = "panicked"

(* A read-only compile_or_fetch waits for a compilation under its guard.   *)
WaitsUnderGuard ==
  \E t \in guard : call[t].pc \in {"fetch", "look", "load", "open"}

(* Every call returns: whoever waits for a compilation sees it end, and no *)
(* lock is kept from a thread for good.  Two things can prevent it, and    *)
(* nothing else does: a background thread that panics and a read-only      *)
(* handle that waits for the very thread that its read guard blocks.       *)
CallsReturnUnlessBlocked ==
  \A t \in Caller : InFlight(t) ~> (~InFlight(t) \/ MarkLeft \/ WaitsUnderGuard)

=============================================================================
