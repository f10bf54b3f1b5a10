----------------------- MODULE CompilationCacheProofs -----------------------
(***************************************************************************)
(* The compilation cache is consistent for every number of codes, callers  *)
(* and background threads, every capacity and any number of crashes.  The  *)
(* argument: whoever compiles a code for the files has marked it, and      *)
(* nobody else begins while it is marked; a caller that found a file does  *)
(* not meet a compilation of the same code, since that begins only where   *)
(* there is no file (the validity predicates) or no other caller (the      *)
(* transactions); and a mark is only taken back from a code that does not  *)
(* compile.  Fairness plays no part in it.                                 *)
(***************************************************************************)
EXTENDS CompilationCache, TLAPS

Pc == {"idle", "fetch", "look", "load", "open", "adopt", "compile_or_fetch",
       "compile", "write", "publish", "unmark"}
Result == {"", "module", "CompileError", "NoCompiledWasmCode"}
CallRecord ==
  [pc : Pc, code : Code \union {""}, access : {"", "rw", "ro"}, result : Result,
   fallback : BOOLEAN]

CacheTypes ==
  /\ progress \in [Code -> {"None", "Compiling", "Done"}]
  /\ in_memory \in Seq(Code)
  /\ file \in [Code -> {"none", "partial", "whole"}]
  /\ call \in [Caller -> CallRecord]
  /\ job \in [Code -> {"idle", "compile", "write", "publish", "unmark",
                       "panicked"}]
  /\ node \in [kind : {"tx", "vp"}, up : BOOLEAN, rerun : BOOLEAN,
               committed : BOOLEAN, crashes : Nat]

(* Before InitChain nothing is under way; the files are of an earlier run. *)
NotUp ==
  ~node.up =>
    /\ \A t \in Caller : call[t] = Idle
    /\ \A c \in Code : progress[c] = "None" /\ job[c] = "idle"
    /\ node.crashes = 0 => \A c \in Code : file[c] = "none"

Files ==
  \A c \in Code :
    /\ file[c] # "none" => c \in Compilable
    /\ peek(c) => progress[c] = "Done" /\ file[c] = "whole"
    /\ progress[c] = "Done" =>
         file[c] = "whole" \/ (node.rerun /\ file[c] = "partial")

(* A background thread has the code marked, and callers do not get past    *)
(* the mark.                                                               *)
Jobs ==
  \A c \in Code : job[c] # "idle" =>
    /\ progress[c] = "Compiling"
    /\ job[c] \in {"write", "publish"} => c \in Compilable
    /\ job[c] = "publish" => file[c] = "whole"
    /\ job[c] = "unmark" => c \notin Compilable
    /\ \A t \in Caller : call[t].code = c =>
         call[t].pc \in {"idle", "fetch", "look", "compile_or_fetch"}

Owner(t) ==
  call[t].access = "rw" /\ call[t].pc \in {"compile", "write", "publish", "unmark"}

(* What a caller knows of its code at each point of its call: k is the     *)
(* call, m the mark and f the file of its code.                            *)
Knows(k, m, f, kind, rerun) ==
  /\ k.pc # "idle" => k.code \in Code /\ k.access \in {"rw", "ro"}
  /\ k.pc = "load" => m = "Done"
  /\ k.pc = "adopt" => f = "whole" /\ k.access = "rw"
  /\ k.pc \in {"write", "publish", "unmark"} => k.access = "rw"
  /\ k.pc \in {"compile", "write", "unmark"} /\ k.access = "rw" => m = "Compiling"
  /\ kind = "vp" /\ k.pc \in {"compile", "write"} /\ k.access = "rw" => f # "whole"
  /\ k.pc = "publish" => m # "None" /\ f = "whole"
  /\ k.pc \in {"write", "publish"} => k.code \in Compilable
  /\ k.pc = "unmark" => k.code \notin Compilable
  /\ k.fallback /\ k.pc \in {"fetch", "look"} => k.code \notin Compilable \/ m # "None"
  /\ k.fallback /\ k.pc = "open" => k.code \notin Compilable
  /\ kind = "vp" /\ k.pc = "compile_or_fetch" => f # "whole" \/ m # "None"
  /\ k.pc = "idle" /\ k.code \in Compilable /\ k.result # "module" =>
       k.result = "NoCompiledWasmCode" /\ m = "Done" /\ f = "partial" /\ rerun

CallKnows(t) ==
  Knows(call[t], progress[call[t].code], file[call[t].code], node.kind, node.rerun)

(* What two callers of the same code exclude.                              *)
Exclusion ==
  \A t, u \in Caller : t # u =>
    /\ node.kind = "tx" => call[t].pc = "idle" \/ call[u].pc = "idle"
    /\ call[t].code = call[u].code =>
         /\ ~(Owner(t) /\ Owner(u))
         /\ ~(call[t].pc = "adopt" /\ Owner(u) /\ call[u].pc \in {"compile", "write"})

CacheInv ==
  /\ CacheTypes
  /\ NotUp
  /\ Files
  /\ Jobs
  /\ \A t \in Caller : CallKnows(t)
  /\ Exclusion

-----------------------------------------------------------------------------
(* The memory: touching or adding a module brings in no other.             *)
LEMMA TouchAdds ==
  ASSUME in_memory \in Seq(Code), NEW c \in Code, NEW s, s = touch(c)
  PROVE  s \in Seq(Code) /\ \A i \in 1..Len(s) : s[i] = c \/ peek(s[i])
<1>1. CASE ~peek(c)
  <2>1. s = Append(in_memory, c)
    BY <1>1 DEF touch
  <2>2. /\ s \in Seq(Code) /\ Len(s) = Len(in_memory) + 1
        /\ \A i \in 1..Len(in_memory) : s[i] = in_memory[i]
        /\ s[Len(in_memory) + 1] = c
    BY <2>1
  <2> QED
    BY <2>2 DEF peek
<1>2. CASE peek(c)
  <2> DEFINE k == CHOOSE i \in 1..Len(in_memory) : in_memory[i] = c
             a == SubSeq(in_memory, 1, k - 1)
             b == SubSeq(in_memory, k + 1, Len(in_memory))
             r == a \o b
  <2>1. k \in 1..Len(in_memory)
    BY <1>2 DEF peek
  <2>2. s = Append(r, c) /\ r = a \o b
    BY <1>2 DEF touch
  <2> HIDE DEF k, r
  <2>3. /\ a \in Seq(Code) /\ Len(a) = k - 1
        /\ \A i \in 1..Len(a) : a[i] = in_memory[i]
    BY <2>1
  <2>4. /\ b \in Seq(Code) /\ Len(b) = Len(in_memory) - k
        /\ \A i \in 1..Len(b) : b[i] = in_memory[k + i]
    BY <2>1
  <2> HIDE DEF a, b
  <2>5. r \in Seq(Code) /\ Len(r) = Len(a) + Len(b)
    <3>1. a \in Seq(Code) /\ b \in Seq(Code)
      BY <2>3, <2>4
    <3>2. r = a \o b
      BY <2>2
    <3> QED
      BY <3>1, <3>2
  <2>6. ASSUME NEW i \in 1..Len(r) PROVE peek(r[i])
    <3>1. CASE i <= Len(a)
      <4>1. i \in 1..Len(a) /\ i \in 1..Len(in_memory)
        BY <2>1, <2>3, <2>5, <3>1
      <4>2. r[i] = a[i]
        BY <2>2, <2>3, <2>4, <4>1
      <4> QED
        BY <2>3, <4>1, <4>2 DEF peek
    <3>2. CASE ~(i <= Len(a))
      <4> DEFINE j == i - Len(a)
      <4>1. j \in 1..Len(b) /\ i = Len(a) + j /\ k + j \in 1..Len(in_memory)
        BY <2>1, <2>3, <2>4, <2>5, <3>2
      <4>2. r[i] = b[j]
        BY <2>2, <2>3, <2>4, <2>5, <3>2
      <4>3. b[j] = in_memory[k + j]
        BY <2>4, <4>1
      <4> QED
        BY <4>1, <4>2, <4>3 DEF peek
    <3> QED
      BY <3>1, <3>2
  <2>7. /\ s \in Seq(Code) /\ Len(s) = Len(r) + 1
        /\ \A i \in 1..Len(r) : s[i] = r[i]
        /\ s[Len(r) + 1] = c
    BY <2>2, <2>5
  <2> QED
    BY <2>5, <2>6, <2>7
<1> QED
  BY <1>1, <1>2

LEMMA PutAdds ==
  ASSUME in_memory \in Seq(Code), NEW c \in Code, NEW s, s = put(c)
  PROVE  s \in Seq(Code) /\ \A i \in 1..Len(s) : s[i] = c \/ peek(s[i])
<1> DEFINE m == touch(c)
           k == IF Len(m) > MemCapacity THEN Len(m) - MemCapacity + 1 ELSE 1
<1>1. m \in Seq(Code) /\ \A i \in 1..Len(m) : m[i] = c \/ peek(m[i])
  BY TouchAdds
<1>2. s = SubSeq(m, k, Len(m))
  BY DEF put
<1> HIDE DEF m
<1>3. k \in 1..(Len(m) + 1)
  <2>1. Len(m) \in Nat
    BY <1>1
  <2>2. MemCapacity \in Nat
    BY CacheAssumption DEF CacheAssumption
  <2>3. \A l, n \in Nat : (IF l > n THEN l - n + 1 ELSE 1) \in 1..(l + 1)
    OBVIOUS
  <2> QED
    BY <2>1, <2>2, <2>3
<1> HIDE DEF k
<1>4. /\ s \in Seq(Code) /\ Len(s) = Len(m) - k + 1
      /\ \A i \in 1..Len(s) : s[i] = m[k + i - 1]
  BY <1>1, <1>2, <1>3
<1>5. ASSUME NEW i \in 1..Len(s) PROVE s[i] = c \/ peek(s[i])
  <2>1. k + i - 1 \in 1..Len(m) /\ s[i] = m[k + i - 1]
    BY <1>1, <1>3, <1>4
  <2> QED
    BY <1>1, <2>1
<1> QED
  BY <1>4, <1>5

peek_next(c) == \E i \in 1..Len(in_memory') : in_memory'[i] = c

(* How the memory may change in a step that is about code c.               *)
MemoryStep(c) ==
  /\ in_memory' \in Seq(Code)
  /\ \A d \in Code : peek_next(d) => peek(d) \/ d = c

LEMMA MemoryChange ==
  ASSUME in_memory \in Seq(Code), NEW c \in Code,
         in_memory' \in {in_memory, touch(c), put(c)}
  PROVE  MemoryStep(c)
<1>1. CASE in_memory' = in_memory
  BY <1>1 DEF MemoryStep, peek, peek_next
<1>2. CASE in_memory' = touch(c)
  <2>1. in_memory' \in Seq(Code)
          /\ \A i \in 1..Len(in_memory') : in_memory'[i] = c \/ peek(in_memory'[i])
    BY <1>2, TouchAdds
  <2> QED
    BY <2>1 DEF MemoryStep, peek, peek_next
<1>3. CASE in_memory' = put(c)
  <2>1. in_memory' \in Seq(Code)
          /\ \A i \in 1..Len(in_memory') : in_memory'[i] = c \/ peek(in_memory'[i])
    BY <1>3, PutAdds
  <2> QED
    BY <2>1 DEF MemoryStep, peek, peek_next
<1> QED
  BY <1>1, <1>2, <1>3

-----------------------------------------------------------------------------
(* A step of caller t changes nothing of the other calls, and keeps the    *)
(* code and the access of its own.                                         *)
CallMoves(t) ==
  /\ call' \in [Caller -> CallRecord]
  /\ call'[t].code = call[t].code
  /\ call'[t].access = call[t].access
  /\ \A u \in Caller \ {t} : call'[u] = call[u]

LEMMA GotoMoves ==
  ASSUME call \in [Caller -> CallRecord], NEW t \in Caller, NEW pc \in Pc,
         Goto(t, pc)
  PROVE  /\ CallMoves(t) /\ call'[t].pc = pc
         /\ call'[t].result = call[t].result /\ call'[t].fallback = call[t].fallback
BY DEF Goto, CallMoves, CallRecord

LEMMA ReturnMoves ==
  ASSUME call \in [Caller -> CallRecord], NEW t \in Caller, NEW r \in Result,
         Return(t, r)
  PROVE  CallMoves(t) /\ call'[t].pc = "idle" /\ call'[t].result = r
<1> DEFINE k == [call[t] EXCEPT !.pc = "idle", !.result = r]
<1>1. call' = [call EXCEPT ![t] = k]
  BY DEF Return
<1>2. /\ k \in CallRecord /\ k.pc = "idle" /\ k.result = r
      /\ k.code = call[t].code /\ k.access = call[t].access
  BY DEF CallRecord, Pc
<1> HIDE DEF k
<1> QED
  BY <1>1, <1>2 DEF CallMoves

LEMMA FallbackMoves ==
  ASSUME call \in [Caller -> CallRecord], NEW t \in Caller, Fallback(t)
  PROVE  CallMoves(t) /\ call'[t].pc = "fetch" /\ call'[t].fallback
<1> DEFINE k == [call[t] EXCEPT !.pc = "fetch", !.fallback = TRUE]
<1>1. call' = [call EXCEPT ![t] = k]
  BY DEF Fallback
<1>2. /\ k \in CallRecord /\ k.pc = "fetch" /\ k.fallback
      /\ k.code = call[t].code /\ k.access = call[t].access
  BY DEF CallRecord, Pc
<1> HIDE DEF k
<1> QED
  BY <1>1, <1>2 DEF CallMoves

(* A step of caller t is about its code: it is enough to look at the code, *)
(* at the caller and at the other callers of the same code.                *)
OneCode(c) ==
  /\ progress' \in [Code -> {"None", "Compiling", "Done"}]
  /\ file' \in [Code -> {"none", "partial", "whole"}]
  /\ \A d \in Code \ {c} : progress'[d] = progress[d] /\ file'[d] = file[d]
  /\ file'[c] # "none" => c \in Compilable
  /\ peek_next(c) => progress'[c] = "Done" /\ file'[c] = "whole"
  /\ progress'[c] = "Done" =>
       file'[c] = "whole" \/ (node.rerun /\ file'[c] = "partial")
  /\ MemoryStep(c)
  /\ node' = node

OthersOf(t, c) ==
  \A u \in Caller \ {t} : call[u].code = c =>
    /\ CallKnows(u)'
    /\ ~(Owner(t)' /\ Owner(u))
    /\ ~(call'[t].pc = "adopt" /\ Owner(u) /\ call[u].pc \in {"compile", "write"})
    /\ ~(call[u].pc = "adopt" /\ Owner(t)' /\ call'[t].pc \in {"compile", "write"})

LEMMA FilesAfter ==
  ASSUME CacheInv, NEW c \in Code, OneCode(c)
  PROVE  Files'
<1> SUFFICES ASSUME NEW d \in Code
             PROVE  /\ file'[d] # "none" => d \in Compilable
                    /\ peek_next(d) => progress'[d] = "Done" /\ file'[d] = "whole"
                    /\ progress'[d] = "Done" =>
                         file'[d] = "whole" \/ (node'.rerun /\ file'[d] = "partial")
  BY DEF Files, peek, peek_next
<1>1. CASE d = c
  BY <1>1 DEF OneCode
<1>2. CASE d # c
  BY <1>2 DEF OneCode, MemoryStep, CacheInv, Files
<1> QED
  BY <1>1, <1>2

LEMMA KnowsStays ==
  ASSUME NEW u \in Caller, CallKnows(u), call'[u] = call[u],
         node'.kind = node.kind, node'.rerun = node.rerun,
         call[u].code \in Code => /\ progress'[call[u].code] = progress[call[u].code]
                                  /\ file'[call[u].code] = file[call[u].code]
  PROVE  CallKnows(u)'
<1>1. CASE call[u].code \in Code
  BY <1>1 DEF CallKnows
<1>2. CASE call[u].code \notin Code
  <2>1. call[u].pc = "idle" /\ call[u].code \notin Compilable
    BY <1>2, CacheAssumption DEF CallKnows, Knows, CacheAssumption
  <2> QED
    BY <2>1 DEF CallKnows, Knows
<1> QED
  BY <1>1, <1>2

LEMMA CallerStepKeeps ==
  ASSUME CacheInv, NEW t \in Caller, InFlight(t), CallMoves(t),
         OneCode(call[t].code), job' = job,
         job[call[t].code] # "idle" =>
           /\ call'[t].pc \in {"idle", "fetch", "look", "compile_or_fetch"}
           /\ progress'[call[t].code] = progress[call[t].code]
           /\ file'[call[t].code] = file[call[t].code],
         CallKnows(t)',
         OthersOf(t, call[t].code)
  PROVE  CacheInv'
<1> DEFINE c == call[t].code
<1>1. c \in Code /\ node.up
  <2>1. CallKnows(t) /\ NotUp
    BY DEF CacheInv
  <2>2. c \in Code
    BY <2>1 DEF CallKnows, Knows, InFlight
  <2>3. Idle.pc = "idle"
    BY DEF Idle
  <2>4. node.up
    BY <2>1, <2>3 DEF NotUp, InFlight
  <2> QED
    BY <2>2, <2>4
<1>2. CacheTypes'
  BY DEF CacheInv, CacheTypes, CallMoves, OneCode, MemoryStep
<1>3. NotUp'
  BY <1>1 DEF NotUp, OneCode
<1>4. Files'
  BY <1>1, FilesAfter
<1>5. Jobs'
  <2> SUFFICES ASSUME NEW d \in Code, job[d] # "idle"
               PROVE  /\ progress'[d] = "Compiling"
                      /\ job[d] \in {"write", "publish"} => d \in Compilable
                      /\ job[d] = "publish" => file'[d] = "whole"
                      /\ job[d] = "unmark" => d \notin Compilable
                      /\ \A u \in Caller : call'[u].code = d =>
                           call'[u].pc \in {"idle", "fetch", "look", "compile_or_fetch"}
    BY DEF Jobs
  <2>1. progress'[d] = progress[d] /\ file'[d] = file[d]
    BY DEF OneCode
  <2>2. ASSUME NEW u \in Caller, call'[u].code = d
        PROVE  call'[u].pc \in {"idle", "fetch", "look", "compile_or_fetch"}
    BY <2>2 DEF CallMoves, CacheInv, Jobs
  <2> QED
    BY <2>1, <2>2 DEF CacheInv, Jobs
<1>6. ASSUME NEW u \in Caller PROVE CallKnows(u)'
  <2>1. CASE u = t
    BY <2>1
  <2>2. CASE u # t /\ call[u].code = c
    BY <2>2 DEF OthersOf
  <2>3. CASE u # t /\ call[u].code # c
    <3>1. call'[u] = call[u] /\ CallKnows(u) /\ node' = node
      BY <2>3 DEF CallMoves, CacheInv, OneCode
    <3>2. call[u].code \in Code => /\ progress'[call[u].code] = progress[call[u].code]
                                   /\ file'[call[u].code] = file[call[u].code]
      BY <2>3 DEF OneCode
    <3> QED
      BY <3>1, <3>2, KnowsStays
  <2> QED
    BY <2>1, <2>2, <2>3
<1>7. Exclusion'
  <2> SUFFICES ASSUME NEW v \in Caller, NEW u \in Caller, v # u
               PROVE  /\ node'.kind = "tx" => call'[v].pc = "idle" \/ call'[u].pc = "idle"
                      /\ call'[v].code = call'[u].code =>
                           /\ ~(Owner(v)' /\ Owner(u)')
                           /\ ~(call'[v].pc = "adopt" /\ Owner(u)'
                                  /\ call'[u].pc \in {"compile", "write"})
    BY DEF Exclusion
  <2>1. /\ node' = node /\ call'[t].code = call[t].code /\ call[t].pc # "idle"
        /\ \A w \in Caller \ {t} :
             /\ call'[w] = call[w] /\ (Owner(w)' <=> Owner(w))
             /\ node.kind = "tx" => call[w].pc = "idle"
    BY DEF CallMoves, OneCode, Owner, CacheInv, Exclusion, InFlight
  <2>2. CASE v # t /\ u # t
    BY <2>1, <2>2 DEF CacheInv, Exclusion
  <2>3. CASE v = t
    BY <2>1, <2>3 DEF OthersOf
  <2>4. CASE u = t
    BY <2>1, <2>4 DEF OthersOf
  <2> QED
    BY <2>2, <2>3, <2>4
<1> QED
  BY <1>2, <1>3, <1>4, <1>5, <1>6, <1>7 DEF CacheInv

-----------------------------------------------------------------------------
(* The steps of a caller that only look.                                   *)
LEMMA Calling ==
  ASSUME CacheInv, NEW t \in Caller, InFlight(t)
  PROVE  /\ call[t].code \in Code
         /\ call[t].access \in {"rw", "ro"}
         /\ CallKnows(t)
         /\ CacheTypes
BY DEF CacheInv, CallKnows, Knows, InFlight

LEMMA LookKeeps ==
  ASSUME CacheInv, NEW t \in Caller, InFlight(t), CallMoves(t),
         UNCHANGED <<progress, file, job, node>>,
         in_memory' \in {in_memory, touch(call[t].code), put(call[t].code)},
         in_memory' = in_memory \/
           (progress[call[t].code] = "Done" /\ file[call[t].code] = "whole"),
         call'[t].pc \in {"idle", "fetch", "look", "compile_or_fetch"}
           \/ job[call[t].code] = "idle",
         call'[t].pc = "adopt" => file[call[t].code] = "whole",
         ~Owner(t)',
         CallKnows(t)'
  PROVE  CacheInv'
<1> DEFINE c == call[t].code
<1>1. c \in Code /\ CallKnows(t) /\ CacheTypes
  BY Calling
<1>2. MemoryStep(c)
  BY <1>1, MemoryChange DEF CacheTypes
<1>3. OneCode(c)
  <2>1. peek_next(c) => progress[c] = "Done" /\ file[c] = "whole"
    <3>1. peek(c) => progress[c] = "Done" /\ file[c] = "whole"
      BY <1>1 DEF CacheInv, Files
    <3>2. in_memory' = in_memory => (peek_next(c) <=> peek(c))
      BY DEF peek, peek_next
    <3> QED
      BY <3>1, <3>2
  <2> QED
    BY <1>1, <1>2, <2>1 DEF OneCode, CacheTypes, CacheInv, Files
<1>4. OthersOf(t, c)
  <2> SUFFICES ASSUME NEW u \in Caller \ {t}, call[u].code = c
               PROVE  /\ CallKnows(u)'
                      /\ ~(call'[t].pc = "adopt" /\ Owner(u)
                             /\ call[u].pc \in {"compile", "write"})
    BY DEF OthersOf
  <2>1. call'[u] = call[u] /\ CallKnows(u)
    BY DEF CallMoves, CacheInv
  <2>2. CallKnows(u)'
    BY <2>1, KnowsStays
  <2>3. Owner(u) /\ call[u].pc \in {"compile", "write"} => file[c] # "whole"
    <3>1. node.kind = "tx" => call[u].pc = "idle"
      BY DEF CacheInv, Exclusion, InFlight
    <3>2. node.kind \in {"tx", "vp"}
      BY <1>1 DEF CacheTypes
    <3> QED
      BY <2>1, <3>1, <3>2 DEF CallKnows, Knows, Owner
  <2> QED
    BY <2>2, <2>3
<1> QED
  BY <1>3, <1>4, CallerStepKeeps

LEMMA FetchKeeps ==
  ASSUME CacheInv, NEW t \in Caller, Fetch(t)
  PROVE  CacheInv'
<1> DEFINE c == call[t].code
<1>1. InFlight(t) /\ c \in Code /\ CallKnows(t) /\ CacheTypes
  BY Calling DEF Fetch, InFlight
<1>2. CASE peek(c)
  <2>1. progress[c] = "Done" /\ file[c] = "whole"
    BY <1>1, <1>2 DEF CacheInv, Files
  <2>2. CallMoves(t) /\ call'[t].pc = "idle" /\ call'[t].result = "module"
    BY <1>1, <1>2, ReturnMoves DEF Fetch, CacheTypes, Result
  <2>3. CallKnows(t)' /\ ~Owner(t)'
    BY <2>2 DEF CallKnows, Knows, Owner
  <2> QED
    BY <1>1, <1>2, <2>1, <2>2, <2>3, LookKeeps DEF Fetch
<1>3. CASE ~peek(c)
  <2>1. /\ CallMoves(t) /\ call'[t].pc = "look"
        /\ call'[t].result = call[t].result /\ call'[t].fallback = call[t].fallback
    BY <1>1, <1>3, GotoMoves DEF Fetch, CacheTypes, Pc
  <2>2. CallKnows(t)' /\ ~Owner(t)'
    BY <1>1, <2>1 DEF CallKnows, Knows, Owner, CallMoves, Fetch
  <2> QED
    BY <1>1, <1>3, <2>1, <2>2, LookKeeps DEF Fetch
<1> QED
  BY <1>2, <1>3

LEMMA LookStepKeeps ==
  ASSUME CacheInv, NEW t \in Caller, Look(t)
  PROVE  CacheInv'
<1> DEFINE c == call[t].code
           pc == IF progress[c] = "Done" THEN "load" ELSE "open"
<1>1. InFlight(t) /\ c \in Code /\ CallKnows(t) /\ CacheTypes
  BY Calling DEF Look, InFlight
<1>2. pc \in Pc /\ Goto(t, pc)
  BY DEF Look, Pc
<1> HIDE DEF pc
<1>3. /\ CallMoves(t) /\ call'[t].pc = pc
      /\ call'[t].result = call[t].result /\ call'[t].fallback = call[t].fallback
  BY <1>1, <1>2, GotoMoves DEF CacheTypes
<1>4. progress[c] \in {"None", "Done"}
  BY <1>1 DEF Look, CacheTypes
<1>5. CallKnows(t)' /\ ~Owner(t)'
  BY <1>1, <1>3, <1>4 DEF CallKnows, Knows, Owner, CallMoves, Look, pc
<1>6. job[c] = "idle"
  BY <1>1 DEF Look, CacheInv, Jobs
<1> QED
  BY <1>1, <1>3, <1>5, <1>6, LookKeeps DEF Look, pc

(* Where a fetch without a module leads.                                   *)
LEMMA NoModuleKnows ==
  ASSUME CacheInv, NEW t \in Caller, InFlight(t), NoModule(t),
         UNCHANGED <<progress, file, job, node>>,
         file[call[t].code] # "whole",
         call[t].fallback /\ call[t].code \in Compilable =>
           progress[call[t].code] = "Done"
  PROVE  /\ CallMoves(t) /\ call'[t].pc \in {"idle", "compile_or_fetch"}
         /\ CallKnows(t)' /\ ~Owner(t)'
<1> DEFINE c == call[t].code
<1>1. c \in Code /\ CallKnows(t) /\ CacheTypes /\ call[t].access \in {"rw", "ro"}
  BY Calling
<1>2. CASE call[t].fallback
  <2>1. CallMoves(t) /\ call'[t].pc = "idle" /\ call'[t].result = "NoCompiledWasmCode"
    BY <1>1, <1>2, ReturnMoves DEF NoModule, CacheTypes, Result
  <2>2. c \in Compilable => progress[c] = "Done" /\ file[c] = "partial" /\ node.rerun
    BY <1>1, <1>2 DEF CacheInv, Files
  <2> QED
    BY <1>1, <2>1, <2>2 DEF CallKnows, Knows, Owner, CallMoves
<1>3. CASE ~call[t].fallback
  <2>1. /\ CallMoves(t) /\ call'[t].pc = "compile_or_fetch"
        /\ call'[t].fallback = call[t].fallback
    BY <1>1, <1>3, GotoMoves DEF NoModule, CacheTypes, Pc
  <2> QED
    BY <1>1, <2>1 DEF CallKnows, Knows, Owner, CallMoves
<1> QED
  BY <1>2, <1>3

LEMMA LoadKeeps ==
  ASSUME CacheInv, NEW t \in Caller, Load(t)
  PROVE  CacheInv'
<1> DEFINE c == call[t].code
<1>1. InFlight(t) /\ c \in Code /\ CallKnows(t) /\ CacheTypes
  BY Calling DEF Load, InFlight
<1>2. progress[c] = "Done" /\ job[c] = "idle"
  BY <1>1 DEF CallKnows, Knows, Load, CacheInv, Jobs
<1>3. CASE peek(c) \/ file[c] = "whole"
  <2>1. file[c] = "whole"
    BY <1>1, <1>3 DEF CacheInv, Files
  <2>2. CallMoves(t) /\ call'[t].pc = "idle" /\ call'[t].result = "module"
    BY <1>1, <1>3, ReturnMoves DEF Load, CacheTypes, Result
  <2>3. CallKnows(t)' /\ ~Owner(t)'
    BY <2>2 DEF CallKnows, Knows, Owner
  <2>4. in_memory' \in {in_memory, touch(c), put(c)}
    BY <1>3 DEF Load
  <2> QED
    BY <1>1, <1>2, <2>1, <2>2, <2>3, <2>4, LookKeeps DEF Load
<1>4. CASE ~peek(c) /\ file[c] # "whole"
  <2>1. NoModule(t) /\ in_memory' = in_memory /\ UNCHANGED <<progress, file, job, node>>
    BY <1>4 DEF Load
  <2>2. /\ CallMoves(t) /\ call'[t].pc \in {"idle", "compile_or_fetch"}
        /\ CallKnows(t)' /\ ~Owner(t)'
    BY <1>1, <1>2, <1>4, <2>1, NoModuleKnows
  <2> QED
    BY <1>1, <2>1, <2>2, LookKeeps
<1> QED
  BY <1>3, <1>4

LEMMA OpenKeeps ==
  ASSUME CacheInv, NEW t \in Caller, Open(t)
  PROVE  CacheInv'
<1> DEFINE c == call[t].code
<1>1. /\ InFlight(t) /\ c \in Code /\ CallKnows(t) /\ CacheTypes
      /\ call[t].access \in {"rw", "ro"}
  BY Calling DEF Open, InFlight
<1>2. UNCHANGED <<progress, file, job, node>> /\ in_memory' = in_memory
  BY DEF Open
<1>3. job[c] = "idle"
  BY <1>1 DEF CacheInv, Jobs, Open
<1>4. CASE file[c] # "whole"
  <2>1. NoModule(t) /\ (call[t].fallback => c \notin Compilable)
    BY <1>1, <1>4 DEF Open, CallKnows, Knows
  <2>2. /\ CallMoves(t) /\ call'[t].pc \in {"idle", "compile_or_fetch"}
        /\ CallKnows(t)' /\ ~Owner(t)'
    BY <1>1, <1>2, <1>4, <2>1, NoModuleKnows
  <2> QED
    BY <1>1, <1>2, <2>2, LookKeeps
<1>5. CASE file[c] = "whole" /\ call[t].access = "rw"
  <2>1. CallMoves(t) /\ call'[t].pc = "adopt"
    BY <1>1, <1>5, GotoMoves DEF Open, CacheTypes, Pc
  <2>2. CallKnows(t)' /\ ~Owner(t)'
    BY <1>1, <1>2, <1>5, <2>1 DEF CallKnows, Knows, Owner, CallMoves
  <2> QED
    BY <1>1, <1>2, <1>3, <1>5, <2>1, <2>2, LookKeeps
<1>6. CASE file[c] = "whole" /\ call[t].access # "rw"
  <2>1. CallMoves(t) /\ call'[t].pc = "idle" /\ call'[t].result = "module"
    BY <1>1, <1>6, ReturnMoves DEF Open, CacheTypes, Result
  <2>2. CallKnows(t)' /\ ~Owner(t)'
    BY <2>1 DEF CallKnows, Knows, Owner
  <2> QED
    BY <1>1, <1>2, <2>1, <2>2, LookKeeps
<1> QED
  BY <1>4, <1>5, <1>6

LEMMA CompileOrPeekKeeps ==
  ASSUME CacheInv, NEW t \in Caller, CompileOrPeek(t)
  PROVE  CacheInv'
<1> DEFINE c == call[t].code
<1>1. InFlight(t) /\ c \in Code /\ CallKnows(t) /\ CacheTypes
  BY Calling DEF CompileOrPeek, InFlight
<1>2. UNCHANGED <<progress, file, job, node>> /\ in_memory' = in_memory
  BY DEF CompileOrPeek
<1>3. CASE progress[c] # "None"
  <2>1. CallMoves(t) /\ call'[t].pc = "fetch" /\ call'[t].fallback
    BY <1>1, <1>3, FallbackMoves DEF CompileOrPeek, CacheTypes
  <2>2. CallKnows(t)' /\ ~Owner(t)'
    BY <1>1, <1>2, <1>3, <2>1 DEF CallKnows, Knows, Owner, CallMoves, CompileOrPeek
  <2> QED
    BY <1>1, <1>2, <2>1, <2>2, LookKeeps
<1>4. CASE progress[c] = "None"
  <2>1. CallMoves(t) /\ call'[t].pc = "compile"
    BY <1>1, <1>4, GotoMoves DEF CompileOrPeek, CacheTypes, Pc
  <2>2. CallKnows(t)' /\ ~Owner(t)'
    BY <1>1, <1>2, <2>1 DEF CallKnows, Knows, Owner, CallMoves, CompileOrPeek
  <2>3. job[c] = "idle"
    BY <1>1, <1>4 DEF CacheInv, Jobs
  <2> QED
    BY <1>1, <1>2, <2>1, <2>2, <2>3, LookKeeps
<1> QED
  BY <1>3, <1>4

-----------------------------------------------------------------------------
(* The steps of a caller that change the mark or the file.                 *)
LEMMA OthersKnow ==
  ASSUME CacheInv, NEW t \in Caller, NEW u \in Caller, u # t, CallMoves(t)
  PROVE  call'[u] = call[u] /\ CallKnows(u)
BY DEF CallMoves, CacheInv

(* What a caller that does not compile knows outlasts the compilation.     *)
LEMMA BystanderKnows ==
  ASSUME NEW u \in Caller, CallKnows(u), ~Owner(u), call'[u] = call[u], node' = node,
         NEW c, c = call[u].code,
         progress[c] # "None",
         progress[c] = "Done" => progress'[c] = "Done" /\ file[c] = "whole",
         call[u].pc = "adopt" => file'[c] = "whole",
         progress'[c] = "None" => c \notin Compilable /\ file'[c] # "whole"
  PROVE  CallKnows(u)'
<1> DEFINE k == call[u]
<1>1. Knows(k, progress[c], file[c], node.kind, node.rerun)
  BY DEF CallKnows
<1>2. ~(k.access = "rw" /\ k.pc \in {"compile", "write", "publish", "unmark"})
  BY DEF Owner
<1>3. Knows(k, progress'[c], file'[c], node.kind, node.rerun)
  <2> HIDE DEF k
  <2>1. c = k.code /\ (k.pc = "adopt" => file'[c] = "whole")
    BY DEF k
  <2> QED
    BY <1>1, <1>2, <2>1 DEF Knows
<1> QED
  BY <1>3 DEF CallKnows

LEMMA OwnerAlone ==
  ASSUME CacheInv, NEW t \in Caller, Owner(t)
  PROVE  \A u \in Caller \ {t} : call[u].code = call[t].code =>
           /\ ~Owner(u)
           /\ call[t].pc \in {"compile", "write"} => call[u].pc # "adopt"
BY DEF CacheInv, Exclusion

LEMMA AdoptKeeps ==
  ASSUME CacheInv, NEW t \in Caller, Adopt(t)
  PROVE  CacheInv'
<1> DEFINE c == call[t].code
<1>1. InFlight(t) /\ c \in Code /\ CallKnows(t) /\ CacheTypes
  BY Calling DEF Adopt, InFlight
<1>2. file[c] = "whole" /\ c \in Compilable
  BY <1>1 DEF CallKnows, Knows, Adopt, CacheInv, Files
<1>3. CallMoves(t) /\ call'[t].pc = "idle" /\ call'[t].result = "module"
  BY <1>1, ReturnMoves DEF Adopt, CacheTypes, Result
<1>4. MemoryStep(c)
  BY <1>1, MemoryChange DEF Adopt, CacheTypes
<1>5. /\ progress' \in [Code -> {"None", "Compiling", "Done"}] /\ progress'[c] = "Done"
      /\ \A d \in Code \ {c} : progress'[d] = progress[d]
      /\ file' = file /\ node' = node /\ job' = job
  BY <1>1 DEF Adopt, CacheTypes
<1>6. OneCode(c)
  BY <1>1, <1>2, <1>4, <1>5 DEF OneCode, CacheTypes
<1>7. CallKnows(t)' /\ ~Owner(t)'
  BY <1>3 DEF CallKnows, Knows, Owner
<1>8. OthersOf(t, c)
  <2> SUFFICES ASSUME NEW u \in Caller \ {t}, call[u].code = c
               PROVE  CallKnows(u)'
    BY <1>3, <1>7 DEF OthersOf
  <2>1. call'[u] = call[u] /\ CallKnows(u)
    BY <1>3, OthersKnow
  <2>2. Owner(u) => call[u].pc \notin {"compile", "write"}
    BY DEF CacheInv, Exclusion, Adopt
  <2> DEFINE k == call[u]
  <2>3. Knows(k, progress[c], "whole", node.kind, node.rerun)
    BY <1>2, <2>1 DEF CallKnows
  <2>4. k.code \in Compilable /\ ~(k.access = "rw" /\ k.pc \in {"compile", "write"})
    BY <1>2, <2>2 DEF Owner
  <2>5. Knows(k, "Done", "whole", node.kind, node.rerun)
    <3> HIDE DEF k
    <3> QED
      BY <2>3, <2>4 DEF Knows
  <2> QED
    BY <1>2, <1>5, <2>1, <2>5 DEF CallKnows
<1>9. job[c] = "idle"
  BY <1>1 DEF CacheInv, Jobs, Adopt
<1> QED
  BY <1>1, <1>3, <1>5, <1>6, <1>7, <1>8, <1>9, CallerStepKeeps

LEMMA CompileOrFetchKeeps ==
  ASSUME CacheInv, NEW t \in Caller, CompileOrFetch(t)
  PROVE  CacheInv'
<1> DEFINE c == call[t].code
<1>1. InFlight(t) /\ c \in Code /\ CallKnows(t) /\ CacheTypes
  BY Calling DEF CompileOrFetch, InFlight
<1>2. file' = file /\ node' = node /\ job' = job /\ in_memory' = in_memory
  BY DEF CompileOrFetch
<1>3. CASE progress[c] # "None"
  <2>1. CallMoves(t) /\ call'[t].pc = "fetch" /\ call'[t].fallback /\ progress' = progress
    BY <1>1, <1>3, FallbackMoves DEF CompileOrFetch, CacheTypes
  <2>2. CallKnows(t)' /\ ~Owner(t)'
    BY <1>1, <1>2, <1>3, <2>1 DEF CallKnows, Knows, Owner, CallMoves, CompileOrFetch
  <2> QED
    BY <1>1, <1>2, <2>1, <2>2, LookKeeps
<1>4. CASE progress[c] = "None"
  <2>1. CallMoves(t) /\ call'[t].pc = "compile"
    BY <1>1, <1>4, GotoMoves DEF CompileOrFetch, CacheTypes, Pc
  <2>2. /\ progress' \in [Code -> {"None", "Compiling", "Done"}]
        /\ progress'[c] = "Compiling"
        /\ \A d \in Code \ {c} : progress'[d] = progress[d]
    BY <1>1, <1>4 DEF CompileOrFetch, CacheTypes
  <2>3. MemoryStep(c)
    BY <1>1, <1>2, MemoryChange DEF CacheTypes
  <2>4. ~peek_next(c)
    BY <1>1, <1>2, <1>4 DEF CacheInv, Files, peek, peek_next
  <2>5. OneCode(c)
    BY <1>1, <1>2, <2>2, <2>3, <2>4 DEF OneCode, CacheTypes, CacheInv, Files
  <2>6. CallKnows(t)'
    BY <1>1, <1>2, <1>4, <2>1, <2>2 DEF CallKnows, Knows, CallMoves, CompileOrFetch
  <2>7. OthersOf(t, c)
    <3> SUFFICES ASSUME NEW u \in Caller \ {t}, call[u].code = c
                 PROVE  CallKnows(u)' /\ ~Owner(u) /\ call[u].pc # "adopt"
      BY <2>1 DEF OthersOf
    <3>1. call'[u] = call[u] /\ CallKnows(u)
      BY <2>1, OthersKnow
    <3>2. ~Owner(u) /\ call[u].pc # "load"
      BY <1>4, <3>1 DEF CallKnows, Knows, Owner
    <3>3. call[u].pc # "adopt"
      <4>1. node.kind = "tx" => call[u].pc = "idle"
        BY <1>1 DEF CacheInv, Exclusion, InFlight
      <4>2. node.kind = "vp" => file[c] # "whole"
        BY <1>1, <1>4 DEF CallKnows, Knows, CompileOrFetch
      <4>3. node.kind \in {"tx", "vp"}
        BY <1>1 DEF CacheTypes
      <4> QED
        BY <3>1, <4>1, <4>2, <4>3 DEF CallKnows, Knows
    <3>4. CallKnows(u)'
      BY <1>2, <1>4, <2>2, <3>1, <3>2 DEF CallKnows, Knows, Owner
    <3> QED
      BY <3>2, <3>3, <3>4
  <2>8. job[c] = "idle"
    BY <1>1, <1>4 DEF CacheInv, Jobs
  <2> QED
    BY <1>1, <1>2, <2>1, <2>5, <2>6, <2>7, <2>8, CallerStepKeeps
<1> QED
  BY <1>3, <1>4

(* An owner that moves on, or ends: only the file or the mark of its code  *)
(* changes, and no other caller of that code relies on it.                 *)
LEMMA OwnerStepKeeps ==
  ASSUME CacheInv, NEW t \in Caller, Owner(t), CallMoves(t),
         UNCHANGED <<job, node>>,
         OneCode(call[t].code),
         CallKnows(t)',
         call'[t].pc # "adopt",
         call'[t].pc \in {"compile", "write"} => call[t].pc \in {"compile", "write"},
         \A u \in Caller \ {t} : call[u].code = call[t].code /\ ~Owner(u) => CallKnows(u)'
  PROVE  CacheInv'
<1> DEFINE c == call[t].code
<1>1. InFlight(t)
  BY DEF InFlight, Owner
<1>2. c \in Code
  BY <1>1, Calling
<1>3. OthersOf(t, c)
  BY OwnerAlone DEF OthersOf
<1>4. job[c] = "idle"
  BY <1>2 DEF CacheInv, Jobs, Owner
<1> QED
  BY <1>1, <1>3, <1>4, CallerStepKeeps

LEMMA CompileKeeps ==
  ASSUME CacheInv, NEW t \in Caller, Compile(t)
  PROVE  CacheInv'
<1> DEFINE c == call[t].code
<1>1. /\ InFlight(t) /\ c \in Code /\ CallKnows(t) /\ CacheTypes
      /\ call[t].access \in {"rw", "ro"}
  BY Calling DEF Compile, InFlight
<1>2. progress' = progress /\ node' = node /\ job' = job /\ in_memory' = in_memory
  BY DEF Compile
<1>3. CASE call[t].access # "rw"
  <2> DEFINE r == IF c \in Compilable THEN "module" ELSE "CompileError"
  <2>1. file' = file /\ Return(t, r) /\ r \in Result
    BY <1>3 DEF Compile, Result
  <2> HIDE DEF r
  <2>2. CallMoves(t) /\ call'[t].pc = "idle" /\ call'[t].result = r
    BY <1>1, <2>1, ReturnMoves DEF CacheTypes
  <2>3. CallKnows(t)' /\ ~Owner(t)'
    BY <2>2 DEF CallKnows, Knows, Owner, CallMoves, r
  <2> QED
    BY <1>1, <1>2, <2>1, <2>2, <2>3, LookKeeps
<1>4. CASE call[t].access = "rw" /\ c \notin Compilable
  <2>1. file' = file /\ CallMoves(t) /\ call'[t].pc = "unmark"
    BY <1>1, <1>4, GotoMoves DEF Compile, CacheTypes, Pc
  <2>2. CallKnows(t)' /\ Owner(t)
    BY <1>1, <1>2, <1>4, <2>1 DEF CallKnows, Knows, Owner, CallMoves, Compile
  <2>3. MemoryStep(c) /\ (peek_next(c) <=> peek(c))
    BY <1>1, <1>2, MemoryChange DEF CacheTypes, peek, peek_next
  <2>4. OneCode(c)
    BY <1>1, <1>2, <2>1, <2>3 DEF OneCode, CacheTypes, CacheInv, Files
  <2>5. ASSUME NEW u \in Caller \ {t} PROVE CallKnows(u)'
    BY <1>2, <2>1, OthersKnow, KnowsStays
  <2> QED
    BY <1>2, <2>1, <2>2, <2>4, <2>5, OwnerStepKeeps
<1>5. CASE call[t].access = "rw" /\ c \in Compilable
  <2>1. CallMoves(t) /\ call'[t].pc = "write"
    BY <1>1, <1>5, GotoMoves DEF Compile, CacheTypes, Pc
  <2>2. /\ file' \in [Code -> {"none", "partial", "whole"}] /\ file'[c] = "partial"
        /\ \A d \in Code \ {c} : file'[d] = file[d]
    BY <1>1, <1>5 DEF Compile, CacheTypes
  <2>3. Owner(t) /\ progress[c] = "Compiling"
    BY <1>1, <1>5 DEF CallKnows, Knows, Owner, Compile
  <2>4. CallKnows(t)'
    BY <1>1, <1>2, <1>5, <2>1, <2>2, <2>3 DEF CallKnows, Knows, CallMoves
  <2>5. MemoryStep(c) /\ ~peek_next(c)
    BY <1>1, <1>2, <2>3, MemoryChange DEF CacheTypes, CacheInv, Files, peek, peek_next
  <2>6. OneCode(c)
    BY <1>1, <1>2, <1>5, <2>2, <2>3, <2>5 DEF OneCode, CacheTypes
  <2>7. ASSUME NEW u \in Caller \ {t}, call[u].code = c, ~Owner(u) PROVE CallKnows(u)'
    <3>1. call[u].pc # "adopt"
      BY <2>3, <2>7, OwnerAlone DEF Compile
    <3>2. call'[u] = call[u] /\ CallKnows(u)
      BY <2>1, OthersKnow
    <3> QED
      BY <1>2, <2>2, <2>3, <2>7, <3>1, <3>2, BystanderKnows
  <2> QED
    BY <1>2, <2>1, <2>3, <2>4, <2>6, <2>7, OwnerStepKeeps DEF Compile
<1> QED
  BY <1>3, <1>4, <1>5

LEMMA WriteFileKeeps ==
  ASSUME CacheInv, NEW t \in Caller, WriteFile(t)
  PROVE  CacheInv'
<1> DEFINE c == call[t].code
<1>1. InFlight(t) /\ c \in Code /\ CallKnows(t) /\ CacheTypes
  BY Calling DEF WriteFile, InFlight
<1>2. progress' = progress /\ node' = node /\ job' = job /\ in_memory' = in_memory
  BY DEF WriteFile
<1>3. Owner(t) /\ progress[c] = "Compiling" /\ c \in Compilable
  BY <1>1 DEF CallKnows, Knows, Owner, WriteFile
<1>4. CallMoves(t) /\ call'[t].pc = "publish"
  BY <1>1, GotoMoves DEF WriteFile, CacheTypes, Pc
<1>5. /\ file' \in [Code -> {"none", "partial", "whole"}] /\ file'[c] = "whole"
      /\ \A d \in Code \ {c} : file'[d] = file[d]
  BY <1>1 DEF WriteFile, CacheTypes
<1>6. CallKnows(t)'
  BY <1>1, <1>2, <1>3, <1>4, <1>5 DEF CallKnows, Knows, CallMoves, Owner
<1>7. MemoryStep(c) /\ ~peek_next(c)
  BY <1>1, <1>2, <1>3, MemoryChange DEF CacheTypes, CacheInv, Files, peek, peek_next
<1>8. OneCode(c)
  BY <1>1, <1>2, <1>3, <1>5, <1>7 DEF OneCode, CacheTypes
<1>9. ASSUME NEW u \in Caller \ {t}, call[u].code = c, ~Owner(u) PROVE CallKnows(u)'
  <2>1. call'[u] = call[u] /\ CallKnows(u)
    BY <1>4, OthersKnow
  <2> QED
    BY <1>2, <1>3, <1>5, <1>9, <2>1, BystanderKnows
<1> QED
  BY <1>2, <1>3, <1>4, <1>6, <1>8, <1>9, OwnerStepKeeps

LEMMA PublishKeeps ==
  ASSUME CacheInv, NEW t \in Caller, Publish(t)
  PROVE  CacheInv'
<1> DEFINE c == call[t].code
<1>1. InFlight(t) /\ c \in Code /\ CallKnows(t) /\ CacheTypes
  BY Calling DEF Publish, InFlight
<1>2. Owner(t) /\ file[c] = "whole" /\ c \in Compilable /\ progress[c] # "None"
  BY <1>1 DEF CallKnows, Knows, Owner, Publish
<1>3. CallMoves(t) /\ call'[t].pc = "idle" /\ call'[t].result = "module"
  BY <1>1, ReturnMoves DEF Publish, CacheTypes, Result
<1>4. /\ progress' \in [Code -> {"None", "Compiling", "Done"}] /\ progress'[c] = "Done"
      /\ \A d \in Code \ {c} : progress'[d] = progress[d]
      /\ file' = file /\ node' = node /\ job' = job
  BY <1>1 DEF Publish, CacheTypes
<1>5. CallKnows(t)'
  BY <1>3 DEF CallKnows, Knows
<1>6. MemoryStep(c)
  BY <1>1, MemoryChange DEF Publish, CacheTypes
<1>7. OneCode(c)
  BY <1>1, <1>2, <1>4, <1>6 DEF OneCode, CacheTypes
<1>8. ASSUME NEW u \in Caller \ {t}, call[u].code = c, ~Owner(u) PROVE CallKnows(u)'
  <2>1. call'[u] = call[u] /\ CallKnows(u)
    BY <1>3, OthersKnow
  <2> QED
    BY <1>2, <1>4, <1>8, <2>1, BystanderKnows
<1> QED
  BY <1>2, <1>3, <1>4, <1>5, <1>7, <1>8, OwnerStepKeeps

LEMMA UnmarkKeeps ==
  ASSUME CacheInv, NEW t \in Caller, Unmark(t)
  PROVE  CacheInv'
<1> DEFINE c == call[t].code
<1>1. InFlight(t) /\ c \in Code /\ CallKnows(t) /\ CacheTypes
  BY Calling DEF Unmark, InFlight
<1>2. Owner(t) /\ progress[c] = "Compiling" /\ c \notin Compilable /\ file[c] # "whole"
  BY <1>1 DEF CallKnows, Knows, Owner, Unmark, CacheInv, Files
<1>3. CallMoves(t) /\ call'[t].pc = "idle"
  BY <1>1, ReturnMoves DEF Unmark, CacheTypes, Result
<1>4. /\ progress' \in [Code -> {"None", "Compiling", "Done"}] /\ progress'[c] = "None"
      /\ \A d \in Code \ {c} : progress'[d] = progress[d]
      /\ file' = file /\ node' = node /\ job' = job /\ in_memory' = in_memory
  BY <1>1 DEF Unmark, CacheTypes
<1>5. CallKnows(t)'
  BY <1>2, <1>3 DEF CallKnows, Knows, CallMoves
<1>6. MemoryStep(c) /\ ~peek_next(c)
  BY <1>1, <1>2, <1>4, MemoryChange DEF CacheTypes, CacheInv, Files, peek, peek_next
<1>7. OneCode(c)
  BY <1>1, <1>2, <1>4, <1>6 DEF OneCode, CacheTypes, CacheInv, Files
<1>8. ASSUME NEW u \in Caller \ {t}, call[u].code = c, ~Owner(u) PROVE CallKnows(u)'
  <2>1. call'[u] = call[u] /\ CallKnows(u)
    BY <1>3, OthersKnow
  <2>2. /\ progress[c] # "None" /\ progress[c] # "Done" /\ c \notin Compilable
        /\ file'[c] # "whole" /\ node' = node
    BY <1>2, <1>4
  <2>3. call[u].pc # "adopt"
    BY <1>2, <1>8, <2>1 DEF CallKnows, Knows
  <2> QED
    BY <1>8, <2>1, <2>2, <2>3, BystanderKnows
<1> QED
  BY <1>2, <1>3, <1>4, <1>5, <1>7, <1>8, OwnerStepKeeps

-----------------------------------------------------------------------------
(* The steps of a background thread.                                       *)
LEMMA JobStepKeeps ==
  ASSUME CacheInv, NEW c \in Code, job[c] # "idle",
         UNCHANGED <<in_memory, call, node>>,
         progress' \in [Code -> {"None", "Compiling", "Done"}],
         file' \in [Code -> {"none", "partial", "whole"}],
         \A d \in Code \ {c} : progress'[d] = progress[d] /\ file'[d] = file[d],
         job' \in [Code -> {"idle", "compile", "write", "publish", "unmark", "panicked"}],
         \A d \in Code \ {c} : job'[d] = job[d],
         file'[c] # "none" => c \in Compilable,
         progress'[c] = "Done" => file'[c] = "whole",
         progress'[c] = "None" => c \notin Compilable,
         job'[c] # "idle" => progress'[c] = "Compiling",
         job'[c] \in {"write", "publish"} => c \in Compilable,
         job'[c] = "publish" => file'[c] = "whole",
         job'[c] = "unmark" => c \notin Compilable
  PROVE  CacheInv'
<1>1. /\ CacheTypes /\ NotUp /\ node.up /\ progress[c] = "Compiling" /\ ~peek(c)
      /\ \A t \in Caller : call[t].code = c =>
           call[t].pc \in {"idle", "fetch", "look", "compile_or_fetch"}
  BY DEF CacheInv, NotUp, Jobs, Files
<1>2. CacheTypes'
  BY <1>1 DEF CacheTypes
<1>3. NotUp'
  BY <1>1 DEF NotUp
<1>4. Files'
  <2>1. MemoryStep(c) /\ ~peek_next(c)
    BY <1>1, MemoryChange DEF CacheTypes, peek, peek_next
  <2>2. OneCode(c)
    BY <2>1 DEF OneCode
  <2> QED
    BY <2>2, FilesAfter
<1>5. Jobs'
  <2>1. \A d \in Code \ {c} : job'[d] # "idle" =>
          /\ progress'[d] = "Compiling"
          /\ job'[d] \in {"write", "publish"} => d \in Compilable
          /\ job'[d] = "publish" => file'[d] = "whole"
          /\ job'[d] = "unmark" => d \notin Compilable
          /\ \A t \in Caller : call[t].code = d =>
               call[t].pc \in {"idle", "fetch", "look", "compile_or_fetch"}
    BY DEF CacheInv, Jobs
  <2> QED
    BY <1>1, <2>1 DEF Jobs
<1>6. ASSUME NEW t \in Caller PROVE CallKnows(t)'
  <2>1. call'[t] = call[t] /\ CallKnows(t) /\ node' = node
    BY DEF CacheInv
  <2>2. CASE call[t].code = c
    <3>1. file'[c] = "whole" => progress'[c] # "None"
      OBVIOUS
    <3> QED
      BY <1>1, <2>1, <2>2, <3>1 DEF CallKnows, Knows
  <2>3. CASE call[t].code # c
    <3>1. call[t].code \in Code => /\ progress'[call[t].code] = progress[call[t].code]
                                   /\ file'[call[t].code] = file[call[t].code]
      BY <2>3
    <3> QED
      BY <2>1, <3>1, KnowsStays
  <2> QED
    BY <2>2, <2>3
<1>7. Exclusion'
  <2>1. \A t \in Caller : Owner(t)' <=> Owner(t)
    BY DEF Owner
  <2> QED
    BY <2>1 DEF CacheInv, Exclusion
<1> QED
  BY <1>2, <1>3, <1>4, <1>5, <1>6, <1>7 DEF CacheInv

LEMMA JobsKeep ==
  ASSUME CacheInv, NEW c \in Code, JobStep(c) \/ JobPanic(c)
  PROVE  CacheInv'
<1>1. /\ CacheTypes /\ Files
      /\ job[c] # "idle" =>
           /\ progress[c] = "Compiling"
           /\ job[c] \in {"write", "publish"} => c \in Compilable
           /\ job[c] = "publish" => file[c] = "whole"
           /\ job[c] = "unmark" => c \notin Compilable
  BY DEF CacheInv, Jobs
<1>2. CASE JobCompile(c)
  <2>1. /\ file' \in [Code -> {"none", "partial", "whole"}]
        /\ \A d \in Code \ {c} : file'[d] = file[d]
        /\ job' \in [Code -> {"idle", "compile", "write", "publish", "unmark", "panicked"}]
        /\ \A d \in Code \ {c} : job'[d] = job[d]
        /\ job'[c] = IF c \in Compilable THEN "write" ELSE "unmark"
        /\ c \in Compilable \/ file' = file
    BY <1>1, <1>2 DEF JobCompile, CacheTypes
  <2> QED
    BY <1>1, <1>2, <2>1, JobStepKeeps DEF JobCompile, CacheTypes, Files
<1>3. CASE JobWrite(c)
  <2>1. /\ file' \in [Code -> {"none", "partial", "whole"}] /\ file'[c] = "whole"
        /\ \A d \in Code \ {c} : file'[d] = file[d]
        /\ job' \in [Code -> {"idle", "compile", "write", "publish", "unmark", "panicked"}]
        /\ \A d \in Code \ {c} : job'[d] = job[d]
        /\ job'[c] = "publish"
    BY <1>1, <1>3 DEF JobWrite, CacheTypes
  <2> QED
    BY <1>1, <1>3, <2>1, JobStepKeeps DEF JobWrite, CacheTypes
<1>4. CASE JobPanic(c)
  <2>1. /\ job' \in [Code -> {"idle", "compile", "write", "publish", "unmark", "panicked"}]
        /\ \A d \in Code \ {c} : job'[d] = job[d]
        /\ job'[c] = "panicked"
    BY <1>1, <1>4 DEF JobPanic, CacheTypes
  <2> QED
    BY <1>1, <1>4, <2>1, JobStepKeeps DEF JobPanic, CacheTypes, Files
<1>5. CASE JobFinish(c)
  <2>1. /\ progress' \in [Code -> {"None", "Compiling", "Done"}]
        /\ progress'[c] = IF job[c] = "publish" THEN "Done" ELSE "None"
        /\ \A d \in Code \ {c} : progress'[d] = progress[d]
        /\ job' \in [Code -> {"idle", "compile", "write", "publish", "unmark", "panicked"}]
        /\ \A d \in Code \ {c} : job'[d] = job[d]
        /\ job'[c] = "idle"
    BY <1>1, <1>5 DEF JobFinish, CacheTypes
  <2>2. progress'[c] = "Done" => file[c] = "whole"
    BY <1>1, <1>5, <2>1 DEF JobFinish
  <2>3. progress'[c] = "None" => c \notin Compilable
    BY <1>1, <1>5, <2>1 DEF JobFinish
  <2>4. file \in [Code -> {"none", "partial", "whole"}] /\ (file[c] # "none" => c \in Compilable)
    BY <1>1 DEF CacheTypes, Files
  <2>5. job[c] # "idle" /\ UNCHANGED <<in_memory, file, call, node>>
    BY <1>5 DEF JobFinish
  <2> QED
    BY <2>1, <2>2, <2>3, <2>4, <2>5, JobStepKeeps
<1> QED
  BY <1>2, <1>3, <1>4, <1>5 DEF JobStep

-----------------------------------------------------------------------------
(* What starts and ends everything.                                        *)
LEMMA IdleFields == Idle.pc = "idle" /\ Idle.code = "" /\ "" \notin Compilable
<1>1. Idle.pc = "idle" /\ Idle.code = ""
  BY DEF Idle
<1>2. "" \notin Compilable
  BY CacheAssumption DEF CacheAssumption
<1> QED
  BY <1>1, <1>2

LEMMA IdleKnows ==
  ASSUME NEW t \in Caller, call[t] = Idle
  PROVE  CallKnows(t) /\ call[t].pc = "idle" /\ ~Owner(t)
<1>1. call[t].pc = "idle" /\ call[t].code = "" /\ "" \notin Compilable
  BY IdleFields
<1> QED
  BY <1>1 DEF CallKnows, Knows, Owner

LEMMA IdleTyped == Idle \in CallRecord
BY DEF Idle, CallRecord, Pc, Result

LEMMA CacheInitially == CacheInit => CacheInv
<1> SUFFICES ASSUME CacheInit PROVE CacheInv
  OBVIOUS
<1>1. \A t \in Caller : call[t] = Idle
  BY DEF CacheInit
<1>2. CacheTypes
  BY IdleTyped DEF CacheInit, CacheTypes
<1>3. NotUp /\ Files /\ Jobs
  BY <1>1 DEF CacheInit, NotUp, Files, Jobs, peek
<1>4. \A t \in Caller : CallKnows(t) /\ call[t].pc = "idle" /\ ~Owner(t)
  BY <1>1, IdleKnows
<1>5. Exclusion
  BY <1>4 DEF Exclusion
<1> QED
  BY <1>2, <1>3, <1>4, <1>5 DEF CacheInv

LEMMA InitChainKeeps ==
  ASSUME CacheInv, InitChain
  PROVE  CacheInv'
<1>1. /\ CacheTypes /\ \A t \in Caller : call[t] = Idle
      /\ \A c \in Code : progress[c] = "None" /\ job[c] = "idle"
      /\ node.crashes = 0 => \A c \in Code : file[c] = "none"
  BY DEF CacheInv, NotUp, InitChain
<1>2. /\ node' \in [kind : {"tx", "vp"}, up : BOOLEAN, rerun : BOOLEAN,
                    committed : BOOLEAN, crashes : Nat]
      /\ node'.up /\ (node'.rerun <=> node.crashes > 0)
  <2> DEFINE r == node.crashes > 0
  <2>1. r \in BOOLEAN /\ node' = [node EXCEPT !.up = TRUE, !.rerun = r]
    BY DEF InitChain
  <2> HIDE DEF r
  <2>2. /\ node' \in [kind : {"tx", "vp"}, up : BOOLEAN, rerun : BOOLEAN,
                      committed : BOOLEAN, crashes : Nat]
        /\ node'.up = TRUE /\ node'.rerun = r
    BY <1>1, <2>1, Zenon DEF CacheTypes
  <2> QED
    BY <2>2 DEF r
<1>3. UNCHANGED <<in_memory, file, call>> /\ \A t \in Caller : call'[t] = Idle
  BY <1>1 DEF InitChain
<1>4. /\ progress' \in [Code -> {"None", "Compiling", "Done"}]
      /\ job' \in [Code -> {"idle", "compile", "write", "publish", "unmark", "panicked"}]
      /\ \A c \in Code : progress'[c] = "Done" => file[c] # "none"
      /\ \A c \in Code : job'[c] # "idle" => job'[c] = "compile" /\ progress'[c] = "Compiling"
  BY <1>1 DEF InitChain, pre_compile, CacheTypes
<1>5. CacheTypes'
  BY <1>1, <1>2, <1>3, <1>4 DEF CacheTypes
<1>6. NotUp'
  BY <1>2 DEF NotUp
<1>7. Files'
  <2>1. \A c \in Code : ~peek(c) /\ (file[c] # "none" => c \in Compilable)
    BY <1>1 DEF CacheInv, Files
  <2>2. \A c \in Code : ~peek_next(c)
    BY <1>3, <2>1 DEF peek, peek_next
  <2>3. \A c \in Code : file[c] \in {"none", "partial", "whole"}
    BY <1>1 DEF CacheTypes
  <2>4. node.crashes \in Nat
    BY <1>1 DEF CacheTypes
  <2> QED
    BY <1>1, <1>2, <1>3, <1>4, <2>1, <2>2, <2>3, <2>4 DEF Files, peek, peek_next
<1>8. \A t \in Caller : (CallKnows(t) /\ call[t].pc = "idle" /\ ~Owner(t))'
  <2> SUFFICES ASSUME NEW t \in Caller
               PROVE  (CallKnows(t) /\ call[t].pc = "idle" /\ ~Owner(t))'
    OBVIOUS
  <2>1. call'[t].pc = "idle" /\ call'[t].code = "" /\ "" \notin Compilable
    BY <1>3, IdleFields
  <2> QED
    BY <2>1 DEF CallKnows, Knows, Owner
<1>9. Jobs' /\ Exclusion'
  BY <1>4, <1>8 DEF Jobs, Exclusion
<1> QED
  BY <1>5, <1>6, <1>7, <1>8, <1>9 DEF CacheInv

LEMMA CommitFirstKeeps ==
  ASSUME CacheInv, CommitFirst
  PROVE  CacheInv'
<1>1. /\ node' \in [kind : {"tx", "vp"}, up : BOOLEAN, rerun : BOOLEAN,
                    committed : BOOLEAN, crashes : Nat]
      /\ node'.up /\ node'.rerun = node.rerun /\ node'.kind = node.kind
  BY DEF CommitFirst, CacheInv, CacheTypes
<1>2. UNCHANGED <<progress, in_memory, file, call, job>>
  BY DEF CommitFirst
<1>3. CacheTypes' /\ NotUp'
  BY <1>1, <1>2 DEF CacheInv, CacheTypes, NotUp
<1>4. Files' /\ Jobs'
  <2>1. Files'
    BY <1>1, <1>2 DEF CacheInv, Files, peek
  <2>2. Jobs'
    BY <1>2 DEF CacheInv, Jobs
  <2> QED
    BY <2>1, <2>2
<1>5. ASSUME NEW t \in Caller PROVE CallKnows(t)'
  <2>1. CallKnows(t)
    BY DEF CacheInv
  <2> QED
    BY <1>1, <1>2, <2>1, KnowsStays
<1>6. Exclusion'
  BY <1>1, <1>2 DEF CacheInv, Exclusion, Owner
<1> QED
  BY <1>3, <1>4, <1>5, <1>6 DEF CacheInv

LEMMA CrashCacheKeeps ==
  ASSUME CacheInv, CrashCache
  PROVE  CacheInv'
<1>1. /\ node' \in [kind : {"tx", "vp"}, up : BOOLEAN, rerun : BOOLEAN,
                    committed : BOOLEAN, crashes : Nat]
      /\ node'.crashes # 0
  <2> DEFINE n == node.crashes + 1
  <2>1. n \in Nat /\ n # 0 /\ node.committed \in BOOLEAN
    BY DEF CacheInv, CacheTypes
  <2>2. node' = [node EXCEPT !.up = node.committed, !.rerun = FALSE, !.crashes = n]
    BY DEF CrashCache
  <2> HIDE DEF n
  <2>3. /\ node' \in [kind : {"tx", "vp"}, up : BOOLEAN, rerun : BOOLEAN,
                      committed : BOOLEAN, crashes : Nat]
        /\ node'.crashes = n
    BY <2>1, <2>2, Zenon DEF CacheInv, CacheTypes
  <2> QED
    BY <2>1, <2>3
<1>2. /\ \A c \in Code : progress'[c] = "None" /\ job'[c] = "idle" /\ ~peek_next(c)
      /\ file' = file /\ \A t \in Caller : call'[t] = Idle
  BY DEF CrashCache, peek_next
<1>3. CacheTypes'
  BY <1>1, IdleTyped DEF CrashCache, CacheInv, CacheTypes
<1>4. NotUp' /\ Files'
  BY <1>1, <1>2 DEF CacheInv, NotUp, Files, peek, peek_next
<1>5. \A t \in Caller : (CallKnows(t) /\ call[t].pc = "idle" /\ ~Owner(t))'
  <2> SUFFICES ASSUME NEW t \in Caller
               PROVE  (CallKnows(t) /\ call[t].pc = "idle" /\ ~Owner(t))'
    OBVIOUS
  <2>1. call'[t].pc = "idle" /\ call'[t].code = "" /\ "" \notin Compilable
    BY <1>2, IdleFields
  <2> QED
    BY <2>1 DEF CallKnows, Knows, Owner
<1>6. Jobs' /\ Exclusion'
  BY <1>2, <1>5 DEF Jobs, Exclusion
<1> QED
  BY <1>3, <1>4, <1>5, <1>6 DEF CacheInv

LEMMA ExecuteKeeps ==
  ASSUME CacheInv, NEW callers \in SUBSET Caller, NEW by \in {"hash", "code"},
         NEW access \in {"rw", "ro"}, NEW wanted \in [callers -> Code],
         Execute(wanted, by, access)
  PROVE  CacheInv'
<1> DEFINE pc == IF by = "hash" THEN "fetch" ELSE "compile_or_fetch"
           k(t) == [pc |-> pc, code |-> wanted[t], access |-> access,
                    result |-> "", fallback |-> FALSE]
<1>1. /\ CacheTypes /\ node.up /\ UNCHANGED <<progress, in_memory, file, job, node>>
      /\ call' = [t \in Caller |-> IF t \notin callers THEN Idle ELSE k(t)]
      /\ node.kind = "vp" => pc = "fetch"
      /\ node.kind = "tx" => \E x \in Caller : callers = {x}
      /\ pc \in {"fetch", "compile_or_fetch"}
  BY DEF Execute, CacheInv
<1>2. \A t \in callers : k(t) \in CallRecord
  BY DEF CallRecord, Pc, Result
<1>3. CacheTypes'
  BY <1>1, <1>2, IdleTyped DEF CacheTypes
<1>4. \A t \in callers : /\ call'[t].pc = pc /\ call'[t].code \in Code
                         /\ call'[t].access = access /\ ~call'[t].fallback
  BY <1>1
<1>5. \A t \in Caller \ callers :
        call'[t].pc = "idle" /\ call'[t].code = "" /\ "" \notin Compilable
  BY <1>1, IdleFields
<1> HIDE DEF pc
<1>6. ASSUME NEW t \in Caller
      PROVE  /\ CallKnows(t)' /\ ~Owner(t)'
             /\ call'[t].pc \in {"idle", "fetch", "compile_or_fetch"}
  <2>1. CASE t \in callers
    BY <1>1, <1>4, <2>1 DEF CallKnows, Knows, Owner
  <2>2. CASE t \notin callers
    BY <1>5, <2>2 DEF CallKnows, Knows, Owner
  <2> QED
    BY <2>1, <2>2
<1>7. NotUp' /\ Files' /\ Jobs'
  <2>1. NotUp'
    BY <1>1 DEF NotUp
  <2>2. Files'
    BY <1>1 DEF CacheInv, Files, peek
  <2>3. Jobs'
    BY <1>1, <1>6 DEF CacheInv, Jobs
  <2> QED
    BY <2>1, <2>2, <2>3
<1>8. Exclusion'
  <2> SUFFICES ASSUME NEW t \in Caller, NEW u \in Caller, t # u, node.kind = "tx"
               PROVE  call'[t].pc = "idle" \/ call'[u].pc = "idle"
    BY <1>1, <1>6 DEF Exclusion
  <2>1. PICK x \in Caller : callers = {x}
    BY <1>1
  <2> QED
    BY <1>5, <2>1
<1> QED
  BY <1>3, <1>6, <1>7, <1>8 DEF CacheInv

-----------------------------------------------------------------------------
LEMMA CacheStep ==
  ASSUME CacheInv, [CacheNext]_cacheVars
  PROVE  CacheInv'
<1>1. CASE UNCHANGED cacheVars
  <2>1. UNCHANGED <<progress, in_memory, file, call, job, node>>
    BY <1>1 DEF cacheVars
  <2>2. CacheTypes' /\ NotUp'
    BY <2>1 DEF CacheInv, CacheTypes, NotUp
  <2>4. Files'
    BY <2>1 DEF CacheInv, Files, peek
  <2>5. Jobs'
    BY <2>1 DEF CacheInv, Jobs
  <2>6. Exclusion'
    BY <2>1 DEF CacheInv, Exclusion, Owner
  <2>3. ASSUME NEW t \in Caller PROVE CallKnows(t)'
    <3>1. CallKnows(t)
      BY DEF CacheInv
    <3> QED
      BY <2>1, <3>1, KnowsStays
  <2> QED
    BY <2>2, <2>3, <2>4, <2>5, <2>6 DEF CacheInv
<1>2. ASSUME NEW callers \in SUBSET Caller, NEW by \in {"hash", "code"},
             NEW access \in {"rw", "ro"}, NEW wanted \in [callers -> Code],
             Execute(wanted, by, access)
      PROVE  CacheInv'
  BY <1>2, ExecuteKeeps
<1>3. ASSUME NEW t \in Caller, CallerStep(t) PROVE CacheInv'
  BY <1>3, FetchKeeps, LookStepKeeps, LoadKeeps, OpenKeeps, AdoptKeeps,
     CompileOrPeekKeeps, CompileOrFetchKeeps, CompileKeeps, WriteFileKeeps,
     PublishKeeps, UnmarkKeeps DEF CallerStep
<1>4. ASSUME NEW c \in Code, JobStep(c) \/ JobPanic(c) PROVE CacheInv'
  BY <1>4, JobsKeep
<1> QED
  BY <1>1, <1>2, <1>3, <1>4, InitChainKeeps, CommitFirstKeeps, CrashCacheKeeps
  DEF CacheNext

(* At most one thread compiles a code for the files.                       *)
LEMMA OneCompiler ==
  ASSUME CacheInv, NEW c \in Code, NEW x \in Compilers(c), NEW y \in Compilers(c)
  PROVE  x = y
BY DEF Compilers, CacheInv, Exclusion, Owner, Jobs

(* Whatever the callers and the background threads of the cache do, and    *)
(* whenever the process crashes: no two threads compile a code for the     *)
(* files, a module in memory was compiled and written, a code marked Done  *)
(* has its file, and a code that compiles gives a module to whoever asks   *)
(* for it, but for a file that a crash cut short                           *)
(* (fetch_or_compile, pre_compile in compilation_cache/common.rs).         *)
THEOREM CacheConsistentAlways == CacheSpec => []CacheConsistent
<1>1. CacheInv => CacheConsistent
  <2> SUFFICES ASSUME CacheInv PROVE CacheConsistent
    OBVIOUS
  <2>1. \A c \in Code : \A x, y \in Compilers(c) : x = y
    BY OneCompiler
  <2>2. \A c \in Code : /\ peek(c) => file[c] = "whole" /\ c \in Compilable
                        /\ progress[c] = "Done" =>
                             file[c] = "whole" \/ (node.rerun /\ file[c] = "partial")
    BY DEF CacheInv, Files
  <2>3. ASSUME NEW t \in Caller, ~InFlight(t), call[t].code \in Compilable,
               call[t].result # "module"
        PROVE  /\ call[t].result = "NoCompiledWasmCode"
               /\ file[call[t].code] = "partial" /\ node.rerun
    <3>1. CallKnows(t)
      BY DEF CacheInv
    <3> QED
      BY <2>3, <3>1 DEF CallKnows, Knows, InFlight
  <2> QED
    BY <2>1, <2>2, <2>3 DEF CacheConsistent
<1> QED
  BY <1>1, CacheInitially, CacheStep, PTL DEF CacheSpec

=============================================================================
