------------------------ MODULE SandboxAdaptersProofs ------------------------
(* Theorems about SandboxAdapters, for any number of calls and any set of   *)
(* artifacts.                                                               *)
EXTENDS SandboxAdapters, WellFoundedInduction, TLAPS

-----------------------------------------------------------------------------
(* Helpers.                                                                *)

\* A set of files has a first one.
LEMMA LeastFile ==
  ASSUME NEW S \in SUBSET Nat, S # {}
  PROVE  \E x \in S : \A y \in S : x <= y
<1> DEFINE R == OpToRel(<, Nat)
<1>1. IsWellFoundedOn(R, Nat)
  BY NatLessThanWellFounded
<1>2. \A x, y \in Nat : <<x, y>> \in R <=> x < y
  BY DEF OpToRel
<1> HIDE DEF R
<1>3. PICK x \in S : \A y \in S : ~(<<y, x>> \in R)
  BY <1>1, WFMin
<1>4. ASSUME NEW y \in S PROVE x <= y
  <2>1. x \in Nat /\ y \in Nat
    OBVIOUS
  <2>2. ~(<<y, x>> \in R)
    BY <1>3
  <2>3. ~(y < x)
    BY <1>2, <2>1, <2>2
  <2> QED
    BY <2>1, <2>3
<1> QED
  BY <1>4

\* What an adapter still has to read are files, and the first of them is one.
LEMMA FirstIsPending ==
  ASSUME NEW c \in Calls, Pending(c) # {}
  PROVE  First(c) \in Pending(c) /\ First(c) \in Files
<1>1. Pending(c) \subseteq Files /\ Files \subseteq Nat
  BY ArtifactsAssumption DEF Pending, Wanted, Files, DigestFile
<1>2. \E f \in Pending(c) : \A g \in Pending(c) : f <= g
  BY <1>1, LeastFile
<1> QED
  BY <1>1, <1>2 DEF First

-----------------------------------------------------------------------------
(* Types.                                                                  *)

\* The runtime keeps its types.
LEMMA RuntimeTypes ==
  ASSUME Runtime!PromiseTypes, NEW c \in Calls,
         \/ \E isLate \in BOOLEAN : Runtime!Call(c, isLate)
         \/ Runtime!Expire(c) \/ Runtime!TaskStarts(c) \/ Runtime!TaskEnds(c)
         \/ Runtime!Return(c)
  PROVE  Runtime!PromiseTypes'
<1> USE DEF Runtime!PromiseTypes, Runtime!Stages, Runtime!Verdicts
<1>1. ASSUME NEW isLate \in BOOLEAN, Runtime!Call(c, isLate) PROVE Runtime!PromiseTypes'
  BY <1>1 DEF Runtime!Call
<1>2. ASSUME Runtime!Expire(c) PROVE Runtime!PromiseTypes'
  BY <1>2 DEF Runtime!Expire
<1>3. ASSUME Runtime!TaskStarts(c) PROVE Runtime!PromiseTypes'
  BY <1>3 DEF Runtime!TaskStarts
<1>4. ASSUME Runtime!TaskEnds(c) PROVE Runtime!PromiseTypes'
  BY <1>4 DEF Runtime!TaskEnds
<1>5. ASSUME Runtime!Return(c) PROVE Runtime!PromiseTypes'
  BY <1>5 DEF Runtime!Return
<1> QED
  BY <1>1, <1>2, <1>3, <1>4, <1>5

AdapterTypes ==
  /\ pc \in [Calls -> Labels]
  /\ job \in [Calls -> Jobs]
  /\ expired \in [Calls -> BOOLEAN]
  /\ limit \in [Calls -> BOOLEAN]
  /\ answer \in [Calls -> Answers]
  /\ taken \in [Calls -> Trees]
  /\ digest \in [Calls -> Calls \cup {None}]
DiskTypes ==
  /\ marker \in [Calls -> Markers]
  /\ files \in Trees
  /\ left \in [Calls -> Trees]
  /\ disturbed \in SUBSET Calls

\* How far a call is, and its call of Run; what it has read and has still to
\* read.
Course(c) ==
  /\ pc[c] \in {"idle", "validate", "available", "run"} => stage[c] = "idle"
  /\ pc[c] \in {"idle", "validate", "available", "run", "judge"} => taken[c] = Empty
  /\ pc[c] \in {"read", "account"} => stage[c] = "returned" /\ verdict[c] = "success"
  /\ pc[c] = "read" => Pending(c) # {}

\* Every action keeps the types.
LEMMA TypeStep ==
  ASSUME TypeOK, \A c \in Calls : Course(c), [Next]_vars
  PROVE  TypeOK'
<1>0. AdapterTypes /\ DiskTypes /\ Runtime!PromiseTypes
  BY DEF TypeOK, AdapterTypes, DiskTypes
<1> HIDE DEF TypeOK
<1> USE <1>0
<1> DEFINE Kept == AdapterTypes' /\ DiskTypes' /\ Runtime!PromiseTypes'
<1>a. ASSUME UNCHANGED <<pc, own, expired>> PROVE AdapterTypes'
  BY <1>a DEF own, AdapterTypes
<1>b. ASSUME UNCHANGED disk PROVE DiskTypes'
  BY <1>b DEF disk, DiskTypes
<1>c. ASSUME UNCHANGED runtime PROVE Runtime!PromiseTypes'
  BY <1>c DEF runtime, Runtime!PromiseTypes, Runtime!Stages, Runtime!Verdicts
<1>1. ASSUME NEW c \in Calls, Start(c) PROVE Kept
  <2>1. AdapterTypes'
    BY <1>1 DEF Start, Goto, AdapterTypes, Labels
  <2> QED
    BY <1>1, <1>b, <1>c, <2>1 DEF Start
<1>2. ASSUME NEW c \in Calls, Validate(c) \/ AskAvailable(c) PROVE Kept
  <2>1. AdapterTypes'
    BY <1>2 DEF Validate, AskAvailable, Answer, Goto, AdapterTypes, Labels, Answers
  <2> QED
    BY <1>2, <1>b, <1>c, <2>1 DEF Validate, AskAvailable
<1>3. ASSUME NEW c \in Calls, CallRun(c) PROVE Kept
  <2>1. AdapterTypes'
    BY <1>3 DEF CallRun, Goto, own, AdapterTypes, Labels
  <2>2. expired[c] \in BOOLEAN
    BY DEF AdapterTypes
  <2> QED
    BY <1>3, <1>b, <2>1, <2>2, RuntimeTypes DEF CallRun
<1>4. ASSUME NEW c \in Calls, JudgeResult(c) PROVE Kept
  <2>1. pc' \in [Calls -> Labels] /\ limit' \in [Calls -> BOOLEAN]
        /\ answer' \in [Calls -> Answers]
    BY <1>4 DEF JudgeResult, Answer, Goto, AdapterTypes, Labels, Answers
  <2>2. digest' \in [Calls -> Calls \cup {None}]
    BY <1>4 DEF JudgeResult, AdapterTypes
  <2>3. AdapterTypes'
    BY <1>4, <2>1, <2>2 DEF JudgeResult, AdapterTypes
  <2> QED
    BY <1>4, <1>b, <1>c, <2>3 DEF JudgeResult
<1>5. ASSUME NEW c \in Calls, ReadFile(c) PROVE Kept
  <2>1. CASE Answer(c, "failed") /\ UNCHANGED <<taken, digest>>
    <3>1. AdapterTypes'
      BY <1>5, <2>1 DEF ReadFile, Answer, Goto, AdapterTypes, Labels, Answers
    <3> QED
      BY <1>5, <1>b, <1>c, <3>1 DEF ReadFile
  <2>2. CASE /\ files[First(c)] # None
             /\ taken' = [taken EXCEPT ![c][First(c)] = files[First(c)]]
             /\ UNCHANGED answer
    <3> DEFINE f == First(c)
    <3>1. taken' \in [Calls -> Trees]
      <4>0. f \in Files
        BY <1>5, <2>2, FirstIsPending DEF ReadFile, Answer, Course
      <4>1. \A t \in Trees : \A g \in Files : [t EXCEPT ![g] = files[g]] \in Trees
        BY DEF Trees, DiskTypes
      <4>2. taken' = [taken EXCEPT ![c] = [taken[c] EXCEPT ![f] = files[f]]]
        BY <2>2
      <4> HIDE DEF f
      <4> QED
        BY <4>0, <4>1, <4>2 DEF AdapterTypes
    <3>2. pc' \in [Calls -> Labels]
      BY <1>5, <2>2 DEF ReadFile, Goto, Answer, AdapterTypes, Labels
    <3>3. digest' \in [Calls -> Calls \cup {None}]
      <4>1. CASE UNCHANGED digest
        BY <4>1 DEF AdapterTypes
      <4>2. CASE digest' = [digest EXCEPT ![c] = DigestIn(files[f])] /\ pc[c] = "read"
        <5>1. f \in Files
          BY <4>2, FirstIsPending DEF Course
        <5>2. files[f] \in Contents
          BY <5>1 DEF DiskTypes, Trees
        <5>3. files[f].by \in Calls
          BY <2>2, <5>2 DEF Contents, Written
        <5> QED
          BY <4>2, <5>3 DEF DigestIn, AdapterTypes
      <4> QED
        BY <1>5, <2>2, <4>1, <4>2 DEF ReadFile
    <3>4. AdapterTypes'
      BY <1>5, <2>2, <3>1, <3>2, <3>3 DEF ReadFile, AdapterTypes
    <3> QED
      BY <1>5, <1>b, <1>c, <3>4 DEF ReadFile
  <2> QED
    BY <1>5, <2>1, <2>2 DEF ReadFile
<1>6. ASSUME NEW c \in Calls, Account(c) PROVE Kept
  <2>1. AdapterTypes'
    BY <1>6 DEF Account, Answer, Goto, AdapterTypes, Labels, Answers
  <2> QED
    BY <1>6, <1>b, <1>c, <2>1 DEF Account
<1>7. ASSUME NEW c \in Calls, Expire(c) PROVE Kept
  <2>1. AdapterTypes'
    BY <1>7 DEF Expire, own, AdapterTypes
  <2>2. UNCHANGED runtime \/ Runtime!Expire(c)
    BY <1>7 DEF Expire
  <2> QED
    BY <1>7, <1>b, <1>c, <2>1, <2>2, RuntimeTypes DEF Expire
<1>8. ASSUME NEW c \in Calls,
             \/ Runtime!Expire(c) \/ Runtime!Return(c) \/ Runtime!TaskStarts(c),
             UNCHANGED <<pc, own, expired, disk>>
      PROVE  Kept
  BY <1>8, <1>a, <1>b, RuntimeTypes
<1>9. ASSUME NEW c \in Calls, TaskEnds(c) PROVE Kept
  <2>1. DiskTypes'
    BY <1>9 DEF TaskEnds, DiskTypes
  <2> QED
    BY <1>9, <1>a, <2>1, RuntimeTypes DEF TaskEnds
<1>10. ASSUME NEW c \in Calls, NEW f \in Files, TaskWrites(c, f) PROVE Kept
  <2>1. files' \in Trees
    <3>1. files'[f] \in Written
      BY <1>10 DEF TaskWrites, Written, DiskTypes, Trees
    <3> QED
      BY <1>10, <3>1 DEF TaskWrites, DiskTypes, Trees, Contents
  <2>2. DiskTypes'
    BY <1>10, <2>1 DEF TaskWrites, DiskTypes
  <2> QED
    BY <1>10, <1>a, <1>c, <2>2 DEF TaskWrites
<1>11. ASSUME NEW c \in Calls, TaskPrints(c) PROVE Kept
  <2>1. DiskTypes'
    BY <1>11 DEF TaskPrints, DiskTypes
  <2> QED
    BY <1>11, <1>a, <1>c, <2>1 DEF TaskPrints
<1>12. ASSUME Quiet \/ UNCHANGED vars PROVE Kept
  <2>1. UNCHANGED <<pc, own, expired>> /\ UNCHANGED disk /\ UNCHANGED runtime
    BY <1>12 DEF Quiet, vars
  <2> QED
    BY <2>1, <1>a, <1>b, <1>c
<1>13. Kept
  <2> HIDE DEF Kept
  <2>1. ASSUME NEW c \in Calls, RunExpires(c) \/ RunReturns(c) \/ TaskStarts(c)
        PROVE  Kept
    BY <1>8, <2>1 DEF RunExpires, RunReturns, TaskStarts
  <2> QED
    BY <1>1, <1>2, <1>3, <1>4, <1>5, <1>6, <1>7, <1>9, <1>10, <1>11, <1>12, <2>1
    DEF Next
<1> QED
  BY <1>13 DEF TypeOK, AdapterTypes, DiskTypes

\* The initial states have the types.
LEMMA TypeInit == Init => TypeOK
<1> SUFFICES ASSUME Init PROVE TypeOK
  OBVIOUS
<1>1. Plain \in Jobs /\ Empty \in Trees
  BY DEF Plain, Jobs, Commands, Empty, Trees, Contents
<1>2. AdapterTypes
  BY <1>1 DEF Init, AdapterTypes, Labels, Answers
<1>3. DiskTypes
  BY <1>1 DEF Init, DiskTypes, Markers
<1>4. Runtime!PromiseTypes
  BY DEF Init, Runtime!Init, Runtime!PromiseTypes, Runtime!Stages, Runtime!Verdicts
<1> QED
  BY <1>2, <1>3, <1>4 DEF TypeOK, AdapterTypes, DiskTypes


-----------------------------------------------------------------------------
(* One call.                                                               *)

\* What a call's deadline, its call of Run and its answer say of each other.
Judged(c) ==
  /\ stage[c] = "idle" => ~late[c]
  /\ stage[c] # "returned" => verdict[c] = "none"
  /\ verdict[c] = "success" => task[c] = "over" /\ code[c] = "zero"
  /\ late[c] => expired[c] \/ job[c].shorter
  /\ answer[c] = "done" => pc[c] = "answered" /\ verdict[c] = "success"
  /\ limit[c] => expired[c] /\ answer[c] = "failed" /\ pc[c] = "answered"
  /\ pc[c] = "answered" => stage[c] \in {"idle", "returned"}
  /\ pc[c] = "answered" /\ stage[c] = "returned" /\ late[c] /\ verdict[c] # "success" =>
       limit[c] \/ job[c].shorter

\* The files a command has read are those its task left.
Hashed(c) == \/ c \in disturbed
             \/ \A f \in Files : taken[c][f] # None =>
                  f \in Artifacts /\ taken[c][f] = left[c][f]
Digested(c) ==
  \/ marker[c] = "valid" /\ digest[c] = c
  \/ /\ marker[c] # "valid"
     /\ \/ left[c][DigestFile] = [by |-> digest[c], whole |-> TRUE]
        \/ c \in disturbed

\* What a call has read, against what its task left.
Held(c) ==
  /\ task[c] = "over" /\ pc[c] # "answered" => c \in disturbed \/ files = left[c]
  /\ job[c].listed /\ (pc[c] \in {"read", "account"} \/ answer[c] = "done") => Hashed(c)
  /\ job[c].listed /\ (pc[c] = "account" \/ answer[c] = "done") =>
       \A f \in Artifacts : taken[c][f] # None
  /\ job[c].kind = "build" /\ pc[c] = "read" => marker[c] # "valid" /\ taken[c] = Empty
  /\ job[c].kind = "build" /\ (pc[c] = "account" \/ answer[c] = "done") => Digested(c)

Known(c) == Course(c) /\ Judged(c) /\ Held(c)

AdapterInv == TypeOK /\ \A c \in Calls : Known(c)

Own(c) == <<pc[c], job[c], expired[c], limit[c], answer[c], taken[c], digest[c], marker[c],
            left[c], stage[c], late[c], task[c], code[c], verdict[c]>>

\* The workspace changes only under the eyes of those it matters to.
Watched(c) ==
  /\ disturbed \subseteq disturbed'
  /\ files' # files /\ task[c] = "over" /\ pc[c] # "answered" => c \in disturbed'

\* What is known of a call outlives every step that leaves what it has alone.
LEMMA OwnKept ==
  ASSUME NEW c \in Calls, Known(c), Own(c)' = Own(c), Watched(c)
  PROVE  Known(c)'
<1>1. /\ pc'[c] = pc[c] /\ job'[c] = job[c] /\ expired'[c] = expired[c]
      /\ limit'[c] = limit[c] /\ answer'[c] = answer[c] /\ taken'[c] = taken[c]
      /\ digest'[c] = digest[c] /\ marker'[c] = marker[c] /\ left'[c] = left[c]
      /\ stage'[c] = stage[c] /\ late'[c] = late[c] /\ task'[c] = task[c]
      /\ code'[c] = code[c] /\ verdict'[c] = verdict[c]
  BY DEF Own
<1>2. Pending(c)' = Pending(c)
  BY <1>1 DEF Pending, Wanted, Announced
<1>3. Course(c)'
  BY <1>1, <1>2 DEF Known, Course, Empty
<1>4. Judged(c)'
  BY <1>1 DEF Known, Judged
<1>5. /\ Hashed(c) => Hashed(c)'
      /\ Digested(c) => Digested(c)'
  BY <1>1 DEF Watched, Hashed, Digested
<1>6. Held(c)'
  BY <1>1, <1>5 DEF Known, Held, Watched, Empty
<1> QED
  BY <1>3, <1>4, <1>6 DEF Known

\* A step of one call leaves what another has alone.
LEMMA OthersKept ==
  ASSUME TypeOK, NEW c \in Calls,
         \/ Start(c) \/ Validate(c) \/ AskAvailable(c) \/ CallRun(c)
         \/ JudgeResult(c) \/ ReadFile(c) \/ Account(c)
         \/ Expire(c) \/ RunExpires(c) \/ RunReturns(c)
         \/ TaskStarts(c) \/ TaskEnds(c) \/ TaskPrints(c),
         NEW d \in Calls, d # c
  PROVE  Own(d)' = Own(d) /\ Watched(d)
<1> USE DEF TypeOK, Own, Watched, Runtime!PromiseTypes
<1>1. ASSUME Start(c) \/ Validate(c) \/ AskAvailable(c) \/ Account(c)
      PROVE  Own(d)' = Own(d) /\ Watched(d)
  <2>1. UNCHANGED <<expired, taken, digest, disk, runtime>>
    BY <1>1 DEF Start, Validate, AskAvailable, Account
  <2>2. pc'[d] = pc[d] /\ job'[d] = job[d] /\ limit'[d] = limit[d] /\ answer'[d] = answer[d]
    BY <1>1 DEF Start, Validate, AskAvailable, Account, Answer, Goto
  <2> QED
    BY <2>1, <2>2 DEF disk, runtime
<1>2. ASSUME CallRun(c) PROVE Own(d)' = Own(d) /\ Watched(d)
  BY <1>2 DEF CallRun, Runtime!Call, Goto, own, disk
<1>3. ASSUME JudgeResult(c) PROVE Own(d)' = Own(d) /\ Watched(d)
  <2>1. UNCHANGED <<expired, job, taken, disk, runtime>>
    BY <1>3 DEF JudgeResult
  <2>2. /\ pc'[d] = pc[d] /\ limit'[d] = limit[d] /\ answer'[d] = answer[d]
        /\ digest'[d] = digest[d]
    BY <1>3 DEF JudgeResult, Answer, Goto
  <2> QED
    BY <2>1, <2>2 DEF disk, runtime
<1>4. ASSUME ReadFile(c) PROVE Own(d)' = Own(d) /\ Watched(d)
  <2>1. UNCHANGED <<expired, job, limit, disk, runtime>>
    BY <1>4 DEF ReadFile
  <2>2. pc'[d] = pc[d] /\ answer'[d] = answer[d]
    BY <1>4 DEF ReadFile, Answer, Goto
  <2>3. taken'[d] = taken[d] /\ digest'[d] = digest[d]
    BY <1>4 DEF ReadFile
  <2> QED
    BY <2>1, <2>2, <2>3 DEF disk, runtime
<1>5. ASSUME Expire(c) \/ RunExpires(c) \/ RunReturns(c) \/ TaskStarts(c)
      PROVE  Own(d)' = Own(d) /\ Watched(d)
  <2>1. UNCHANGED <<pc, own, disk>>
    BY <1>5 DEF Expire, RunExpires, RunReturns, TaskStarts
  <2>2. expired'[d] = expired[d]
    BY <1>5 DEF Expire, RunExpires, RunReturns, TaskStarts
  <2>3. /\ stage'[d] = stage[d] /\ late'[d] = late[d] /\ task'[d] = task[d]
        /\ code'[d] = code[d] /\ verdict'[d] = verdict[d]
    BY <1>5 DEF Expire, RunExpires, RunReturns, TaskStarts, runtime, Runtime!Expire,
         Runtime!Return, Runtime!TaskStarts
  <2> QED
    BY <2>1, <2>2, <2>3 DEF own, disk
<1>6. ASSUME TaskEnds(c) PROVE Own(d)' = Own(d) /\ Watched(d)
  <2>1. /\ UNCHANGED <<pc, own, expired, files, disturbed, marker>>
        /\ left'[d] = left[d]
    BY <1>6 DEF TaskEnds
  <2>2. UNCHANGED <<stage, late, verdict>> /\ task'[d] = task[d] /\ code'[d] = code[d]
    BY <1>6 DEF TaskEnds, Runtime!TaskEnds
  <2> QED
    BY <2>1, <2>2 DEF own
<1>7. ASSUME TaskPrints(c) PROVE Own(d)' = Own(d) /\ Watched(d)
  BY <1>7 DEF TaskPrints, own, runtime
<1> QED
  BY <1>1, <1>2, <1>3, <1>4, <1>5, <1>6, <1>7

\* Up to the call of Run.
LEMMA BeforeRun ==
  ASSUME TypeOK, NEW c \in Calls, Known(c),
         Start(c) \/ Validate(c) \/ AskAvailable(c) \/ CallRun(c)
  PROVE  Known(c)'
<1> USE DEF TypeOK, Known, Course, Judged, Held, Runtime!PromiseTypes
<1>1. /\ pc[c] \in {"idle", "validate", "available", "run"}
      /\ pc'[c] \in {"validate", "available", "run", "judge", "answered"}
      /\ answer'[c] # "done" /\ UNCHANGED <<expired, taken, digest, disk, task, code, verdict>>
      /\ UNCHANGED limit
  BY DEF Start, Validate, AskAvailable, CallRun, Answer, Goto, own, Runtime!Call, runtime
<1>2. /\ stage[c] = "idle" /\ taken[c] = Empty /\ verdict[c] = "none" /\ ~late[c]
      /\ ~limit[c]
  BY <1>1
<1>3. /\ pc'[c] = "judge" => late'[c] = expired[c] /\ stage'[c] = "running"
                             /\ UNCHANGED job
      /\ pc'[c] # "judge" => UNCHANGED <<stage, late>>
  BY DEF Start, Validate, AskAvailable, CallRun, Answer, Goto, own, Runtime!Call, runtime
<1>4. Course(c)'
  BY <1>1, <1>2, <1>3 DEF Empty
<1>5. Judged(c)'
  BY <1>1, <1>2, <1>3
<1>6. Held(c)'
  BY <1>1, <1>2, <1>3 DEF disk
<1> QED
  BY <1>4, <1>5, <1>6

\* Run's return is judged.
LEMMA JudgeKept ==
  ASSUME TypeOK, NEW c \in Calls, Known(c), JudgeResult(c)
  PROVE  Known(c)'
<1> USE DEF TypeOK, Known, Course, Judged, Held, Runtime!PromiseTypes
<1>1. /\ pc[c] = "judge" /\ stage[c] = "returned" /\ taken[c] = Empty
      /\ ~limit[c] /\ answer[c] # "done"
      /\ UNCHANGED <<expired, job, taken, files, left, disturbed, marker>>
      /\ UNCHANGED <<stage, late, task, code, verdict>>
  BY DEF JudgeResult, disk, runtime
<1>2. CASE Judgement(c) = "good"
  <2>1. ~expired[c] /\ verdict[c] = "success" /\ task[c] = "over"
    BY <1>2 DEF Judgement
  <2>2. /\ pc'[c] = IF Wanted(c) = {} THEN "account" ELSE "read"
        /\ digest'[c] = IF Announced(c) THEN c ELSE digest[c]
        /\ UNCHANGED <<answer, limit>>
    BY <1>2 DEF JudgeResult, Goto
  <2>3. /\ Wanted(c)' = Wanted(c) /\ Announced(c)' = Announced(c)
        /\ \A f \in Files : taken[c][f] = None
    BY <1>1 DEF Wanted, Announced, Empty
  <2>4. Wanted(c) \subseteq Files
    BY DEF Wanted, Files
  <2>5. Pending(c)' = Wanted(c)
    BY <1>1, <2>3, <2>4 DEF Pending
  <2>6. Course(c)'
    BY <1>1, <2>1, <2>2, <2>5
  <2>7. Judged(c)'
    BY <1>1, <2>1, <2>2
  <2>8. ASSUME job[c].kind = "build"
        PROVE  /\ Wanted(c) = {} => Announced(c)
               /\ Wanted(c) # {} => ~Announced(c)
    <3>1. ~job[c].listed
      BY <2>8 DEF Jobs, Commands, Builds
    <3>2. Wanted(c) = {DigestFile} \ {f \in Files : Announced(c)}
      BY <2>8, <3>1 DEF Wanted
    <3> QED
      BY <3>2 DEF Files
  <2>9. ASSUME job[c].listed
        PROVE  Hashed(c)' /\ (Wanted(c) = {} => Artifacts = {})
    BY <1>1, <2>3, <2>9 DEF Hashed, Wanted, Jobs, Commands, Builds
  <2>10. ASSUME job[c].kind = "build", Wanted(c) = {}
         PROVE  Digested(c)'
    BY <1>1, <2>2, <2>8, <2>10 DEF Digested, Announced
  <2>11. ASSUME job[c].kind = "build", Wanted(c) # {}
         PROVE  marker[c] # "valid"
    BY <2>8, <2>11 DEF Announced
  <2>12. Held(c)'
    BY <1>1, <2>1, <2>2, <2>9, <2>10, <2>11 DEF Empty
  <2> QED
    BY <2>6, <2>7, <2>12
<1>3. CASE Judgement(c) # "good"
  <2>1. /\ pc'[c] = "answered" /\ answer'[c] = "failed" /\ UNCHANGED digest
        /\ limit'[c] = (Judgement(c) = "timeout")
    BY <1>3 DEF JudgeResult, Answer, Goto
  <2>2. limit'[c] <=> expired[c]
    BY <2>1 DEF Judgement
  <2>3. Course(c)' /\ Held(c)'
    BY <1>1, <2>1
  <2>4. Judged(c)'
    BY <1>1, <2>1, <2>2
  <2> QED
    BY <2>3, <2>4
<1> QED
  BY <1>2, <1>3

\* A file is read.
LEMMA ReadKept ==
  ASSUME TypeOK, NEW c \in Calls, Known(c), ReadFile(c)
  PROVE  Known(c)'
<1> USE DEF TypeOK, Known, Course, Judged, Held, Runtime!PromiseTypes
<1> DEFINE f == First(c)
<1>1. /\ pc[c] = "read" /\ stage[c] = "returned" /\ verdict[c] = "success"
      /\ task[c] = "over" /\ ~limit[c] /\ answer[c] # "done"
      /\ UNCHANGED <<expired, job, limit, files, left, disturbed, marker>>
      /\ UNCHANGED <<stage, late, task, code, verdict>>
  BY DEF ReadFile, disk, runtime
<1>2. CASE Answer(c, "failed") /\ UNCHANGED <<taken, digest>>
  <2>1. pc'[c] = "answered" /\ answer'[c] = "failed"
    BY <1>2 DEF Answer, Goto
  <2> QED
    BY <1>1, <1>2, <2>1
<1>3. CASE /\ files[f] # None
           /\ taken' = [taken EXCEPT ![c][f] = files[f]]
           /\ \/ /\ job[c].kind = "command"
                 /\ Goto(c, IF Pending(c) = {f} THEN "account" ELSE "read")
                 /\ UNCHANGED digest
              \/ /\ job[c].kind = "build" /\ files[f].whole
                 /\ digest' = [digest EXCEPT ![c] = DigestIn(files[f])]
                 /\ Goto(c, "account")
           /\ UNCHANGED answer
  <2>1. f \in Pending(c) /\ f \in Files
    BY <1>1, FirstIsPending
  <2>2. /\ \A g \in Files \ {f} : taken'[c][g] = taken[c][g]
        /\ taken'[c][f] = files[f]
    BY <1>3, <2>1 DEF Trees
  <2>3. c \in disturbed \/ files[f] = left[c][f]
    BY <1>1
  <2>4. Judged(c)'
    BY <1>1, <1>3 DEF Goto
  <2>5. CASE job[c].kind = "command"
    <3>1. pc'[c] = IF Pending(c) = {f} THEN "account" ELSE "read"
      BY <1>3, <2>5 DEF Goto
    <3>2. Pending(c)' = Pending(c) \ {f}
      BY <1>1, <1>3, <2>1, <2>2, <2>5 DEF Pending, Wanted, Announced, Files
    <3>3. Course(c)'
      BY <1>1, <2>1, <3>1, <3>2
    <3>4. job[c].listed => f \in Artifacts /\ Pending(c) = {g \in Artifacts : taken[c][g] = None}
      BY <2>1 DEF Pending, Wanted, Jobs, Commands, Builds
    <3>5. job[c].listed => Hashed(c)'
      BY <1>1, <2>1, <2>2, <2>3, <3>4 DEF Hashed
    <3>6. job[c].listed /\ pc'[c] = "account" => \A g \in Artifacts : taken'[c][g] # None
      BY <1>3, <2>2, <3>1, <3>4 DEF Files
    <3>7. Held(c)'
      BY <1>1, <1>3, <2>5, <3>1, <3>5, <3>6
    <3> QED
      BY <2>4, <3>3, <3>7
  <2>6. CASE job[c].kind = "build"
    <3>1. /\ files[f].whole /\ digest' = [digest EXCEPT ![c] = files[f].by]
          /\ pc'[c] = "account"
      BY <1>3, <2>6 DEF Goto, DigestIn
    <3>2. ~job[c].listed
      BY <2>6 DEF Jobs, Commands, Builds
    <3>3. f = DigestFile
      BY <2>1, <2>6, <3>2 DEF Pending, Wanted
    <3>4. files[f] = [by |-> files[f].by, whole |-> TRUE]
      <4>1. files[f] \in Written
        BY <1>3, <2>1 DEF Trees, Contents
      <4> QED
        BY <3>1, <4>1 DEF Written
    <3>5. Digested(c)'
      BY <1>1, <2>3, <2>6, <3>1, <3>3, <3>4 DEF Digested
    <3>6. Course(c)'
      BY <1>1, <3>1
    <3>7. Held(c)'
      BY <1>1, <1>3, <3>1, <3>2, <3>5
    <3> QED
      BY <2>4, <3>6, <3>7
  <2> QED
    BY <2>5, <2>6 DEF Jobs, Commands, Builds
<1> QED
  BY <1>2, <1>3 DEF ReadFile

\* The account, and the deadlines.
LEMMA AccountKept ==
  ASSUME TypeOK, NEW c \in Calls, Known(c),
         Account(c) \/ Expire(c) \/ RunExpires(c)
  PROVE  Known(c)'
<1> USE DEF TypeOK, Known, Course, Judged, Held, Runtime!PromiseTypes
<1>1. CASE Account(c)
  <2>1. /\ pc[c] = "account" /\ pc'[c] = "answered" /\ answer'[c] \in {"done", "failed"}
        /\ limit'[c] => expired[c] /\ answer'[c] = "failed"
        /\ UNCHANGED <<expired, job, taken, digest, files, left, disturbed, marker>>
        /\ UNCHANGED <<stage, late, task, code, verdict>>
    <3>1. /\ limit' = limit \/ limit'[c] = expired[c]
          /\ answer'[c] = "done" => limit' = limit
      BY <1>1 DEF Account, Answer
    <3> QED
      BY <1>1, <3>1 DEF Account, Answer, Goto, disk, runtime
  <2>2. Course(c)' /\ Judged(c)'
    BY <2>1
  <2>3. Hashed(c)' = Hashed(c) /\ Digested(c)' = Digested(c)
    BY <2>1 DEF Hashed, Digested
  <2>4. Held(c)'
    BY <2>1, <2>3
  <2> QED
    BY <2>2, <2>4
<1>2. CASE Expire(c) \/ RunExpires(c)
  <2>1. /\ UNCHANGED <<pc, job, limit, answer, taken, digest, files, left, disturbed, marker>>
        /\ UNCHANGED <<stage, task, code, verdict>>
    BY <1>2 DEF Expire, RunExpires, own, disk, runtime, Runtime!Expire
  <2>2. /\ expired[c] => expired'[c]
        /\ stage[c] = "idle" => late'[c] = late[c]
        /\ late'[c] => late[c] \/ expired'[c] \/ job[c].shorter
        /\ pc[c] = "answered" => stage[c] = "running" \/ late'[c] = late[c]
    BY <1>2 DEF Expire, RunExpires, own, disk, runtime, Runtime!Expire
  <2>3. Pending(c)' = Pending(c) /\ Hashed(c)' = Hashed(c) /\ Digested(c)' = Digested(c)
    BY <2>1 DEF Pending, Wanted, Announced, Hashed, Digested
  <2>4. Course(c)' /\ Held(c)'
    BY <2>1, <2>3 DEF Empty
  <2>5. Judged(c)'
    BY <2>1, <2>2
  <2> QED
    BY <2>4, <2>5
<1> QED
  BY <1>1, <1>2

\* The runtime and the task.
LEMMA RuntimeKept ==
  ASSUME TypeOK, NEW c \in Calls, Known(c),
         RunReturns(c) \/ TaskStarts(c) \/ TaskEnds(c) \/ TaskPrints(c)
  PROVE  Known(c)'
<1> USE DEF TypeOK, Known, Course, Judged, Held, Runtime!PromiseTypes
<1>1. UNCHANGED <<pc, job, expired, limit, answer, taken, digest, files, disturbed>>
  BY DEF RunReturns, TaskStarts, TaskEnds, TaskPrints, own, disk
<1>2. CASE RunReturns(c)
  <2>1. /\ stage[c] = "running" /\ stage'[c] = "returned"
        /\ verdict'[c] = "success" => task[c] = "over" /\ code[c] = "zero"
        /\ UNCHANGED <<late, task, code, left, marker>>
    BY <1>2 DEF RunReturns, Runtime!Return, Runtime!Warranted, disk
  <2>2. verdict[c] = "none" /\ pc[c] \notin {"idle", "validate", "available", "run", "read",
                                             "account", "answered"}
    BY <2>1
  <2> QED
    BY <1>1, <2>1, <2>2 DEF Empty
<1>3. CASE TaskStarts(c)
  <2>1. /\ task[c] = "never" /\ stage[c] # "idle" /\ task'[c] = "alive"
        /\ UNCHANGED <<stage, late, code, verdict, left, marker>>
    BY <1>3 DEF TaskStarts, Runtime!TaskStarts, disk
  <2>2. verdict[c] # "success"
    BY <2>1
  <2>3. Pending(c)' = Pending(c) /\ Hashed(c)' = Hashed(c) /\ Digested(c)' = Digested(c)
    BY <1>1, <2>1 DEF Pending, Wanted, Announced, Hashed, Digested
  <2> QED
    BY <1>1, <2>1, <2>2, <2>3 DEF Empty
<1>4. CASE TaskEnds(c)
  <2>1. /\ task[c] = "alive" /\ left'[c] = files /\ UNCHANGED marker
        /\ UNCHANGED <<stage, late, verdict>>
    BY <1>4 DEF TaskEnds, Runtime!TaskEnds
  <2>2. verdict[c] # "success" /\ pc[c] \notin {"read", "account"} /\ answer[c] # "done"
    BY <2>1
  <2> QED
    BY <1>1, <2>1, <2>2 DEF Empty
<1>5. CASE TaskPrints(c)
  <2>1. /\ task[c] = "alive" /\ UNCHANGED <<stage, late, task, code, verdict, left>>
    BY <1>5 DEF TaskPrints, runtime
  <2>2. verdict[c] # "success" /\ pc[c] \notin {"read", "account"} /\ answer[c] # "done"
    BY <2>1
  <2> QED
    BY <1>1, <2>1, <2>2 DEF Empty
<1> QED
  BY <1>2, <1>3, <1>4, <1>5

\* A task writes to the workspace, which its own call does not hold yet.
LEMMA WritesWatched ==
  ASSUME TypeOK, NEW c \in Calls, NEW f \in Files, TaskWrites(c, f), NEW d \in Calls
  PROVE  Own(d)' = Own(d) /\ Watched(d)
<1>1. /\ UNCHANGED <<pc, own, expired, left, marker, runtime>>
      /\ disturbed' = disturbed \cup {e \in Calls : task[e] = "over" /\ pc[e] # "answered"}
  BY DEF TaskWrites
<1>2. Own(d)' = Own(d)
  BY <1>1 DEF Own, own, runtime
<1>3. Watched(d)
  BY <1>1 DEF Watched
<1> QED
  BY <1>2, <1>3

\* Every step keeps what is known of every call.
LEMMA AdapterStep == AdapterInv /\ [Next]_vars => AdapterInv'
<1> SUFFICES ASSUME AdapterInv, [Next]_vars PROVE AdapterInv'
  OBVIOUS
<1>1. TypeOK'
  BY TypeStep DEF AdapterInv, Known
<1>2. ASSUME NEW d \in Calls PROVE Known(d)'
  <2>1. ASSUME NEW c \in Calls,
               \/ Start(c) \/ Validate(c) \/ AskAvailable(c) \/ CallRun(c)
               \/ JudgeResult(c) \/ ReadFile(c) \/ Account(c)
               \/ Expire(c) \/ RunExpires(c) \/ RunReturns(c)
               \/ TaskStarts(c) \/ TaskEnds(c) \/ TaskPrints(c)
        PROVE  Known(d)'
    <3>1. CASE d = c
      BY <2>1, <3>1, BeforeRun, JudgeKept, ReadKept, AccountKept, RuntimeKept
      DEF AdapterInv
    <3>2. CASE d # c
      <4>1. Own(d)' = Own(d) /\ Watched(d)
        BY <2>1, <3>2, OthersKept DEF AdapterInv
      <4> QED
        BY <4>1, OwnKept DEF AdapterInv
    <3> QED
      BY <3>1, <3>2
  <2>2. ASSUME NEW c \in Calls, NEW f \in Files, TaskWrites(c, f)
        PROVE  Known(d)'
    <3>1. Own(d)' = Own(d) /\ Watched(d)
      BY <2>2, WritesWatched DEF AdapterInv
    <3> QED
      BY <3>1, OwnKept DEF AdapterInv
  <2>3. CASE Quiet \/ UNCHANGED vars
    <3>1. Own(d)' = Own(d) /\ Watched(d)
      BY <2>3 DEF Quiet, vars, own, disk, runtime, Own, Watched
    <3> QED
      BY <3>1, OwnKept DEF AdapterInv
  <2> QED
    BY <2>1, <2>2, <2>3 DEF Next
<1> QED
  BY <1>1, <1>2 DEF AdapterInv

\* The initial states are so.
LEMMA AdapterInit == Init => AdapterInv
<1> SUFFICES ASSUME Init PROVE AdapterInv
  OBVIOUS
<1> SUFFICES ASSUME NEW c \in Calls PROVE Known(c)
  BY TypeInit DEF AdapterInv
<1>1. /\ pc[c] = "idle" /\ stage[c] = "idle" /\ taken[c] = Empty /\ ~late[c] /\ ~limit[c]
      /\ verdict[c] = "none" /\ task[c] = "never" /\ answer[c] = "none"
  BY DEF Init, Runtime!Init
<1> QED
  BY <1>1 DEF Known, Course, Judged, Held

-----------------------------------------------------------------------------
(* The theorems.                                                           *)

\* No call gets a value its Go type does not have, whatever the tasks do.
THEOREM TypeCorrectness == Spec => []TypeOK
<1>1. AdapterInv => TypeOK
  BY DEF AdapterInv
<1> QED
  BY <1>1, AdapterInit, AdapterStep, PTL DEF Spec

\* A successful command has hashed every artifact as its own task left it,
\* unless another task was writing, for any number of calls and any artifacts.
THEOREM ArtifactsAreTheTasks == Spec => []HashedAsTaskLeft
<1>1. AdapterInv => HashedAsTaskLeft
  <2> SUFFICES ASSUME AdapterInv, NEW c \in Calls, answer[c] = "done", job[c].listed
               PROVE  /\ task[c] = "over"
                      /\ \A f \in Artifacts : taken[c][f] # None
                      /\ \/ taken[c] = [f \in Files |-> IF f \in Artifacts THEN left[c][f]
                                                        ELSE None]
                         \/ c \in disturbed
    BY DEF HashedAsTaskLeft
  <2>1. task[c] = "over" /\ (\A f \in Artifacts : taken[c][f] # None) /\ Hashed(c)
    BY DEF AdapterInv, Known, Judged, Held
  <2>2. taken[c] \in Trees
    BY DEF AdapterInv, TypeOK
  <2>3. CASE \A f \in Files : taken[c][f] # None =>
               f \in Artifacts /\ taken[c][f] = left[c][f]
    <3>1. \A f \in Files : taken[c][f] = IF f \in Artifacts THEN left[c][f] ELSE None
      BY <2>1, <2>3
    <3>2. taken[c] = [f \in Files |-> taken[c][f]]
      BY <2>2 DEF Trees
    <3> QED
      BY <2>1, <3>1, <3>2
  <2> QED
    BY <2>1, <2>3 DEF Hashed
<1> QED
  BY <1>1, AdapterInit, AdapterStep, PTL DEF Spec

\* A successful build reports the digest its task announced or left, or one
\* that another build put there since, for any number of calls.
THEOREM DigestsAreAccountedFor == Spec => []DigestIsAccountedFor
<1>1. AdapterInv => DigestIsAccountedFor
  BY DEF AdapterInv, Known, Held, Digested, DigestIsAccountedFor
<1> QED
  BY <1>1, AdapterInit, AdapterStep, PTL DEF Spec

\* A late failure is called a limit, and nothing else is, for any number of
\* calls.
THEOREM LateRunsNameTheLimit == Spec => []LateRunNamesTheLimit
<1>1. AdapterInv => LateRunNamesTheLimit
  BY DEF AdapterInv, Known, Judged, LateRunNamesTheLimit
<1> QED
  BY <1>1, AdapterInit, AdapterStep, PTL DEF Spec

\* Once a call is answered with success, its task is over for good, and it
\* ended well, for any number of calls.
THEOREM SuccessStays == Spec => SuccessIsFinal
<1> DEFINE Final == \A c \in Calls : answer[c] = "done" =>
                      /\ task[c] = "over" /\ code[c] = "zero" /\ task'[c] = "over"
                      /\ answer'[c] = "done"
<1>1. AdapterInv /\ [Next]_vars => [Final]_vars
  <2> SUFFICES ASSUME AdapterInv, Next, NEW c \in Calls, answer[c] = "done"
               PROVE  /\ task[c] = "over" /\ code[c] = "zero" /\ task'[c] = "over"
                      /\ answer'[c] = "done"
    OBVIOUS
  <2>1. pc[c] = "answered" /\ task[c] = "over" /\ code[c] = "zero"
    BY DEF AdapterInv, Known, Judged
  <2>2. answer'[c] = "done"
    <3>1. ASSUME NEW d \in Calls,
                 \/ Start(d) \/ Validate(d) \/ AskAvailable(d) \/ CallRun(d)
                 \/ JudgeResult(d) \/ ReadFile(d) \/ Account(d)
                 \/ Expire(d) \/ RunExpires(d) \/ RunReturns(d)
                 \/ TaskStarts(d) \/ TaskEnds(d) \/ TaskPrints(d)
          PROVE  answer'[c] = "done"
      <4>1. CASE d = c
        <5>1. ~(\/ Start(d) \/ Validate(d) \/ AskAvailable(d) \/ CallRun(d)
                \/ JudgeResult(d) \/ ReadFile(d) \/ Account(d))
          BY <2>1, <4>1 DEF Start, Validate, AskAvailable, CallRun, JudgeResult, ReadFile,
               Account
        <5>2. UNCHANGED own
          BY <3>1, <5>1 DEF Expire, RunExpires, RunReturns, TaskStarts, TaskEnds, TaskPrints
        <5> QED
          BY <5>2 DEF own
      <4>2. CASE d # c
        <5>1. Own(c)' = Own(c)
          BY <3>1, <4>2, OthersKept DEF AdapterInv
        <5> QED
          BY <5>1 DEF Own
      <4> QED
        BY <4>1, <4>2
    <3>2. ASSUME NEW d \in Calls, NEW f \in Files, TaskWrites(d, f)
          PROVE  answer'[c] = "done"
      BY <3>2 DEF TaskWrites, own
    <3>3. ASSUME Quiet PROVE answer'[c] = "done"
      BY <3>3 DEF Quiet, vars, own
    <3> QED
      BY <3>1, <3>2, <3>3 DEF Next
  <2>3. AdapterInv'
    BY AdapterStep
  <2>4. task'[c] = "over"
    BY <2>2, <2>3 DEF AdapterInv, Known, Judged
  <2> QED
    BY <2>1, <2>2, <2>4
<1> QED
  BY <1>1, AdapterInit, AdapterStep, PTL DEF Spec, SuccessIsFinal
=============================================================================
