----------------------- MODULE KarmadaClients_proofs -----------------------
(***************************************************************************)
(* Theorems about the requests of the Karmada and member cluster clients,  *)
(* for every value of the constants that satisfies ClientsAssumption: any  *)
(* number of managers, migrations, clusters, users' changes and faults.    *)
(***************************************************************************)
EXTENDS KarmadaClients, SequenceFacts

LEMMA SourcesType ==
  ASSUME NEW m \in Migrations
  PROVE  Sources[m] \in Seq(Clusters) /\ Range(Sources[m]) \subseteq Clusters
BY ClientsAssumption, RangeOfLoop

(***************************************************************************)
(* JobPrepared, for a given set of clusters that have the CRD.             *)
(***************************************************************************)
PreparedFor(job, C) ==
  /\ job.pc \in {"getCRD", "postCRD"} =>
       Range(Sources[job.migration]) \subseteq C \cup Range(job.todo)
  /\ job.pc \in {"get", "write"} /\ job.name # NsPolicy =>
       Range(job.todo) \subseteq C

Sound(job, C) ==
  /\ job \in Job /\ WellFormed(job) /\ PreparedFor(job, C)

LEMMA PreparedGrows ==
  ASSUME NEW job, NEW C, NEW D, C \subseteq D, PreparedFor(job, C)
  PROVE  PreparedFor(job, D)
BY DEF PreparedFor

LEMMA IdleSound ==
  ASSUME NEW C
  PROVE  Sound(Idle, C) /\ Idle.read = Nil
BY DEF Sound, Idle, Job, Names, Steps, WellFormed, PreparedFor

(***************************************************************************)
(* The loop over the policies starts, and goes on, with sound jobs if its  *)
(* clusters have the CRD.                                                  *)
(***************************************************************************)
LEMMA PoliciesFromSound ==
  ASSUME NEW C, NEW job \in Job, job.migration \in Migrations,
         NEW s \in Seq(Clusters), Range(s) \subseteq C
  PROVE  Sound(PoliciesFrom(job, s), C) /\ PoliciesFrom(job, s).read = Nil
<1>1. CASE s = <<>>
  BY <1>1, IdleSound DEF PoliciesFrom
<1>2. CASE s # <<>>
  <2>1. Head(s) \in Clusters
    BY <1>2, RangeOfLoop
  <2>2. <<job.migration, Head(s)>> \in Names
    BY <2>1 DEF Names
  <2> QED
    BY <1>2, <2>2 DEF PoliciesFrom, Sound, Job, Steps, WellFormed, PreparedFor
<1> QED
  BY <1>1, <1>2

(***************************************************************************)
(* The loop over the CRDs starts, and goes on, with sound jobs if every    *)
(* source cluster it leaves behind has the CRD.                            *)
(***************************************************************************)
LEMMA CRDsFromSound ==
  ASSUME NEW C, NEW job \in Job, job.migration \in Migrations,
         NEW s \in Seq(Clusters),
         Range(Sources[job.migration]) \subseteq C \cup Range(s)
  PROVE  Sound(CRDsFrom(job, s), C) /\ CRDsFrom(job, s).read = Nil
<1>1. CASE s = <<>>
  <2>1. Range(Sources[job.migration]) \subseteq C
    BY <1>1, RangeOfLoop
  <2> QED
    BY <1>1, <2>1, PoliciesFromSound, SourcesType DEF CRDsFrom
<1>2. CASE s # <<>>
  BY <1>2 DEF CRDsFrom, Sound, Job, Steps, WellFormed, PreparedFor
<1> QED
  BY <1>1, <1>2

(***************************************************************************)
(* A job goes on soundly after a write, once the CRD it posted is there.   *)
(***************************************************************************)
LEMMA AfterWriteSound ==
  ASSUME NEW C, NEW D, NEW job, Sound(job, C), C \subseteq D,
         job.pc \in {"write", "postCRD"},
         job.pc = "postCRD" => Head(job.todo) \in D
  PROVE  Sound(AfterWrite(job), D) /\ AfterWrite(job).read = Nil
<1>1. job \in Job /\ job.migration \in Migrations /\ job.todo \in Seq(Clusters)
  BY DEF Sound, Job, WellFormed
<1>2. CASE job.pc = "postCRD"
  <2>1. job.todo # <<>>
    BY <1>2 DEF Sound, WellFormed
  <2>2. /\ Tail(job.todo) \in Seq(Clusters)
        /\ Range(job.todo) = {Head(job.todo)} \cup Range(Tail(job.todo))
    BY <1>1, <2>1, RangeOfLoop
  <2>3. Range(Sources[job.migration]) \subseteq D \cup Range(Tail(job.todo))
    BY <1>2, <2>2 DEF Sound, PreparedFor
  <2> QED
    BY <1>1, <1>2, <2>2, <2>3, CRDsFromSound DEF AfterWrite
<1>3. CASE job.pc = "write" /\ job.name = NsPolicy
  BY <1>1, <1>3, SourcesType, CRDsFromSound DEF AfterWrite
<1>4. CASE job.pc = "write" /\ job.name # NsPolicy
  <2>1. job.todo # <<>> /\ Range(job.todo) \subseteq D
    BY <1>4 DEF Sound, WellFormed, PreparedFor
  <2>2. /\ Tail(job.todo) \in Seq(Clusters)
        /\ Range(Tail(job.todo)) \subseteq D
    BY <1>1, <2>1, RangeOfLoop
  <2> QED
    BY <1>1, <1>4, <2>2, PoliciesFromSound DEF AfterWrite
<1> QED
  BY <1>2, <1>3, <1>4

(***************************************************************************)
(* The two kinds of writes are told apart.                                 *)
(***************************************************************************)
LEMMA KindsOfWrites ==
  ASSUME NEW r \in PolicyWrite
  PROVE  r \notin CRDPost
BY DEF PolicyWrite, CRDPost

(***************************************************************************)
(* What a sound job sends is a request, about clusters that have the CRD.  *)
(***************************************************************************)
LEMMA PendingSound ==
  ASSUME NEW C, NEW job, Sound(job, C), job.pc \in {"write", "postCRD"}
  PROVE  /\ job.pc = "postCRD" =>
              Pending(job) \in CRDPost /\ Pending(job).cluster = Head(job.todo)
         /\ job.pc = "write" =>
              /\ Pending(job) \in PolicyWrite
              /\ Pending(job).name = job.name /\ Pending(job).read = job.read
              /\ Pending(job).clusters \in PlacementsOf(job.name)
              /\ job.name # NsPolicy => job.name[2] \in C
<1>1. job \in Job /\ job.migration \in Migrations /\ job.todo \in Seq(Clusters)
  BY DEF Sound, Job, WellFormed
<1>2. CASE job.pc = "postCRD"
  <2>1. Head(job.todo) \in Clusters
    BY <1>1, <1>2, RangeOfLoop DEF Sound, WellFormed
  <2> QED
    BY <1>2, <2>1 DEF Pending, CRDPost
<1>3. CASE job.pc = "write" /\ job.name = NsPolicy
  BY <1>1, <1>3, SourcesType DEF Pending, PolicyWrite, Job, Placement, PlacementsOf
<1>4. CASE job.pc = "write" /\ job.name # NsPolicy
  <2>1. /\ job.todo # <<>> /\ job.name = <<job.migration, Head(job.todo)>>
        /\ Range(job.todo) \subseteq C
    BY <1>4 DEF Sound, WellFormed, PreparedFor
  <2>2. Head(job.todo) \in Clusters /\ Head(job.todo) \in C
    BY <1>1, <2>1, RangeOfLoop
  <2>3. job.name[2] = Head(job.todo)
    BY <2>1
  <2> QED
    BY <1>1, <1>4, <2>1, <2>2, <2>3
    DEF Pending, PolicyWrite, Job, Placement, PlacementsOf
<1> QED
  BY <1>2, <1>3, <1>4

-----------------------------------------------------------------------------
(***************************************************************************)
(* The store.  Whatever is written, what was read under a version is what  *)
(* that version stands for.                                                *)
(***************************************************************************)
StoreTypeOK ==
  /\ crds \subseteq Clusters
  /\ DOMAIN policies \subseteq Names
  /\ \A n \in DOMAIN policies : policies[n] \in Policy
  /\ version \in [Names -> Nat]

Counted == \A n \in DOMAIN policies : policies[n].version = version[n]

LEMMA StoreWrites ==
  ASSUME StoreTypeOK, Counted, NEW n \in Names,
         NEW clusters \in SUBSET Clusters, NEW stamped \in BOOLEAN,
         Store(n, clusters, stamped), UNCHANGED crds
  PROVE  /\ StoreTypeOK' /\ Counted'
         /\ DOMAIN policies' = DOMAIN policies \cup {n}
         /\ policies'[n].clusters = clusters /\ policies'[n].stamped = stamped
         /\ \A x \in DOMAIN policies \ {n} : policies'[x] = policies[x]
         /\ \A x \in Names, read \in Policy \cup {Nil} :
              Held(x, read) => Held(x, read)'
<1>1. CASE UNCHANGED <<policies, version>> /\ n \in DOMAIN policies
           /\ policies[n].clusters = clusters /\ policies[n].stamped = stamped
  BY <1>1 DEF StoreTypeOK, Counted, Held
<1>2. CASE /\ version' = [version EXCEPT ![n] = @ + 1]
           /\ policies' = [x \in DOMAIN policies \cup {n} |->
                             IF x # n THEN policies[x]
                             ELSE [version |-> version[n] + 1,
                                   clusters |-> clusters, stamped |-> stamped]]
  <2>1. /\ DOMAIN policies' = DOMAIN policies \cup {n}
        /\ policies'[n] = [version |-> version[n] + 1,
                           clusters |-> clusters, stamped |-> stamped]
        /\ \A x \in DOMAIN policies \ {n} : policies'[x] = policies[x]
    BY <1>2
  <2>2. /\ version' \in [Names -> Nat] /\ version'[n] = version[n] + 1
        /\ \A x \in Names : x # n => version'[x] = version[x]
    BY <1>2 DEF StoreTypeOK
  <2>3. StoreTypeOK'
    BY <2>1, <2>2 DEF StoreTypeOK, Policy
  <2>4. Counted'
    BY <2>1, <2>2 DEF StoreTypeOK, Counted
  <2>5. ASSUME NEW x \in Names, NEW read \in Policy \cup {Nil}, Held(x, read)
        PROVE  Held(x, read)'
    <3>1. CASE x # n
      BY <2>1, <2>2, <2>5, <3>1 DEF Held
    <3>2. CASE x = n
      <4>1. read # Nil => read.version \in Nat /\ read.version <= version[n]
        BY <2>5, <3>2 DEF Held, Policy
      <4> QED
        BY <2>1, <2>2, <3>2, <4>1 DEF Held, StoreTypeOK
    <3> QED
      BY <3>1, <3>2
  <2> QED
    BY <2>1, <2>3, <2>4, <2>5
<1> QED
  BY <1>1, <1>2 DEF Store

(***************************************************************************)
(* What a step of the store keeps, and what it lets a policy become.       *)
(***************************************************************************)
StoreStep ==
  /\ StoreTypeOK' /\ Counted'
  /\ crds \subseteq crds'
  /\ \A x \in Names, read \in Policy \cup {Nil} : Held(x, read) => Held(x, read)'

LEMMA StoreRests ==
  ASSUME StoreTypeOK, Counted, UNCHANGED storeVars
  PROVE  StoreStep
BY DEF StoreTypeOK, Counted, StoreStep, Held, storeVars

LEMMA CRDPosted ==
  ASSUME StoreTypeOK, Counted, NEW r \in CRDPost, Perform(r)
  PROVE  StoreStep /\ r.cluster \in crds' /\ DOMAIN policies' = DOMAIN policies
BY DEF StoreTypeOK, Counted, StoreStep, Held, Perform, CRDPost

LEMMA PolicyWritten ==
  ASSUME StoreTypeOK, Counted, NEW r \in PolicyWrite, Perform(r)
  PROVE  StoreStep /\ DOMAIN policies' = DOMAIN policies \cup {r.name}
<1>1. /\ r.name \in Names /\ r.clusters \in SUBSET Clusters
      /\ (r.read # Nil /\ r.read.stamped) \in BOOLEAN
  BY DEF PolicyWrite, Policy
<1>2. Store(r.name, r.clusters, r.read # Nil /\ r.read.stamped) /\ UNCHANGED crds
  BY KindsOfWrites DEF Perform
<1> QED
  BY <1>1, <1>2, StoreWrites DEF StoreStep

-----------------------------------------------------------------------------
(***************************************************************************)
(* The inductive invariant: the properties TypeOK, Prepared and ReadsHold, *)
(* arranged by the part of the state they speak of.                        *)
(***************************************************************************)
StoreOK == StoreTypeOK /\ Counted /\ SentWhereInstalled

JobsOK ==
  /\ op \in [Operators -> Job]
  /\ \A o \in Operators : Sound(op[o], crds) /\ Held(op[o].name, op[o].read)

LateOK ==
  \A r \in late : /\ r \in Request /\ RequestPrepared(r)
                  /\ r \in PolicyWrite => Held(r.name, r.read)

BoundsOK == changes \in 0..MaxChanges /\ faults \in 0..MaxFaults

IInv == StoreOK /\ JobsOK /\ LateOK /\ BoundsOK

LEMMA InductiveInvariant ==
  IInv <=> TypeOK /\ Prepared /\ ReadsHold
<1>1. \A o \in Operators : op \in [Operators -> Job] =>
        (Sound(op[o], crds) <=> WellFormed(op[o]) /\ JobPrepared(op[o]))
  BY DEF Sound, PreparedFor, JobPrepared
<1>2. ASSUME IInv
      PROVE  TypeOK /\ Prepared /\ ReadsHold
  <2>1. TypeOK
    BY <1>1, <1>2 DEF IInv, StoreOK, StoreTypeOK, JobsOK, LateOK, BoundsOK, TypeOK
  <2>2. Prepared
    BY <1>1, <1>2 DEF IInv, StoreOK, JobsOK, LateOK, Prepared
  <2>3. ReadsHold
    BY <1>2 DEF IInv, StoreOK, Counted, JobsOK, LateOK, ReadsHold
  <2> QED
    BY <2>1, <2>2, <2>3
<1>3. ASSUME TypeOK, Prepared, ReadsHold
      PROVE  IInv
  <2>1. StoreOK
    BY <1>3 DEF StoreOK, StoreTypeOK, Counted, TypeOK, Prepared, ReadsHold
  <2>2. JobsOK
    BY <1>1, <1>3 DEF JobsOK, TypeOK, Prepared, ReadsHold
  <2>3. LateOK
    BY <1>3 DEF LateOK, TypeOK, Prepared, ReadsHold
  <2>4. BoundsOK
    BY <1>3 DEF BoundsOK, TypeOK
  <2> QED
    BY <2>1, <2>2, <2>3, <2>4 DEF IInv
<1> QED
  BY <1>2, <1>3

LEMMA InitInvariant == Init => IInv
<1> SUFFICES ASSUME Init PROVE IInv
  OBVIOUS
<1>1. StoreOK
  BY DEF Init, StoreOK, StoreTypeOK, Counted, SentWhereInstalled
<1>2. JobsOK
  <2>1. Idle \in Job /\ Idle.read = Nil
    BY IdleSound DEF Sound
  <2> QED
    BY <2>1, IdleSound DEF Init, JobsOK, Held
<1>3. LateOK /\ BoundsOK
  BY ClientsAssumption DEF Init, LateOK, BoundsOK
<1> QED
  BY <1>1, <1>2, <1>3 DEF IInv

(***************************************************************************)
(* A manager takes up a sound job, whose read holds; the others' jobs      *)
(* stay sound whatever the step did to the store.                          *)
(***************************************************************************)
TakesUp(o) ==
  \E j : Goto(o, j) /\ Sound(j, crds') /\ Held(j.name, j.read)'

LEMMA JobsGoOn ==
  ASSUME JobsOK, StoreStep, NEW o \in Operators, TakesUp(o)
  PROVE  JobsOK'
<1>1. PICK j : Goto(o, j) /\ Sound(j, crds') /\ Held(j.name, j.read)'
  BY DEF TakesUp
<1>2. op' \in [Operators -> Job] /\ op'[o] = j
      /\ \A x \in Operators : x # o => op'[x] = op[x]
  BY <1>1 DEF Goto, JobsOK, Sound
<1>3. ASSUME NEW x \in Operators
      PROVE  Sound(op'[x], crds') /\ Held(op[x].name, op[x].read)'
  <2>1. CASE x = o
    BY <1>1, <1>2, <2>1 DEF Held
  <2>2. CASE x # o
    <3>1. op'[x] = op[x] /\ op[x] \in Job
      BY <1>2, <2>2 DEF JobsOK
    <3>2. Sound(op[x], crds')
      BY PreparedGrows DEF JobsOK, Sound, StoreStep
    <3>3. PICK n \in Names, read \in Policy \cup {Nil} :
            n = op[x].name /\ read = op[x].read
      BY <3>1 DEF Job
    <3>4. Held(n, read)'
      BY <3>3 DEF JobsOK, StoreStep
    <3> QED
      BY <3>1, <3>2, <3>3, <3>4 DEF Held
  <2> QED
    BY <2>1, <2>2
<1> QED
  BY <1>2, <1>3 DEF JobsOK, Held

LEMMA JobsRest ==
  ASSUME JobsOK, StoreStep, UNCHANGED op
  PROVE  JobsOK'
<1>1. ASSUME NEW x \in Operators
      PROVE  Sound(op'[x], crds') /\ Held(op[x].name, op[x].read)'
  <2>1. op[x] \in Job /\ Sound(op[x], crds')
    BY PreparedGrows DEF JobsOK, Sound, StoreStep
  <2>2. PICK n \in Names, read \in Policy \cup {Nil} :
          n = op[x].name /\ read = op[x].read
    BY <2>1 DEF Job
  <2>3. Held(n, read)'
    BY <2>2 DEF JobsOK, StoreStep
  <2> QED
    BY <2>1, <2>2, <2>3 DEF Held
<1> QED
  BY <1>1 DEF JobsOK, Held

LEMMA TakesUpUnread ==
  ASSUME NEW o \in Operators, NEW j, Goto(o, j), Sound(j, crds'), j.read = Nil
  PROVE  TakesUp(o)
BY DEF TakesUp, Held

(***************************************************************************)
(* Late requests stay sound, whatever the step did to the store.           *)
(***************************************************************************)
LEMMA LateRests ==
  ASSUME LateOK, StoreStep, late' \subseteq late
  PROVE  LateOK'
<1> SUFFICES ASSUME NEW r \in late
             PROVE  /\ r \in Request /\ RequestPrepared(r)'
                    /\ r \in PolicyWrite => Held(r.name, r.read)'
  BY DEF LateOK
<1>1. r \in Request /\ RequestPrepared(r)'
  BY DEF LateOK, RequestPrepared, StoreStep, PlacementsOf
<1>2. ASSUME r \in PolicyWrite PROVE Held(r.name, r.read)'
  BY <1>2 DEF LateOK, PolicyWrite, StoreStep
<1> QED
  BY <1>1, <1>2

(***************************************************************************)
(* What a sound job sends, and a late request, keep the store in order     *)
(* when they are performed.                                                *)
(***************************************************************************)
SoundRequest(r) ==
  /\ r \in Request /\ RequestPrepared(r)
  /\ r \in PolicyWrite => Held(r.name, r.read)

LEMMA PendingRequest ==
  ASSUME JobsOK, NEW o \in Operators, Writing(o)
  PROVE  SoundRequest(Pending(op[o]))
<1>1. /\ Sound(op[o], crds) /\ op[o].pc \in {"write", "postCRD"}
      /\ Held(op[o].name, op[o].read)
  BY DEF JobsOK, Writing
<1>2. CASE op[o].pc = "postCRD"
  <2>1. Pending(op[o]) \in CRDPost
    BY <1>1, <1>2, PendingSound
  <2> QED
    BY <2>1, KindsOfWrites DEF SoundRequest, Request, RequestPrepared
<1>3. CASE op[o].pc = "write"
  <2>1. /\ Pending(op[o]) \in PolicyWrite
        /\ Pending(op[o]).name = op[o].name /\ Pending(op[o]).read = op[o].read
        /\ Pending(op[o]).clusters \in PlacementsOf(op[o].name)
        /\ op[o].name # NsPolicy => op[o].name[2] \in crds
    BY <1>1, <1>3, PendingSound
  <2> QED
    BY <1>1, <2>1 DEF SoundRequest, Request, RequestPrepared
<1> QED
  BY <1>1, <1>2, <1>3

LEMMA RequestPerformed ==
  ASSUME StoreOK, NEW r, SoundRequest(r), Perform(r)
  PROVE  StoreStep /\ StoreOK' /\ (r \in CRDPost => r.cluster \in crds')
<1>1. CASE r \in CRDPost
  <2>1. StoreStep /\ r.cluster \in crds' /\ DOMAIN policies' = DOMAIN policies
    BY <1>1, CRDPosted DEF StoreOK
  <2> QED
    BY <1>1, <2>1 DEF StoreOK, StoreStep, SentWhereInstalled
<1>2. CASE r \in PolicyWrite
  <2>1. StoreStep /\ DOMAIN policies' = DOMAIN policies \cup {r.name}
    BY <1>2, PolicyWritten DEF StoreOK
  <2>2. r.name # NsPolicy => r.name[2] \in crds
    BY <1>2 DEF SoundRequest, RequestPrepared
  <2> QED
    BY <1>2, <2>1, <2>2, KindsOfWrites DEF StoreOK, StoreStep, SentWhereInstalled
<1> QED
  BY <1>1, <1>2 DEF SoundRequest, Request

-----------------------------------------------------------------------------
(***************************************************************************)
(* Steps of a manager that leave the store alone: it takes up another job. *)
(***************************************************************************)
LEMMA ManagerStep ==
  ASSUME IInv, NEW o \in Operators, UNCHANGED <<storeVars, late, changes>>,
         faults' \in 0..MaxFaults, TakesUp(o)
  PROVE  IInv'
<1>1. StoreStep
  BY StoreRests DEF IInv, StoreOK
<1>2. StoreOK' /\ BoundsOK'
  BY <1>1 DEF IInv, StoreOK, StoreStep, BoundsOK, SentWhereInstalled, storeVars
<1>3. JobsOK'
  BY <1>1, JobsGoOn DEF IInv
<1>4. LateOK'
  BY <1>1, LateRests DEF IInv
<1> QED
  BY <1>2, <1>3, <1>4 DEF IInv

LEMMA BeginKeeps ==
  ASSUME IInv, NEW o \in Operators, NEW m \in Migrations, Begin(o, m)
  PROVE  IInv'
<1> DEFINE j == [Idle EXCEPT !.pc = "check", !.migration = m]
<1>1. Sound(j, crds') /\ j.read = Nil
  <2>1. Idle \in Job /\ Idle.read = Nil
    BY IdleSound DEF Sound
  <2>2. j \in Job /\ j.pc = "check" /\ j.migration = m /\ j.read = Nil
    BY <2>1 DEF Job, Steps
  <2> QED
    BY <2>1, <2>2 DEF Sound, WellFormed, PreparedFor
<1>2. TakesUp(o)
  BY <1>1, TakesUpUnread DEF Begin
<1> QED
  BY <1>2, ManagerStep DEF Begin, IInv, BoundsOK

LEMMA CheckKeeps ==
  ASSUME IInv, NEW o \in Operators, CheckNamespacePolicy(o)
  PROVE  IInv'
<1>1. /\ op[o] \in Job /\ Sound(op[o], crds) /\ crds' = crds
      /\ op[o].migration \in Migrations /\ op[o].read = Nil
  BY DEF IInv, JobsOK, Sound, WellFormed, CheckNamespacePolicy, storeVars
<1>2. CASE NsPolicy \in DOMAIN policies
  <2>1. Sound(CRDsFrom(op[o], Sources[op[o].migration]), crds')
        /\ CRDsFrom(op[o], Sources[op[o].migration]).read = Nil
    BY <1>1, SourcesType, CRDsFromSound
  <2> QED
    BY <1>2, <2>1, TakesUpUnread, ManagerStep DEF CheckNamespacePolicy, IInv, BoundsOK
<1>3. CASE NsPolicy \notin DOMAIN policies
  <2> DEFINE j == [op[o] EXCEPT !.pc = "get", !.name = NsPolicy]
  <2>1. Sound(j, crds')
    BY <1>1 DEF Sound, Job, Names, Steps, WellFormed, PreparedFor
  <2>2. PICK k : k = j
    OBVIOUS
  <2>3. Held(k.name, k.read)'
    BY <1>1, <2>2 DEF Held, CheckNamespacePolicy, Sound, WellFormed, Job
  <2>4. TakesUp(o)
    BY <1>3, <2>1, <2>2, <2>3 DEF TakesUp, CheckNamespacePolicy
  <2> QED
    BY <2>4, ManagerStep DEF CheckNamespacePolicy, IInv, BoundsOK
<1> QED
  BY <1>2, <1>3

LEMMA GetCRDKeeps ==
  ASSUME IInv, NEW o \in Operators, GetCRD(o)
  PROVE  IInv'
<1>1. /\ op[o] \in Job /\ Sound(op[o], crds) /\ crds' = crds
      /\ op[o].migration \in Migrations /\ op[o].pc = "getCRD"
      /\ op[o].todo \in Seq(Clusters) /\ op[o].todo # <<>>
  BY DEF IInv, JobsOK, Sound, Job, WellFormed, GetCRD, storeVars
<1>2. faults' \in 0..MaxFaults
  BY ClientsAssumption DEF GetCRD, IInv, BoundsOK
<1>3. CASE Head(op[o].todo) \in crds /\ Goto(o, CRDsFrom(op[o], Tail(op[o].todo)))
  <2>1. /\ Tail(op[o].todo) \in Seq(Clusters)
        /\ Range(op[o].todo) = {Head(op[o].todo)} \cup Range(Tail(op[o].todo))
    BY <1>1, RangeOfLoop
  <2>2. Range(Sources[op[o].migration]) \subseteq crds' \cup Range(Tail(op[o].todo))
    BY <1>1, <1>3, <2>1 DEF Sound, PreparedFor
  <2>3. Sound(CRDsFrom(op[o], Tail(op[o].todo)), crds')
        /\ CRDsFrom(op[o], Tail(op[o].todo)).read = Nil
    BY <1>1, <2>1, <2>2, CRDsFromSound
  <2> QED
    BY <1>2, <1>3, <2>3, TakesUpUnread, ManagerStep DEF GetCRD
<1>4. CASE Goto(o, [op[o] EXCEPT !.pc = "postCRD"])
  <2> DEFINE j == [op[o] EXCEPT !.pc = "postCRD"]
  <2>1. Sound(j, crds')
    BY <1>1 DEF Sound, Job, Steps, WellFormed, PreparedFor
  <2>2. PICK k : k = j
    OBVIOUS
  <2>3. Held(k.name, k.read)'
    BY <2>2, <1>1 DEF Held, GetCRD, storeVars, IInv, JobsOK, Job
  <2>4. TakesUp(o)
    BY <1>4, <2>1, <2>2, <2>3 DEF TakesUp
  <2> QED
    BY <1>2, <2>4, ManagerStep DEF GetCRD
<1> QED
  BY <1>3, <1>4 DEF GetCRD

LEMMA GetPolicyKeeps ==
  ASSUME IInv, NEW o \in Operators, GetPolicy(o)
  PROVE  IInv'
<1> DEFINE n == op[o].name
           j == [op[o] EXCEPT !.pc = "write",
                   !.read = IF n \in DOMAIN policies THEN policies[n] ELSE Nil]
<1>1. /\ op[o] \in Job /\ Sound(op[o], crds) /\ crds' = crds /\ op[o].pc = "get"
      /\ n \in Names
  BY DEF IInv, JobsOK, Sound, Job, GetPolicy, storeVars
<1>2. n \in DOMAIN policies => policies[n] \in Policy /\ policies[n].version = version[n]
  BY DEF IInv, StoreOK, StoreTypeOK, Counted
<1>3. Sound(j, crds')
  BY <1>1, <1>2 DEF Sound, Job, Steps, WellFormed, PreparedFor
<1>4. PICK k : k = j
  OBVIOUS
<1>5. k.name = n /\ k.read = IF n \in DOMAIN policies THEN policies[n] ELSE Nil
  BY <1>1, <1>4 DEF Job
<1>6. Held(k.name, k.read)'
  <2>1. version[n] \in Nat
    BY <1>1 DEF IInv, StoreOK, StoreTypeOK
  <2> QED
    BY <1>2, <1>5, <2>1 DEF Held, GetPolicy, storeVars
<1>7. TakesUp(o)
  BY <1>3, <1>4, <1>6 DEF TakesUp, GetPolicy
<1> QED
  BY <1>7, ManagerStep DEF GetPolicy, IInv, BoundsOK

LEMMA WriteKeeps ==
  ASSUME IInv, NEW o \in Operators, Write(o)
  PROVE  IInv'
<1>1. SoundRequest(Pending(op[o])) /\ Sound(op[o], crds)
      /\ op[o].pc \in {"write", "postCRD"}
  BY PendingRequest DEF IInv, JobsOK, Write, Writing
<1>2. CASE Perform(Pending(op[o])) /\ Goto(o, AfterWrite(op[o]))
  <2>1. /\ StoreStep /\ StoreOK'
        /\ Pending(op[o]) \in CRDPost => Pending(op[o]).cluster \in crds'
    BY <1>1, <1>2, RequestPerformed DEF IInv
  <2>2. op[o].pc = "postCRD" => Head(op[o].todo) \in crds'
    BY <1>1, <2>1, PendingSound
  <2>3. Sound(AfterWrite(op[o]), crds') /\ AfterWrite(op[o]).read = Nil
    BY <1>1, <2>1, <2>2, AfterWriteSound DEF StoreStep
  <2>4. JobsOK'
    BY <1>2, <2>1, <2>3, TakesUpUnread, JobsGoOn DEF IInv
  <2>5. LateOK' /\ BoundsOK'
    BY <2>1, LateRests DEF IInv, Write, BoundsOK
  <2> QED
    BY <2>1, <2>4, <2>5 DEF IInv
<1>3. CASE Goto(o, Idle) /\ UNCHANGED storeVars
  BY <1>3, IdleSound, TakesUpUnread, ManagerStep DEF Write, IInv, BoundsOK
<1> QED
  BY <1>2, <1>3 DEF Write

LEMMA FailKeeps ==
  ASSUME IInv, NEW o \in Operators, Fail(o)
  PROVE  IInv'
<1>1. StoreStep
  BY StoreRests DEF IInv, StoreOK, Fail
<1>2. StoreOK' /\ BoundsOK'
  BY <1>1, ClientsAssumption
  DEF IInv, StoreOK, StoreStep, BoundsOK, SentWhereInstalled, storeVars, Fail
<1>3. JobsOK'
  BY <1>1, IdleSound, TakesUpUnread, JobsGoOn DEF IInv, Fail
<1>4. LateOK'
  <2>1. CASE late' = late
    BY <1>1, <2>1, LateRests DEF IInv
  <2>2. CASE Writing(o) /\ late' = late \cup {Pending(op[o])}
    <3>1. \A r \in late' : SoundRequest(r)
      BY <2>2, PendingRequest DEF IInv, LateOK, SoundRequest
    <3>2. UNCHANGED <<crds, policies, version>>
      BY DEF Fail, storeVars
    <3> QED
      BY <3>1, <3>2
      DEF LateOK, SoundRequest, RequestPrepared, Held, PlacementsOf
  <2> QED
    BY <2>1, <2>2 DEF Fail
<1> QED
  BY <1>2, <1>3, <1>4 DEF IInv

LEMMA LandKeeps ==
  ASSUME IInv, NEW r \in late, Land(r)
  PROVE  IInv'
<1>1. StoreStep /\ StoreOK'
  <2>1. CASE Perform(r)
    BY <2>1, RequestPerformed DEF IInv, LateOK, SoundRequest
  <2>2. CASE UNCHANGED storeVars
    BY <2>2, StoreRests DEF IInv, StoreOK, StoreStep, SentWhereInstalled, storeVars
  <2> QED
    BY <2>1, <2>2 DEF Land
<1>2. LateOK'
  BY <1>1, LateRests DEF IInv, Land
<1>3. JobsOK' /\ BoundsOK'
  BY <1>1, JobsRest DEF IInv, Land, BoundsOK
<1> QED
  BY <1>1, <1>2, <1>3 DEF IInv

(***************************************************************************)
(* Karmada and the users.                                                  *)
(***************************************************************************)
LEMMA OthersKeep ==
  ASSUME IInv, StoreStep, SentWhereInstalled', UNCHANGED <<op, late, faults>>,
         changes' \in 0..MaxChanges
  PROVE  IInv'
BY JobsRest, LateRests DEF IInv, StoreOK, StoreStep, BoundsOK

LEMMA StampKeeps ==
  ASSUME IInv, NEW n \in Names, Stamp(n)
  PROVE  IInv'
<1>1. n \in DOMAIN policies /\ policies[n].clusters \in SUBSET Clusters
  BY DEF Stamp, IInv, StoreOK, StoreTypeOK, Policy
<1>2. StoreStep /\ DOMAIN policies' = DOMAIN policies
  BY <1>1, StoreWrites DEF Stamp, IInv, StoreOK, StoreStep
<1> QED
  BY <1>2, OthersKeep DEF Stamp, IInv, StoreOK, BoundsOK, SentWhereInstalled

LEMMA MoveKeeps ==
  ASSUME IInv, NEW n \in Names, NEW placement \in UserChoice, Move(n, placement)
  PROVE  IInv'
<1>1. /\ n \in DOMAIN policies /\ policies[n].stamped \in BOOLEAN
      /\ placement \in SUBSET Clusters
  BY ClientsAssumption DEF Move, IInv, StoreOK, StoreTypeOK, Policy
<1>2. StoreStep /\ DOMAIN policies' = DOMAIN policies
  BY <1>1, StoreWrites DEF Move, Change, IInv, StoreOK, StoreStep
<1>3. changes' \in 0..MaxChanges
  BY ClientsAssumption DEF Move, Change, IInv, BoundsOK
<1> QED
  BY <1>2, <1>3, OthersKeep DEF Move, Change, IInv, StoreOK, SentWhereInstalled

LEMMA DeleteKeeps ==
  ASSUME IInv, NEW n \in Names, Delete(n)
  PROVE  IInv'
<1>1. /\ DOMAIN policies' = DOMAIN policies \ {n}
      /\ \A x \in DOMAIN policies' : policies'[x] = policies[x]
      /\ UNCHANGED <<version, crds>>
  BY DEF Delete, Change, Restrict
<1>2. StoreStep
  BY <1>1 DEF IInv, StoreOK, StoreTypeOK, Counted, StoreStep, Held
<1>3. changes' \in 0..MaxChanges
  BY ClientsAssumption DEF Delete, Change, IInv, BoundsOK
<1> QED
  BY <1>1, <1>2, <1>3, OthersKeep DEF Delete, Change, IInv, StoreOK, SentWhereInstalled

LEMMA NextInvariant == IInv /\ [Next]_vars => IInv'
<1> SUFFICES ASSUME IInv, [Next]_vars PROVE IInv'
  OBVIOUS
<1>1. ASSUME NEW o \in Operators, Work(o) PROVE IInv'
  BY <1>1, CheckKeeps, GetCRDKeeps, GetPolicyKeeps, WriteKeeps DEF Work
<1>2. ASSUME NEW o \in Operators, Fail(o) PROVE IInv'
  BY <1>2, FailKeeps
<1>3. ASSUME NEW o \in Operators, NEW m \in Migrations, Begin(o, m) PROVE IInv'
  BY <1>3, BeginKeeps
<1>4. ASSUME NEW r \in late, Land(r) PROVE IInv'
  BY <1>4, LandKeeps
<1>5. ASSUME NEW n \in Names, Stamp(n) \/ Delete(n) PROVE IInv'
  BY <1>5, StampKeeps, DeleteKeeps
<1>6. ASSUME NEW n \in Names, NEW placement \in UserChoice, Move(n, placement)
      PROVE  IInv'
  BY <1>6, MoveKeeps
<1>7. CASE UNCHANGED vars
  <2>1. StoreStep /\ SentWhereInstalled'
    BY <1>7, StoreRests DEF vars, storeVars, IInv, StoreOK, SentWhereInstalled
  <2> QED
    BY <1>7, <2>1, OthersKeep DEF vars, IInv, BoundsOK
<1> QED
  BY <1>1, <1>2, <1>3, <1>4, <1>5, <1>6, <1>7 DEF Next

(***************************************************************************)
(* Every job is well-formed: the loops of a reconcile over the source      *)
(* clusters are always at a cluster, with the name of its policy.          *)
(***************************************************************************)
THEOREM TypeCorrect == Spec => []TypeOK
BY InitInvariant, NextInvariant, InductiveInvariant, PTL DEF Spec

(***************************************************************************)
(* No policy sends a backup to a cluster that never got the CRD, whichever *)
(* manager or late request wrote it.                                       *)
(***************************************************************************)
THEOREM PreparedHolds == Spec => []Prepared
BY InitInvariant, NextInvariant, InductiveInvariant, PTL DEF Spec

(***************************************************************************)
(* What a manager or a late request holds is what is stored, as long as    *)
(* the resourceVersion is the same.                                        *)
(***************************************************************************)
THEOREM ReadsHoldAlways == Spec => []ReadsHold
BY InitInvariant, NextInvariant, InductiveInvariant, PTL DEF Spec

-----------------------------------------------------------------------------
(***************************************************************************)
(* The refinement.  A policy of KarmadaPlane is a policy without version.  *)
(***************************************************************************)
LEMMA StoreSets ==
  ASSUME NEW n, NEW clusters, NEW stamped, Store(n, clusters, stamped)
  PROVE  /\ DOMAIN policies' = DOMAIN policies \cup {n}
         /\ policies'[n].clusters = clusters /\ policies'[n].stamped = stamped
         /\ \A x \in DOMAIN policies \ {n} : policies'[x] = policies[x]
<1>1. CASE UNCHANGED <<policies, version>> /\ n \in DOMAIN policies
           /\ policies[n].clusters = clusters /\ policies[n].stamped = stamped
  BY <1>1
<1>2. CASE policies' = [x \in DOMAIN policies \cup {n} |->
                          IF x # n THEN policies[x]
                          ELSE [version |-> version[n] + 1, clusters |-> clusters,
                                stamped |-> stamped]]
  BY <1>2
<1> QED
  BY <1>1, <1>2 DEF Store

(***************************************************************************)
(* The accepted Create, Update or Post of any manager is one atomic write: *)
(* an accepted Update sends back the stamp that is stored.                 *)
(***************************************************************************)
LEMMA PerformedAtomically ==
  ASSUME StoreOK, NEW r, SoundRequest(r), Accepted(r), Perform(r)
  PROVE  Plane!Next
<1>1. CASE r \in CRDPost
  <2>1. /\ r.cluster \in Clusters
        /\ crds' = crds \cup {r.cluster} /\ UNCHANGED <<policies, version>>
    BY <1>1 DEF Perform, CRDPost
  <2>2. Plane!Install(r.cluster)
    BY <2>1 DEF Plane!Install
  <2> QED
    BY <2>1, <2>2 DEF Plane!Next
<1>2. CASE r \in PolicyWrite
  <2>1. /\ r.name \in Names /\ r \notin CRDPost
        /\ r.clusters \in PlacementsOf(r.name)
        /\ r.name # NsPolicy => r.name[2] \in crds
        /\ r.read # Nil => r.read \in Policy
    BY <1>2, KindsOfWrites DEF SoundRequest, RequestPrepared, PolicyWrite
  <2>2. PICK n \in Names, stamped \in BOOLEAN :
          n = r.name /\ stamped = (r.read # Nil /\ r.read.stamped)
    BY <2>1 DEF Policy
  <2>3. Store(n, r.clusters, stamped) /\ UNCHANGED crds
    BY <2>1, <2>2 DEF Perform
  <2>4. /\ n \in DOMAIN policies <=> r.read # Nil
        /\ n \in DOMAIN policies => policies[n] = r.read
    BY <1>2, <2>1, <2>2 DEF Accepted, SoundRequest, Held
  <2>5. n \in DOMAIN policies => policies[n].stamped = stamped
    <3>1. ASSUME n \in DOMAIN policies
          PROVE  policies[n].stamped \in BOOLEAN /\ policies[n] = r.read /\ r.read # Nil
      BY <2>4, <3>1 DEF StoreOK, StoreTypeOK, Policy
    <3> QED
      BY <2>2, <3>1
  <2>6. n \notin DOMAIN policies => stamped = FALSE
    BY <2>2, <2>4
  <2>7. /\ DOMAIN policies' = DOMAIN policies \cup {n}
        /\ policies'[n].clusters = r.clusters /\ policies'[n].stamped = stamped
        /\ \A x \in DOMAIN policies \ {n} : policies'[x] = policies[x]
    BY <2>3, StoreSets
  <2>8. Plane!Write(n, r.clusters)
    <3>1. [x \in Names |-> IF x = NsPolicy THEN {} ELSE {x[2]}][n] \subseteq crds
      BY <2>1, <2>2
    <3> QED
      BY <2>3, <2>5, <2>6, <2>7, <3>1 DEF Plane!Write
  <2>9. r.clusters \in [x \in Names |-> PlacementsOf(x)][n]
    BY <2>1, <2>2
  <2> QED
    BY <2>8, <2>9 DEF Plane!Next
<1> QED
  BY <1>1, <1>2 DEF SoundRequest, Request

LEMMA InitRefines == Init => Plane!Init
BY DEF Init, Plane!Init

LEMMA NextRefines == IInv /\ [Next]_vars => [Plane!Next]_(Plane!vars)
<1> SUFFICES ASSUME IInv, [Next]_vars PROVE [Plane!Next]_(Plane!vars)
  OBVIOUS
<1>1. ASSUME UNCHANGED storeVars PROVE UNCHANGED Plane!vars
  BY <1>1 DEF storeVars, Plane!vars
<1>2. ASSUME NEW o \in Operators, Work(o) PROVE [Plane!Next]_(Plane!vars)
  <2>1. CASE CheckNamespacePolicy(o) \/ GetCRD(o) \/ GetPolicy(o)
    BY <1>1, <2>1 DEF CheckNamespacePolicy, GetCRD, GetPolicy
  <2>2. CASE Write(o)
    <3>1. SoundRequest(Pending(op[o]))
      BY <2>2, PendingRequest DEF IInv, Write
    <3>2. CASE Accepted(Pending(op[o])) /\ Perform(Pending(op[o]))
      BY <3>1, <3>2, PerformedAtomically DEF IInv
    <3>3. CASE UNCHANGED storeVars
      BY <1>1, <3>3
    <3> QED
      BY <2>2, <3>2, <3>3 DEF Write
  <2> QED
    BY <1>2, <2>1, <2>2 DEF Work
<1>3. ASSUME NEW o \in Operators, Fail(o) PROVE UNCHANGED Plane!vars
  BY <1>1, <1>3 DEF Fail
<1>4. ASSUME NEW o \in Operators, NEW m \in Migrations, Begin(o, m)
      PROVE  UNCHANGED Plane!vars
  BY <1>1, <1>4 DEF Begin
<1>5. ASSUME NEW r \in late, Land(r) PROVE [Plane!Next]_(Plane!vars)
  <2>1. CASE Accepted(r) /\ Perform(r)
    BY <2>1, PerformedAtomically DEF IInv, LateOK, SoundRequest
  <2>2. CASE UNCHANGED storeVars
    BY <1>1, <2>2
  <2> QED
    BY <1>5, <2>1, <2>2 DEF Land
<1>6. ASSUME NEW n \in Names, Stamp(n) PROVE Plane!Next
  <2>1. n \in DOMAIN policies /\ UNCHANGED crds
        /\ Store(n, policies[n].clusters, TRUE)
    BY <1>6 DEF Stamp
  <2>2. /\ DOMAIN policies' = DOMAIN policies
        /\ policies'[n].clusters = policies[n].clusters /\ policies'[n].stamped = TRUE
        /\ \A x \in DOMAIN policies \ {n} : policies'[x] = policies[x]
    BY <2>1, StoreSets
  <2>3. Plane!Stamp(n)
    BY <2>1, <2>2 DEF Plane!Stamp
  <2> QED
    BY <2>3 DEF Plane!Next
<1>7. ASSUME NEW n \in Names, NEW placement \in UserChoice, Move(n, placement)
      PROVE  Plane!Next
  <2>1. n \in DOMAIN policies /\ UNCHANGED crds /\ placement \in SUBSET Clusters
        /\ Store(n, placement, policies[n].stamped)
    BY <1>7, ClientsAssumption DEF Move, Change
  <2>2. /\ DOMAIN policies' = DOMAIN policies
        /\ policies'[n].clusters = placement /\ policies'[n].stamped = policies[n].stamped
        /\ \A x \in DOMAIN policies \ {n} : policies'[x] = policies[x]
    BY <2>1, StoreSets
  <2>3. Plane!Move(n, placement)
    BY <2>1, <2>2 DEF Plane!Move
  <2> QED
    BY <2>1, <2>3 DEF Plane!Next
<1>8. ASSUME NEW n \in Names, Delete(n) PROVE Plane!Next
  <2>1. /\ n \in DOMAIN policies /\ UNCHANGED crds
        /\ policies' = [x \in DOMAIN policies \ {n} |-> policies[x]]
    BY <1>8 DEF Delete, Change, Restrict
  <2>2. Plane!Delete(n)
    BY <2>1 DEF Plane!Delete
  <2> QED
    BY <2>2 DEF Plane!Next
<1>9. CASE UNCHANGED vars
  BY <1>1, <1>9 DEF vars
<1> QED
  BY <1>2, <1>3, <1>4, <1>5, <1>6, <1>7, <1>8, <1>9 DEF Next

(***************************************************************************)
(* The Gets and writes of any number of managers, with Karmada, users,     *)
(* lost answers and late requests in between, amount to atomic writes that *)
(* set a placement, keep the stamp and come after the CRD: the steps       *)
(* WritePolicy and EnsureCRDs of MigrationBackup.                          *)
(***************************************************************************)
THEOREM ClientsImplementPlane == Spec => WritesAreAtomic
<1>1. IInv /\ [Next]_vars => [Plane!Next]_(Plane!vars)
  BY NextRefines
<1> QED
  BY <1>1, InitInvariant, NextInvariant, InitRefines, PTL
  DEF Spec, WritesAreAtomic, Plane!Spec

=============================================================================
