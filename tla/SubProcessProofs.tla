-------------------------- MODULE SubProcessProofs --------------------------
(***************************************************************************)
(* Proofs about the descriptors of SubProcess and about what the daemon    *)
(* reports of a command, for any threads and jobs, any limit on open       *)
(* files, commands that fail or cannot be executed, and forks that fail.   *)
(***************************************************************************)
EXTENDS SubProcess, TLAPS

Free == {d \in Descriptor : descriptors[d] = none}

\* A handle is 0 or not one of the first three numbers, and these are those of the
\* daemon.
TableOK ==
  /\ handle \in [Thread -> [End -> Descriptor]]
  /\ \A t \in Thread : \A e \in End : handle[t][e] \in Standard => handle[t][e] = 0
  /\ \A d \in Standard : descriptors[d] = console
  /\ \A d \in Descriptor \ Standard :
       descriptors[d] # none => descriptors[d] \in Thread \X End

\* A second object follows a first one.
Paired(s) == \A i \in 2..Len(s) : s[i].object = 2 => s[i - 1].object = 1

AllClosed(t, object) == \A e \in Ends(object) : handle[t][e] = 0

\* No object is created over another one: where the next one is created its handles
\* are closed, and those of a second object are closed before it.
StageOK(t) ==
  /\ Paired(todo[t])
  /\ pc[t] # "next" => todo[t] # <<>>
  /\ todo[t] # <<>> /\ Object(t) = 1 => AllClosed(t, 2)
  /\ todo[t] # <<>> /\ pc[t] = "next" => AllClosed(t, Object(t))
  /\ pc[t] = "print" => Object(t) = 1 /\ AllClosed(t, 1)

Place == {"next", "lock", "start", "started", "wait", "report", "destroy", "exit", "print"}
Shapes == pc \in [Thread -> Place] /\ todo \in [Thread -> Seq(Calls)]

DescriptorInv == Shapes /\ TableOK /\ HandlesAreOwn /\ \A t \in Thread : StageOK(t)

-----------------------------------------------------------------------------
\* pipe takes two numbers that are free, or none at all.
LEMMA PipeTakesFree ==
  ASSUME NEW free \in SUBSET (Descriptor \ Standard), NEW p \in pipe(free)
  PROVE  /\ p = [ipipe |-> p.ipipe, opipe |-> p.opipe]
         /\ \/ p.ipipe = 0 /\ p.opipe = 0
            \/ p.ipipe \in free /\ p.opipe \in free /\ p.ipipe # p.opipe
BY SMT DEF pipe, Lowest

LEMMA FreeAboveStandard ==
  ASSUME TableOK
  PROVE  Free \in SUBSET (Descriptor \ Standard)
BY ConsoleAssumption DEF Free, TableOK

LEMMA Standards == Standard \subseteq Descriptor /\ 0 \in Standard
BY DescriptorAssumption DEF Standard, Descriptor

LEMMA EndsDiffer ==
  /\ Ends(1) \intersect Ends(2) = {}
  /\ End = Ends(1) \union Ends(2)
BY DEF Ends, End

LEMMA CallShape ==
  ASSUME NEW c \in Calls
  PROVE  c.object \in 1..2 /\ (c.kind = "log" => c.object = 1)
BY DEF Calls, Log

-----------------------------------------------------------------------------
(* Closing and opening. *)

\* The numbers that close frees are those of the thread itself.
LEMMA CloseKeeps ==
  ASSUME NEW t \in Thread, NEW ends \in SUBSET End, TableOK, HandlesAreOwn, close(t, ends)
  PROVE  /\ TableOK' /\ HandlesAreOwn'
         /\ \A u \in Thread : \A e \in End :
              handle'[u][e] = IF u = t /\ e \in ends THEN 0 ELSE handle[u][e]
<1> DEFINE H(u, e) == IF u = t /\ e \in ends THEN 0 ELSE handle[u][e]
           closing(d) == d \notin Standard /\ \E e \in ends : handle[t][e] = d
<1>1. /\ handle' \in [Thread -> [End -> Descriptor]]
      /\ \A u \in Thread : \A e \in End : handle'[u][e] = H(u, e)
  BY Standards DEF close, TableOK
<1>2. \A d \in Descriptor : descriptors'[d] = IF closing(d) THEN none ELSE descriptors[d]
  BY DEF close
<1> HIDE DEF H, closing
<1>3. TableOK'
  <2>1. \A u \in Thread : \A e \in End : handle'[u][e] \in Standard => handle'[u][e] = 0
    BY <1>1 DEF TableOK, H
  <2>2. \A d \in Standard : descriptors'[d] = console
    BY <1>2, Standards DEF TableOK, closing
  <2>3. \A d \in Descriptor \ Standard :
          descriptors'[d] # none => descriptors'[d] \in Thread \X End
    BY <1>2 DEF TableOK
  <2> QED
    BY <1>1, <2>1, <2>2, <2>3 DEF TableOK
<1>4. ASSUME NEW u \in Thread, NEW e \in End, handle'[u][e] # 0
      PROVE  descriptors'[handle'[u][e]] = <<u, e>>
  <2>1. handle'[u][e] = handle[u][e] /\ ~ (u = t /\ e \in ends)
    BY <1>1, <1>4 DEF H
  <2>2. descriptors[handle[u][e]] = <<u, e>>
    BY <2>1, <1>4 DEF HandlesAreOwn
  <2>3. handle[u][e] \in Descriptor
    BY DEF TableOK
  <2>4. ASSUME closing(handle[u][e]) PROVE FALSE
    <3>1. PICK f \in ends : handle[t][f] = handle[u][e]
      BY <2>4 DEF closing
    <3>2. descriptors[handle[t][f]] = <<t, f>>
      BY <3>1, <2>1, <1>4 DEF HandlesAreOwn
    <3> QED
      BY <3>1, <3>2, <2>2, <2>1
  <2> QED
    BY <1>2, <2>1, <2>2, <2>3, <2>4
<1>5. ASSUME NEW d \in Descriptor \ Standard, descriptors'[d] # none
      PROVE  handle'[descriptors'[d][1]][descriptors'[d][2]] = d
  <2>1. descriptors'[d] = descriptors[d] /\ ~ closing(d)
    BY <1>2, <1>5
  <2>2. PICK u \in Thread, e \in End : descriptors[d] = <<u, e>>
    BY <2>1, <1>5 DEF TableOK
  <2>3. handle[u][e] = d
    <3>1. handle[descriptors[d][1]][descriptors[d][2]] = d
      BY <2>1, <1>5 DEF HandlesAreOwn
    <3>2. descriptors[d][1] = u /\ descriptors[d][2] = e
      BY <2>2
    <3> QED
      BY <3>1, <3>2
  <2>4. ~ (u = t /\ e \in ends)
    BY <2>1, <2>3 DEF closing
  <2> QED
    BY <1>1, <2>1, <2>2, <2>3, <2>4 DEF H
<1>6. HandlesAreOwn'
  BY <1>4, <1>5 DEF HandlesAreOwn
<1> QED
  BY <1>1, <1>3, <1>6 DEF H

\* The handles that are set have been closed, so that no number is lost, and they
\* get numbers of their own.
LEMMA OpenKeeps ==
  ASSUME NEW t \in Thread, TableOK, HandlesAreOwn, Object(t) \in 1..2,
         AllClosed(t, Object(t)), createPipes(t)
  PROVE  /\ TableOK' /\ HandlesAreOwn'
         /\ \A u \in Thread : \A e \in End :
              ~ (u = t /\ e \in Ends(Object(t))) => handle'[u][e] = handle[u][e]
<1> DEFINE mine == Ends(Object(t))
<1>1. PICK given :
        /\ Open(t, given)
        /\ \A e \in mine : given[e[1]][e[2]] \in Free \union {0}
        /\ \A e \in mine, f \in mine :
             given[e[1]][e[2]] = given[f[1]][f[2]] => e = f \/ given[e[1]][e[2]] = 0
  <2> DEFINE rest(p) == Free \ Numbers(p)
             last(p, q) == Free \ (Numbers(p) \union Numbers(q))
             three(p, q, r) == [stdin |-> p, stdout |-> q, stderr |-> r]
  <2>a. PICK stdin \in pipe(Free) :
          \E q \in pipe(rest(stdin)) : \E r \in pipe(last(stdin, q)) :
            Open(t, three(stdin, q, r))
    BY DEF createPipes, Free
  <2>b. PICK stdout \in pipe(rest(stdin)) :
          \E r \in pipe(last(stdin, stdout)) : Open(t, three(stdin, stdout, r))
    BY <2>a
  <2>1. PICK stderr \in pipe(last(stdin, stdout)) : Open(t, three(stdin, stdout, stderr))
    BY <2>b
  <2>2. /\ stdin.ipipe \in Free \union {0} /\ stdin.opipe \in Free \union {0}
        /\ stdin.ipipe = stdin.opipe => stdin.ipipe = 0
    BY <2>1, PipeTakesFree, FreeAboveStandard
  <2>3. /\ stdout.ipipe \in (Free \ Numbers(stdin)) \union {0}
        /\ stdout.opipe \in (Free \ Numbers(stdin)) \union {0}
        /\ stdout.ipipe = stdout.opipe => stdout.ipipe = 0
    <3>1. Free \ Numbers(stdin) \in SUBSET (Descriptor \ Standard)
      BY FreeAboveStandard
    <3> QED
      BY <2>1, <3>1, PipeTakesFree
  <2>4. /\ stderr.ipipe \in (Free \ (Numbers(stdin) \union Numbers(stdout))) \union {0}
        /\ stderr.opipe \in (Free \ (Numbers(stdin) \union Numbers(stdout))) \union {0}
        /\ stderr.ipipe = stderr.opipe => stderr.ipipe = 0
    <3>1. Free \ (Numbers(stdin) \union Numbers(stdout)) \in SUBSET (Descriptor \ Standard)
      BY FreeAboveStandard
    <3> QED
      BY <2>1, <3>1, PipeTakesFree
  <2> DEFINE given == [stdin |-> stdin, stdout |-> stdout, stderr |-> stderr]
  <2>5. \A e \in mine : /\ e = <<e[1], e[2], Object(t)>>
                        /\ e[1] \in {"stdin", "stdout", "stderr"}
                        /\ e[2] \in {"ipipe", "opipe"}
    BY DEF Ends
  <2>6. /\ given["stdin"]["ipipe"] = stdin.ipipe /\ given["stdin"]["opipe"] = stdin.opipe
        /\ given["stdout"]["ipipe"] = stdout.ipipe /\ given["stdout"]["opipe"] = stdout.opipe
        /\ given["stderr"]["ipipe"] = stderr.ipipe /\ given["stderr"]["opipe"] = stderr.opipe
    OBVIOUS
  <2>7. Open(t, given)
    BY <2>1
  <2> HIDE DEF given, mine
  <2>8. ASSUME NEW e \in mine
        PROVE  given[e[1]][e[2]] \in Free \union {0}
    BY <2>2, <2>3, <2>4, <2>5, <2>6
  <2>9. ASSUME NEW e \in mine, NEW f \in mine,
               given[e[1]][e[2]] = given[f[1]][f[2]], given[e[1]][e[2]] # 0
        PROVE  e[1] = f[1] /\ e[2] = f[2]
    BY <2>2, <2>3, <2>4, <2>5, <2>6, <2>9 DEF Numbers
  <2>10. ASSUME NEW e \in mine, NEW f \in mine, e[1] = f[1], e[2] = f[2]
         PROVE  e = f
    BY <2>5, <2>10
  <2> QED
    BY <2>7, <2>8, <2>9, <2>10
<1> DEFINE to(e) == given[e[1]][e[2]]
           at(d) == {e \in mine : to(e) = d}
<1>2. /\ handle' = [handle EXCEPT ![t] = [e \in End |-> IF e \in mine THEN to(e) ELSE @[e]]]
      /\ descriptors' = [d \in Descriptor |->
           IF d \notin Standard /\ at(d) # {} THEN <<t, CHOOSE e \in at(d) : TRUE>>
           ELSE descriptors[d]]
  BY <1>1 DEF Open
<1> mine \subseteq End
  BY EndsDiffer
<1>3. Free \subseteq Descriptor \ Standard /\ 0 \in Descriptor /\ 0 \in Standard
  BY FreeAboveStandard, Standards
<1>4. /\ \A e \in mine : to(e) \in Free \union {0}
      /\ \A e \in mine, f \in mine : to(e) = to(f) => e = f \/ to(e) = 0
  BY <1>1
<1>5. \A d \in Descriptor :
        /\ d \notin Standard /\ at(d) # {} =>
             \E e \in mine : to(e) = d /\ descriptors'[d] = <<t, e>>
        /\ ~ (d \notin Standard /\ at(d) # {}) => descriptors'[d] = descriptors[d]
  <2>1. ASSUME NEW d \in Descriptor, d \notin Standard, at(d) # {}
        PROVE  \E e \in mine : to(e) = d /\ descriptors'[d] = <<t, e>>
    <3>1. (CHOOSE e \in at(d) : TRUE) \in at(d)
      BY <2>1
    <3>2. descriptors'[d] = <<t, CHOOSE e \in at(d) : TRUE>>
      BY <1>2, <2>1
    <3> QED
      BY <3>1, <3>2
  <2> QED
    BY <1>2, <2>1
<1>6. \A e \in mine : to(e) # 0 => descriptors'[to(e)] = <<t, e>>
  <2> SUFFICES ASSUME NEW e \in mine, to(e) # 0
               PROVE  descriptors'[to(e)] = <<t, e>>
    OBVIOUS
  <2>1. to(e) \in Descriptor /\ to(e) \notin Standard /\ e \in at(to(e))
    BY <1>3, <1>4
  <2>2. PICK f \in mine : to(f) = to(e) /\ descriptors'[to(e)] = <<t, f>>
    BY <2>1, <1>5
  <2> QED
    BY <2>2, <1>4
<1>7. \A d \in Descriptor : d \notin Standard /\ at(d) # {} => descriptors[d] = none
  BY <1>3, <1>4 DEF Free
<1>8. /\ handle' \in [Thread -> [End -> Descriptor]]
      /\ \A u \in Thread : \A e \in End :
           handle'[u][e] = IF u = t /\ e \in mine THEN to(e) ELSE handle[u][e]
  BY <1>2, <1>3, <1>4 DEF TableOK
<1> HIDE DEF mine, to, at
<1>9. TableOK'
  <2>1. \A u \in Thread : \A e \in End : handle'[u][e] \in Standard => handle'[u][e] = 0
    BY <1>8, <1>4, <1>3 DEF TableOK
  <2>2. \A d \in Standard : descriptors'[d] = console
    BY <1>5, Standards DEF TableOK
  <2>3. ASSUME NEW d \in Descriptor \ Standard, descriptors'[d] # none
        PROVE  descriptors'[d] \in Thread \X End
    <3>1. CASE at(d) # {}
      <4>1. PICK e \in mine : descriptors'[d] = <<t, e>>
        BY <3>1, <1>5
      <4>2. e \in End
        BY EndsDiffer DEF mine
      <4> QED
        BY <4>1, <4>2
    <3>2. CASE at(d) = {}
      BY <3>2, <2>3, <1>5 DEF TableOK
    <3> QED
      BY <3>1, <3>2
  <2> QED
    BY <1>8, <2>1, <2>2, <2>3 DEF TableOK
<1>10. ASSUME NEW u \in Thread, NEW e \in End, handle'[u][e] # 0
       PROVE  descriptors'[handle'[u][e]] = <<u, e>>
  <2>1. CASE u = t /\ e \in mine
    BY <2>1, <1>6, <1>8, <1>10
  <2>2. CASE ~ (u = t /\ e \in mine)
    <3>1. handle'[u][e] = handle[u][e] /\ descriptors[handle[u][e]] = <<u, e>>
      BY <2>2, <1>8, <1>10 DEF HandlesAreOwn
    <3>2. handle[u][e] \in Descriptor /\ <<u, e>> # none
      BY ConsoleAssumption DEF TableOK
    <3> QED
      BY <3>1, <3>2, <1>5, <1>7
  <2> QED
    BY <2>1, <2>2
<1>11. ASSUME NEW d \in Descriptor \ Standard, descriptors'[d] # none
       PROVE  handle'[descriptors'[d][1]][descriptors'[d][2]] = d
  <2>1. CASE at(d) # {}
    <3>1. PICK e \in mine : to(e) = d /\ descriptors'[d] = <<t, e>>
      BY <2>1, <1>5
    <3>2. handle'[t][e] = d
      BY <3>1, <1>8
    <3> QED
      BY <3>1, <3>2
  <2>2. CASE at(d) = {}
    <3>1. descriptors'[d] = descriptors[d]
      BY <2>2, <1>5
    <3>2. PICK u \in Thread, e \in End : descriptors[d] = <<u, e>>
      BY <3>1, <1>11 DEF TableOK
    <3>3. handle[u][e] = d
      <4>1. handle[descriptors[d][1]][descriptors[d][2]] = d
        BY <3>1, <1>11 DEF HandlesAreOwn
      <4>2. descriptors[d][1] = u /\ descriptors[d][2] = e
        BY <3>2
      <4> QED
        BY <4>1, <4>2
    <3>4. ~ (u = t /\ e \in mine)
      BY <3>3, <1>3 DEF AllClosed, mine
    <3>5. handle'[u][e] = d
      BY <3>3, <3>4, <1>8
    <3> QED
      BY <3>1, <3>2, <3>5
  <2> QED
    BY <2>1, <2>2
<1>12. HandlesAreOwn'
  BY <1>10, <1>11 DEF HandlesAreOwn
<1> QED
  BY <1>8, <1>9, <1>12 DEF mine

-----------------------------------------------------------------------------
(* The places of a thread. *)

\* What is at hand of a job that is not over.
LEMMA Rest ==
  ASSUME NEW s \in Seq(Calls), Paired(s), s # <<>>
  PROVE  /\ Head(s) = s[1] /\ Head(s) \in Calls /\ Head(s).object \in 1..2
         /\ Head(s).kind = "log" => Head(s).object = 1
         /\ Tail(s) \in Seq(Calls) /\ Paired(Tail(s))
         /\ Tail(s) # <<>> =>
              /\ Len(s) > 1 /\ Head(Tail(s)) = s[2]
              /\ s[2].object = 1 \/ (s[2].object = 2 /\ Head(s).object = 1)
<1>1. Len(s) \in Nat /\ Len(s) > 0 /\ Head(s) = s[1] /\ s[1] \in Calls
  OBVIOUS
<1>2. /\ Tail(s) \in Seq(Calls) /\ Len(Tail(s)) = Len(s) - 1
      /\ \A i \in 1..Len(Tail(s)) : Tail(s)[i] = s[i + 1]
  BY <1>1
<1>3. \A i \in 2..Len(s) : s[i].object = 2 => s[i - 1].object = 1
  BY DEF Paired
<1>4. ASSUME NEW i \in 2..Len(Tail(s)), Tail(s)[i].object = 2
      PROVE  Tail(s)[i - 1].object = 1
  <2>1. i + 1 \in 2..Len(s) /\ i - 1 \in 1..Len(Tail(s)) /\ i \in 1..Len(Tail(s))
    BY <1>1, <1>2
  <2>2. Tail(s)[i] = s[i + 1] /\ Tail(s)[i - 1] = s[(i - 1) + 1] /\ (i - 1) + 1 = (i + 1) - 1
    BY <1>2, <2>1
  <2> QED
    BY <1>3, <1>4, <2>1, <2>2
<1>5. ASSUME Tail(s) # <<>>
      PROVE  /\ Len(s) > 1 /\ Head(Tail(s)) = s[2]
             /\ s[2].object = 1 \/ (s[2].object = 2 /\ Head(s).object = 1)
  <2>1. Len(s) > 1 /\ Head(Tail(s)) = s[2] /\ s[2] \in Calls
    BY <1>1, <1>2, <1>5
  <2>2. 2 \in 2..Len(s) /\ 2 - 1 = 1
    BY <1>1, <2>1
  <2>3. s[2].object = 2 => s[1].object = 1
    BY <1>3, <2>2
  <2>4. s[2].object = 1 \/ s[2].object = 2
    BY <2>1, CallShape
  <2>5. Head(s).object = s[1].object
    BY <1>1
  <2> QED
    BY <2>1, <2>3, <2>4, <2>5
<1>6. Head(s).object \in 1..2 /\ (Head(s).kind = "log" => Head(s).object = 1)
  BY <1>1, CallShape
<1> QED
  BY <1>1, <1>2, <1>4, <1>5, <1>6 DEF Paired

\* A thread that does nothing, and whose handles nobody touches, stays where it is.
LEMMA OthersStay ==
  ASSUME NEW u \in Thread, Shapes, StageOK(u), todo'[u] = todo[u], pc'[u] = pc[u],
         \A e \in End : handle'[u][e] = handle[u][e]
  PROVE  StageOK(u)'
<1>1. /\ \A e \in Ends(1) : handle'[u][e] = handle[u][e]
      /\ \A e \in Ends(2) : handle'[u][e] = handle[u][e]
  BY EndsDiffer
<1>2. Object(u)' = Object(u)
  BY DEF Object, Job
<1>3. todo[u] # <<>> => Object(u) = 1 \/ Object(u) = 2
  <2>1. todo[u] \in Seq(Calls)
    BY DEF Shapes
  <2>2. todo[u] # <<>> => Head(todo[u]) \in Calls
    BY <2>1
  <2> QED
    BY <2>2, CallShape DEF Object, Job
<1>4. Paired(todo[u])' = Paired(todo[u])
  BY DEF Paired
<1> QED
  BY <1>1, <1>2, <1>3, <1>4 DEF StageOK, AllClosed

\* The step of a thread that goes on with the call it is at.
LEMMA Onward ==
  ASSUME NEW t \in Thread, Shapes, StageOK(t), NEW place \in Place \ {"next", "print"},
         todo' = todo, todo[t] # <<>>, Goto(t, place),
         \A e \in Ends(2) : handle[t][e] = 0 => handle'[t][e] = 0
  PROVE  Shapes' /\ StageOK(t)'
<1>1. Shapes' /\ pc'[t] = place
  BY DEF Shapes, Goto
<1>2. Object(t)' = Object(t) /\ Paired(todo[t])' = Paired(todo[t])
  BY DEF Object, Job, Paired
<1> QED
  BY <1>1, <1>2 DEF StageOK, AllClosed

LEMMA ThreadStep ==
  ASSUME NEW t \in Thread, DescriptorInv, Shapes', TableOK', HandlesAreOwn', StageOK(t)',
         \A u \in Thread : u # t =>
           /\ todo'[u] = todo[u] /\ pc'[u] = pc[u]
           /\ \A e \in End : handle'[u][e] = handle[u][e]
  PROVE  DescriptorInv'
<1>1. ASSUME NEW u \in Thread PROVE StageOK(u)'
  <2>1. CASE u = t
    BY <2>1
  <2>2. CASE u # t
    BY <2>2, OthersStay DEF DescriptorInv
  <2> QED
    BY <2>1, <2>2
<1> QED
  BY <1>1 DEF DescriptorInv

LEMMA Untouched ==
  ASSUME TableOK, HandlesAreOwn, UNCHANGED <<handle, descriptors>>
  PROVE  TableOK' /\ HandlesAreOwn'
BY DEF TableOK, HandlesAreOwn

\* Steps that go on with a call and leave the pipes alone.
LEMMA WalkKeeps ==
  ASSUME NEW t \in Thread, DescriptorInv, NEW place \in Place \ {"next", "print"},
         todo' = todo, pc[t] # "next", Goto(t, place), UNCHANGED <<handle, descriptors>>
  PROVE  DescriptorInv'
<1>1. Shapes' /\ StageOK(t)'
  <2>1. todo[t] # <<>>
    BY DEF DescriptorInv, StageOK
  <2> QED
    BY <2>1, Onward DEF DescriptorInv
<1>2. \A u \in Thread : u # t => pc'[u] = pc[u]
  BY DEF Goto, DescriptorInv, Shapes
<1> QED
  BY <1>1, <1>2, Untouched, ThreadStep DEF DescriptorInv

\* Steps that go on with a call and close some ends.
LEMMA CloseWalkKeeps ==
  ASSUME NEW t \in Thread, DescriptorInv, NEW place \in Place \ {"next", "print"},
         todo' = todo, pc[t] # "next", Goto(t, place),
         NEW ends \in SUBSET End, close(t, ends)
  PROVE  DescriptorInv'
<1>1. /\ TableOK' /\ HandlesAreOwn'
      /\ \A u \in Thread : \A e \in End :
           handle'[u][e] = IF u = t /\ e \in ends THEN 0 ELSE handle[u][e]
  BY CloseKeeps DEF DescriptorInv
<1>2. Shapes' /\ StageOK(t)'
  <2>1. todo[t] # <<>>
    BY DEF DescriptorInv, StageOK
  <2>2. \A e \in Ends(2) : handle[t][e] = 0 => handle'[t][e] = 0
    BY <1>1, EndsDiffer
  <2> QED
    BY <2>1, <2>2, Onward DEF DescriptorInv
<1>3. \A u \in Thread : u # t => pc'[u] = pc[u]
  BY DEF Goto, DescriptorInv, Shapes
<1> QED
  BY <1>1, <1>2, <1>3, ThreadStep DEF DescriptorInv

LEMMA Objects ==
  ASSUME NEW t \in Thread, DescriptorInv, todo[t] # <<>>
  PROVE  /\ todo[t] \in Seq(Calls) /\ Paired(todo[t])
         /\ Object(t) = 1 \/ Object(t) = 2
         /\ Ends(Object(t)) \subseteq End
<1>1. todo[t] \in Seq(Calls) /\ Paired(todo[t])
  BY DEF DescriptorInv, Shapes, StageOK
<1>2. Object(t) = 1 \/ Object(t) = 2
  BY <1>1, Rest DEF Object, Job
<1> QED
  BY <1>1, <1>2, EndsDiffer

LEMMA ConstructKeeps ==
  ASSUME NEW t \in Thread, DescriptorInv, construct(t)
  PROVE  DescriptorInv'
<1>1. /\ pc[t] = "next" /\ todo[t] # <<>> /\ createPipes(t) /\ todo' = todo
      /\ Goto(t, IF Job(t).locked THEN "lock" ELSE "start")
  BY DEF construct, At
<1>2. Object(t) \in 1..2 /\ AllClosed(t, Object(t))
  <2>1. Object(t) = 1 \/ Object(t) = 2
    BY <1>1, Objects
  <2>2. AllClosed(t, Object(t))
    BY <1>1 DEF DescriptorInv, StageOK
  <2> QED
    BY <2>1, <2>2
<1>3. /\ TableOK' /\ HandlesAreOwn'
      /\ \A u \in Thread : \A e \in End :
           ~ (u = t /\ e \in Ends(Object(t))) => handle'[u][e] = handle[u][e]
  BY <1>1, <1>2, OpenKeeps DEF DescriptorInv
<1>4. PICK place \in Place \ {"next", "print"} : Goto(t, place)
  BY <1>1 DEF Place
<1>5. Shapes' /\ pc'[t] = place /\ Object(t)' = Object(t)
      /\ Paired(todo[t])' = Paired(todo[t])
  BY <1>1, <1>4 DEF DescriptorInv, Shapes, Goto, Object, Job, Paired
<1>6. Object(t) = 1 => AllClosed(t, 2)'
  <2>1. SUFFICES ASSUME Object(t) = 1, NEW e \in Ends(2) PROVE handle'[t][e] = 0
    BY DEF AllClosed
  <2>2. handle[t][e] = 0
    BY <1>1, <2>1 DEF DescriptorInv, StageOK, AllClosed
  <2> QED
    BY <1>3, <2>1, <2>2, EndsDiffer
<1>7. StageOK(t)'
  BY <1>1, <1>5, <1>6 DEF StageOK, DescriptorInv
<1>8. \A u \in Thread : u # t => pc'[u] = pc[u]
  BY <1>4 DEF Goto, DescriptorInv, Shapes
<1> QED
  BY <1>1, <1>3, <1>5, <1>7, <1>8, ThreadStep

\* Where the next object is a second one, that of this call is a first one.
LEMMA DestroyKeeps ==
  ASSUME NEW t \in Thread, DescriptorInv, destroy(t)
  PROVE  DescriptorInv'
<1>1. /\ pc[t] = "destroy" /\ todo[t] # <<>> /\ close(t, Destroyed(t))
      /\ todo' = IF Again(t) THEN todo ELSE [todo EXCEPT ![t] = Tail(@)]
      /\ Goto(t, "next")
  BY DEF destroy, DescriptorInv, StageOK
<1>2. /\ todo[t] \in Seq(Calls) /\ Paired(todo[t]) /\ Ends(Object(t)) \subseteq End
      /\ Object(t) = 1 \/ Object(t) = 2
  BY <1>1, Objects
<1>3. Destroyed(t) \subseteq End
  BY <1>2 DEF Destroyed
<1>4. /\ TableOK' /\ HandlesAreOwn'
      /\ \A u \in Thread : \A e \in End :
           handle'[u][e] = IF u = t /\ e \in Destroyed(t) THEN 0 ELSE handle[u][e]
  BY <1>1, <1>3, CloseKeeps DEF DescriptorInv
<1>5. /\ Tail(todo[t]) \in Seq(Calls) /\ Paired(Tail(todo[t]))
      /\ Tail(todo[t]) # <<>> =>
           /\ Len(todo[t]) > 1 /\ Head(Tail(todo[t])) = todo[t][2]
           /\ todo[t][2].object = 1 \/ (todo[t][2].object = 2 /\ Object(t) = 1)
  BY <1>1, <1>2, Rest DEF Object, Job
<1>6. /\ Shapes' /\ pc'[t] = "next"
      /\ todo'[t] = IF Again(t) THEN todo[t] ELSE Tail(todo[t])
      /\ \A u \in Thread : u # t => pc'[u] = pc[u] /\ todo'[u] = todo[u]
  BY <1>1, <1>5 DEF DescriptorInv, Shapes, Goto, Place
<1>7. Paired(todo[t])'
  <2>1. Paired(todo'[t])
    BY <1>2, <1>5, <1>6
  <2> QED
    BY <2>1 DEF Paired
<1>8. todo'[t] # <<>> => AllClosed(t, Object(t))' /\ (Object(t)' = 1 => AllClosed(t, 2)')
  <2>1. CASE Again(t)
    <3>1. Destroyed(t) = Ends(Object(t)) /\ Object(t)' = Object(t)
      BY <1>6, <2>1 DEF Destroyed, Object, Job
    <3>2. \A e \in Ends(Object(t)) : handle'[t][e] = 0
      BY <3>1, <1>2, <1>4
    <3>3. Object(t) = 1 => \A e \in Ends(2) : handle[t][e] = 0
      BY <1>1 DEF DescriptorInv, StageOK, AllClosed
    <3>4. Object(t) = 1 => \A e \in Ends(2) : handle'[t][e] = 0
      BY <3>3, <1>4, EndsDiffer
    <3> QED
      BY <3>1, <3>2, <3>4 DEF AllClosed
  <2>2. CASE ~ Again(t) /\ todo'[t] # <<>>
    <3>1. /\ todo'[t] = Tail(todo[t]) /\ Object(t)' = todo[t][2].object
          /\ Len(todo[t]) > 1
          /\ todo[t][2].object = 1 \/ (todo[t][2].object = 2 /\ Object(t) = 1)
      BY <1>5, <1>6, <2>2 DEF Object, Job
    <3>2. CASE todo[t][2].object = 2
      <4>1. Object(t) = 1 /\ Object(t)' = 2
        BY <3>1, <3>2
      <4>2. \A e \in Ends(2) : handle[t][e] = 0
        BY <1>1, <4>1 DEF DescriptorInv, StageOK, AllClosed
      <4>3. \A e \in Ends(2) : handle'[t][e] = 0
        BY <4>2, <1>4, EndsDiffer
      <4> QED
        BY <4>1, <4>3 DEF AllClosed
    <3>3. CASE todo[t][2].object = 1
      <4>1. Destroyed(t) = End
        BY <2>2, <3>1, <3>3 DEF Destroyed
      <4>2. \A e \in End : handle'[t][e] = 0
        BY <4>1, <1>4
      <4> QED
        BY <4>2, <3>1, <3>3, EndsDiffer DEF AllClosed
    <3> QED
      BY <3>1, <3>2, <3>3
  <2> QED
    BY <2>1, <2>2
<1>9. StageOK(t)'
  BY <1>6, <1>7, <1>8 DEF StageOK
<1> QED
  BY <1>4, <1>6, <1>9, ThreadStep

LEMMA InfoKeeps ==
  ASSUME NEW t \in Thread, DescriptorInv, info(t)
  PROVE  DescriptorInv'
<1>1. UNCHANGED <<handle, descriptors>>
  BY DEF info, pipes
<1>2. TableOK' /\ HandlesAreOwn'
  BY <1>1, Untouched DEF DescriptorInv
<1>3. CASE pc[t] = "next" /\ At(t, "log") /\ Goto(t, "print") /\ todo' = todo
  <2>1. /\ Shapes' /\ pc'[t] = "print" /\ todo[t] # <<>>
        /\ Object(t)' = Object(t) /\ Paired(todo[t])' = Paired(todo[t])
        /\ \A u \in Thread : u # t => pc'[u] = pc[u]
    BY <1>3 DEF DescriptorInv, Shapes, Goto, At, Place, Object, Job, Paired
  <2>2. Object(t) = 1
    <3>1. todo[t] \in Seq(Calls) /\ Paired(todo[t])
      BY <2>1, Objects
    <3> QED
      BY <1>3, <2>1, <3>1, Rest DEF At, Object, Job
  <2>3. StageOK(t)'
    BY <1>1, <1>3, <2>1, <2>2 DEF DescriptorInv, StageOK, AllClosed
  <2> QED
    BY <1>1, <1>2, <1>3, <2>1, <2>3, ThreadStep
<1>4. CASE pc[t] = "print" /\ Goto(t, "next") /\ todo' = [todo EXCEPT ![t] = Tail(@)]
  <2>1. /\ todo[t] # <<>> /\ Object(t) = 1
        /\ \A e \in Ends(1) : handle[t][e] = 0
        /\ \A e \in Ends(2) : handle[t][e] = 0
    BY <1>4 DEF DescriptorInv, StageOK, AllClosed
  <2>2. todo[t] \in Seq(Calls) /\ Paired(todo[t])
    BY <2>1, Objects
  <2>3. /\ Tail(todo[t]) \in Seq(Calls) /\ Paired(Tail(todo[t]))
        /\ Tail(todo[t]) # <<>> =>
             Head(Tail(todo[t])).object = 1 \/ Head(Tail(todo[t])).object = 2
    BY <2>1, <2>2, Rest
  <2>4. /\ Shapes' /\ pc'[t] = "next" /\ todo'[t] = Tail(todo[t])
        /\ \A u \in Thread : u # t => pc'[u] = pc[u] /\ todo'[u] = todo[u]
    BY <1>4, <2>3 DEF DescriptorInv, Shapes, Goto, Place
  <2>5. Paired(todo[t])'
    <3>1. Paired(todo'[t])
      BY <2>3, <2>4
    <3> QED
      BY <3>1 DEF Paired
  <2>6. todo'[t] # <<>> => Object(t)' = 1 \/ Object(t)' = 2
    BY <2>3, <2>4 DEF Object, Job
  <2>7. StageOK(t)'
    BY <1>1, <2>1, <2>4, <2>5, <2>6 DEF StageOK, AllClosed
  <2> QED
    BY <1>1, <1>2, <2>4, <2>7, ThreadStep
<1> QED
  BY <1>3, <1>4 DEF info

LEMMA CommandKeeps ==
  ASSUME NEW t \in Thread, DescriptorInv, command(t)
  PROVE  DescriptorInv'
<1>1. UNCHANGED <<todo, pc, handle, descriptors>>
  BY DEF command, execvp, exitChild, complete, end, pipes
<1>2. TableOK' /\ HandlesAreOwn' /\ Shapes'
  BY <1>1, Untouched DEF DescriptorInv, Shapes
<1>3. \A u \in Thread : StageOK(u)'
  BY <1>1, OthersStay DEF DescriptorInv
<1> QED
  BY <1>2, <1>3 DEF DescriptorInv

LEMMA StepKeeps ==
  ASSUME NEW t \in Thread, DescriptorInv, step(t)
  PROVE  DescriptorInv'
<1>1. ASSUME NEW place \in Place \ {"next", "print"}, todo' = todo, pc[t] # "next",
             Goto(t, place), UNCHANGED <<handle, descriptors>>
      PROVE  DescriptorInv'
  BY <1>1, WalkKeeps
<1>2. CASE construct(t)
  BY <1>2, ConstructKeeps
<1>3. CASE lock(t)
  BY <1>3, <1>1 DEF lock, pipes, Place
<1>4. CASE start(t)
  <2> DEFINE ends == {<<s, IF s = "stdin" THEN "ipipe" ELSE "opipe", Object(t)>> :
                        s \in {"stdin", "stdout", "stderr"}}
  <2>1. pc[t] # "next" /\ todo' = todo /\ Goto(t, "started") /\ close(t, ends)
    BY <1>4 DEF start
  <2>2. ends \subseteq Ends(Object(t))
    BY DEF Ends
  <2>3. todo[t] # <<>>
    BY <2>1 DEF DescriptorInv, StageOK
  <2>4. ends \in SUBSET End
    BY <2>2, <2>3, Objects
  <2>5. "started" \in Place \ {"next", "print"}
    BY DEF Place
  <2> HIDE DEF ends
  <2> QED
    BY <2>1, <2>4, <2>5, CloseWalkKeeps
<1>5. CASE closeStdin(t)
  <2> DEFINE ends == {e \in Ends(Object(t)) : e[1] = "stdin"}
  <2>1. pc[t] # "next" /\ todo' = todo /\ Goto(t, "wait") /\ close(t, ends)
    BY <1>5 DEF closeStdin
  <2>2. todo[t] # <<>>
    BY <2>1 DEF DescriptorInv, StageOK
  <2>3. ends \in SUBSET End
    BY <2>2, Objects
  <2>4. "wait" \in Place \ {"next", "print"}
    BY DEF Place
  <2> HIDE DEF ends
  <2> QED
    BY <2>1, <2>3, <2>4, CloseWalkKeeps
<1>6. CASE wait(t)
  <2>1. PICK place \in Place \ {"next", "print"} : Goto(t, place)
    BY <1>6 DEF wait, Place
  <2> QED
    BY <1>6, <2>1, <1>1 DEF wait, pipes
<1>7. CASE report(t)
  <2>1. PICK place \in Place \ {"next", "print"} : Goto(t, place)
    BY <1>7 DEF report, Place
  <2> QED
    BY <1>7, <2>1, <1>1 DEF report, pipes
<1>8. CASE destroy(t)
  BY <1>8, DestroyKeeps
<1>9. CASE exit(t)
  <2>1. UNCHANGED <<todo, pc, handle, descriptors>>
    BY <1>9 DEF exit, pipes
  <2>2. TableOK' /\ HandlesAreOwn' /\ Shapes'
    BY <2>1, Untouched DEF DescriptorInv, Shapes
  <2>3. \A u \in Thread : StageOK(u)'
    BY <2>1, OthersStay DEF DescriptorInv
  <2> QED
    BY <2>2, <2>3 DEF DescriptorInv
<1>10. CASE info(t)
  BY <1>10, InfoKeeps
<1> QED
  BY <1>2, <1>3, <1>4, <1>5, <1>6, <1>7, <1>8, <1>9, <1>10 DEF step

-----------------------------------------------------------------------------
LEMMA InitDescriptors == Init => DescriptorInv
<1> SUFFICES ASSUME Init PROVE DescriptorInv
  OBVIOUS
<1>1. \A t \in Thread : todo[t] \in Seq(Calls) /\ Paired(todo[t])
  BY ScriptAssumption DEF Init, Paired
<1>2. Shapes
  BY <1>1 DEF Init, Shapes, Place
<1>3. \A t \in Thread : \A e \in End : handle[t][e] = 0
  BY DEF Init, Closed
<1>4. TableOK
  <2>1. handle \in [Thread -> [End -> Descriptor]]
    BY Standards DEF Init, Closed
  <2>2. /\ \A d \in Standard : descriptors[d] = console
        /\ \A d \in Descriptor \ Standard : descriptors[d] = none
    BY Standards DEF Init
  <2> QED
    BY <2>1, <2>2, <1>3 DEF TableOK
<1>5. HandlesAreOwn
  BY <1>3 DEF Init, HandlesAreOwn
<1>6. ASSUME NEW t \in Thread PROVE StageOK(t)
  <2>1. pc[t] = "next" /\ (\A e \in Ends(1) : handle[t][e] = 0)
                      /\ (\A e \in Ends(2) : handle[t][e] = 0)
    BY <1>3, EndsDiffer DEF Init
  <2>2. todo[t] # <<>> => Object(t) = 1 \/ Object(t) = 2
    BY <1>1, Rest DEF Object, Job
  <2> QED
    BY <1>1, <2>1, <2>2 DEF StageOK, AllClosed
<1> QED
  BY <1>2, <1>4, <1>5, <1>6 DEF DescriptorInv

LEMMA NextDescriptors == DescriptorInv /\ [Next]_vars => DescriptorInv'
<1> SUFFICES ASSUME DescriptorInv, [Next]_vars PROVE DescriptorInv'
  OBVIOUS
<1>1. CASE UNCHANGED vars
  <2>1. UNCHANGED <<todo, pc, handle, descriptors>>
    BY <1>1 DEF vars, pipes
  <2>2. TableOK' /\ HandlesAreOwn' /\ Shapes'
    BY <2>1, Untouched DEF DescriptorInv, Shapes
  <2>3. \A t \in Thread : StageOK(t)'
    BY <2>1, OthersStay DEF DescriptorInv
  <2> QED
    BY <2>2, <2>3 DEF DescriptorInv
<1>2. CASE Next
  <2>1. PICK t \in Thread : step(t) \/ command(t)
    BY <1>2 DEF Next
  <2> QED
    BY <2>1, StepKeeps, CommandKeeps
<1> QED
  BY <1>1, <1>2

LEMMA DescriptorInvariant == Spec => []DescriptorInv
  BY InitDescriptors, NextDescriptors, PTL DEF Spec

\* No thread closes or reads a pipe of another one, though numbers are used again,
\* and no descriptor stays open without its handle: for any number of threads, jobs
\* and descriptors, also where they run out.
THEOREM OwnDescriptors == Spec => []HandlesAreOwn
<1>1. DescriptorInv => HandlesAreOwn
  BY DEF DescriptorInv
<1> QED
  BY <1>1, DescriptorInvariant, PTL

-----------------------------------------------------------------------------
(* What the children write, and what is read of it. *)

\* The functions that steps update have the threads as their domain.
PerThread ==
  /\ child = [t \in Thread |-> child[t]] /\ stdio = [t \in Thread |-> stdio[t]]
  /\ output = [t \in Thread |-> output[t]] /\ printed = [t \in Thread |-> printed[t]]
  /\ content = [t \in Thread |-> content[t]]

\* The pipes hold what the command that has ended has written.
Full(t) ==
  \A s \in Out : content[t][s] = IF pipeOf(t, s) # none THEN Fitting(output[t][s]) ELSE <<>>

Silent(t) == \A s \in Out : output[t][s] = <<>>
Empty(t) == \A s \in Out : content[t][s] = <<>>

\* What is written can be read, until the report is printed; without a pipe to write
\* to, nothing is written.
Wired(t) ==
  \A s \in Out : handle[t][<<s, "ipipe", Object(t)>>] # 0 =>
    \/ pipeOf(t, s) # none
    \/ child[t] \notin {"forked", "running"} /\ Silent(t)

\* A child writes to the pipes of its own command, once.
PipeInv(t) ==
  /\ \A s \in Out : pipeOf(t, s) \in {none, <<t, s>>}
  /\ \A s \in Out : output[t][s] \in Seq(Thread \X Out \X Nat)
  /\ pc[t] \in {"next", "lock", "start", "print"} =>
       /\ child[t] = "none" /\ printed[t] = none /\ Silent(t) /\ Empty(t)
       /\ \A s \in Out : pipeOf(t, s) = none
  /\ pc[t] \in {"started", "wait"} =>
       /\ child[t] \in {"forked", "running", "exiting", "dead", "failed", "reaped"}
       /\ printed[t] = none
       /\ child[t] \notin {"dead", "reaped"} => Empty(t)
       /\ child[t] \in {"forked", "exiting", "failed"} => Silent(t)
       /\ child[t] \in {"dead", "reaped"} => Full(t)
  /\ pc[t] \in {"report", "destroy", "exit"} => child[t] = "none" /\ Full(t)
  /\ pc[t] \in {"lock", "start"} =>
       \A s \in Out : handle[t][<<s, "ipipe", Object(t)>>] # 0 =>
                        handle[t][<<s, "opipe", Object(t)>>] # 0
  /\ pc[t] \in {"started", "wait", "report"} => Wired(t)
  /\ printed[t] # none => \A s \in Out :
       handle[t][<<s, "ipipe", Object(t)>>] # 0 => printed[t][s] = Fitting(output[t][s])

ReportInv == PerThread /\ \A t \in Thread : PipeInv(t)

LEMMA FittingNothing == Fitting(<<>>) = <<>>
  BY CapacityAssumption DEF Fitting

LEMMA WrittenUnits ==
  ASSUME NEW t \in Thread, NEW o \in Outputs, NEW s \in Out
  PROVE  Written(t, o)[s] \in Seq(Thread \X Out \X Nat)
<1>1. o[s] \in Nat
  BY OutputAssumption
<1>2. Written(t, o)[s] = [i \in 1..o[s] |-> <<t, s, i>>]
  BY DEF Written
<1>3. \A i \in 1..o[s] : <<t, s, i>> \in Thread \X Out \X Nat
  BY <1>1
<1> QED
  BY <1>1, <1>2, <1>3

LEMMA EndOfOut ==
  ASSUME NEW t \in Thread, DescriptorInv, todo[t] # <<>>, NEW s \in Out
  PROVE  /\ <<s, "ipipe", Object(t)>> \in Ends(Object(t))
         /\ <<s, "opipe", Object(t)>> \in Ends(Object(t))
         /\ <<s, "ipipe", Object(t)>> \in End /\ <<s, "opipe", Object(t)>> \in End
<1>1. Ends(Object(t)) \subseteq End
  BY Objects
<1> QED
  BY <1>1 DEF Ends, Out

\* The other threads see nothing of a step.
LEMMA OthersPipe ==
  ASSUME NEW u \in Thread, DescriptorInv, PipeInv(u),
         todo'[u] = todo[u], pc'[u] = pc[u], child'[u] = child[u], stdio'[u] = stdio[u],
         output'[u] = output[u], printed'[u] = printed[u],
         \A s \in Out : content'[u][s] = content[u][s],
         \A e \in End : handle'[u][e] = handle[u][e]
  PROVE  PipeInv(u)'
<1>1. pc[u] # "next" => todo[u] # <<>>
  BY DEF DescriptorInv, StageOK
<1>2. \A s \in Out : pipeOf(u, s)' = pipeOf(u, s)
  BY DEF pipeOf
<1>3. Object(u)' = Object(u)
  BY DEF Object, Job
<1>4. ASSUME todo[u] # <<>>, NEW s \in Out
      PROVE  /\ handle'[u][<<s, "ipipe", Object(u)>>] = handle[u][<<s, "ipipe", Object(u)>>]
             /\ handle'[u][<<s, "opipe", Object(u)>>] = handle[u][<<s, "opipe", Object(u)>>]
  BY <1>4, EndOfOut
<1>5. (Full(u) => Full(u)') /\ (Silent(u) => Silent(u)') /\ (Empty(u) => Empty(u)')
  BY <1>2 DEF Full, Silent, Empty
<1>6. pc[u] # "next" /\ Wired(u) => Wired(u)'
  BY <1>1, <1>2, <1>3, <1>4, <1>5 DEF Wired
<1>7. pc[u] \in {"lock", "start"} =>
        \A s \in Out : handle'[u][<<s, "ipipe", Object(u)'>>] # 0 =>
                         handle'[u][<<s, "opipe", Object(u)'>>] # 0
  BY <1>1, <1>3, <1>4 DEF PipeInv
<1>8. printed[u] # none => \A s \in Out :
        handle'[u][<<s, "ipipe", Object(u)'>>] # 0 => printed[u][s] = Fitting(output[u][s])
  BY <1>1, <1>3, <1>4 DEF PipeInv
<1> QED
  BY <1>2, <1>5, <1>6, <1>7, <1>8 DEF PipeInv

\* A step of thread t that changes none of the functions but at t.
Alone(t) ==
  \A u \in Thread \ {t} :
    /\ todo'[u] = todo[u] /\ pc'[u] = pc[u] /\ child'[u] = child[u]
    /\ stdio'[u] = stdio[u] /\ output'[u] = output[u] /\ printed'[u] = printed[u]
    /\ \A s \in Out : content'[u][s] = content[u][s]
    /\ \A e \in End : handle'[u][e] = handle[u][e]

LEMMA AloneKeeps ==
  ASSUME NEW t \in Thread, DescriptorInv, ReportInv, Alone(t), PerThread', PipeInv(t)'
  PROVE  ReportInv'
<1>1. ASSUME NEW u \in Thread \ {t} PROVE PipeInv(u)'
  BY OthersPipe DEF ReportInv, Alone
<1> QED
  BY <1>1 DEF ReportInv

\* What the constructor opens to be read can be written.
LEMMA OpenedInPairs ==
  ASSUME NEW t \in Thread, TableOK, createPipes(t), Ends(Object(t)) \subseteq End, NEW s \in Out
  PROVE  handle'[t][<<s, "ipipe", Object(t)>>] # 0 => handle'[t][<<s, "opipe", Object(t)>>] # 0
<1> DEFINE rest(p) == Free \ Numbers(p)
           last(p, q) == Free \ (Numbers(p) \union Numbers(q))
           three(p, q, r) == [stdin |-> p, stdout |-> q, stderr |-> r]
<1>1. PICK stdin \in pipe(Free) :
        \E q \in pipe(rest(stdin)) : \E r \in pipe(last(stdin, q)) :
          Open(t, three(stdin, q, r))
  BY DEF createPipes, Free
<1>2. PICK stdout \in pipe(rest(stdin)) :
        \E r \in pipe(last(stdin, stdout)) : Open(t, three(stdin, stdout, r))
  BY <1>1
<1>3. PICK stderr \in pipe(last(stdin, stdout)) : Open(t, three(stdin, stdout, stderr))
  BY <1>2
<1>4. ASSUME NEW free \in SUBSET Free, NEW p \in pipe(free)
      PROVE  p.ipipe # 0 => p.opipe # 0
  <2>1. free \in SUBSET (Descriptor \ Standard) /\ 0 \in Standard
    BY FreeAboveStandard, Standards
  <2> QED
    BY <2>1, PipeTakesFree
<1>5. /\ stdout.ipipe # 0 => stdout.opipe # 0
      /\ stderr.ipipe # 0 => stderr.opipe # 0
  BY <1>4
<1> DEFINE given == three(stdin, stdout, stderr)
<1>6. Open(t, given)
  BY <1>3
<1>7. given["stdout"] = stdout /\ given["stderr"] = stderr
  OBVIOUS
<1> HIDE DEF given
<1>8. \A e \in Ends(Object(t)) : handle'[t][e] = given[e[1]][e[2]]
  BY <1>6 DEF Open, TableOK
<1>9. \A k \in {"ipipe", "opipe"} :
        /\ <<s, k, Object(t)>> \in Ends(Object(t))
        /\ handle'[t][<<s, k, Object(t)>>] = given[s][k]
  <2>1. \A k \in {"ipipe", "opipe"} : <<s, k, Object(t)>> \in Ends(Object(t))
    BY DEF Ends, Out
  <2> QED
    BY <1>8, <2>1
<1> QED
  BY <1>5, <1>7, <1>9 DEF Out

\* The child has the writing ends of its own pipes as 1 and 2, or the console.
LEMMA WiredOwn ==
  ASSUME NEW t \in Thread, DescriptorInv, todo[t] # <<>>, stdio'[t] = dup2(t), NEW s \in Out
  PROVE  /\ pipeOf(t, s)' \in {none, <<t, s>>}
         /\ handle[t][<<s, "opipe", Object(t)>>] # 0 => pipeOf(t, s)' # none
<1> DEFINE e == <<s, "opipe", Object(t)>>
           n == IF s = "stdout" THEN 1 ELSE 2
<1>1. e \in End /\ handle[t][e] \in Descriptor /\ n \in Standard /\ n # 0
  <2>1. e \in End
    BY EndOfOut
  <2>2. handle[t][e] \in Descriptor
    <3> HIDE DEF e
    <3> QED
      BY <2>1 DEF DescriptorInv, TableOK
  <2>3. n \in Standard /\ n # 0
    BY DEF Standard
  <2> QED
    BY <2>1, <2>2, <2>3
<1>2. stdio'[t][n] = descriptors[handle[t][e]]
  <2>1. Stream[n + 1] = s
    BY DEF Stream, Out
  <2> QED
    BY <1>1, <2>1 DEF dup2
<1>3. CASE handle[t][e] = 0
  <2>1. stdio'[t][n] = console
    BY <1>2, <1>3, Standards DEF DescriptorInv, TableOK
  <2>2. pipeOf(t, s)' = none
    BY <2>1 DEF pipeOf
  <2> QED
    BY <1>3, <2>2
<1>4. CASE handle[t][e] # 0
  <2>1. stdio'[t][n] = <<t, e>>
    BY <1>1, <1>2, <1>4 DEF DescriptorInv, HandlesAreOwn
  <2>2. stdio'[t][n] \notin {console, none}
    BY <1>1, <2>1, ConsoleAssumption
  <2>3. stdio'[t][n][1] = t /\ stdio'[t][n][2][1] = s
    BY <2>1
  <2> HIDE DEF e
  <2>4. pipeOf(t, s)' = <<t, s>>
    BY <2>2, <2>3 DEF pipeOf
  <2>5. <<t, s>> # none
    BY OutputAssumption
  <2> QED
    BY <2>4, <2>5
<1> QED
  BY <1>3, <1>4

-----------------------------------------------------------------------------
(* The steps keep what is known of the pipes. *)

LEMMA SetUpReports ==
  ASSUME NEW t \in Thread, DescriptorInv, ReportInv, construct(t) \/ lock(t)
  PROVE  ReportInv'
<1>1. /\ pc[t] \in {"next", "lock"} /\ pc'[t] \in {"lock", "start"} /\ todo[t] # <<>>
      /\ \A u \in Thread \ {t} : pc'[u] = pc[u]
      /\ UNCHANGED <<todo, child, stdio, output, printed, content>>
  <2>1. pc \in [Thread -> Place] /\ (pc[t] # "next" => todo[t] # <<>>)
    BY DEF DescriptorInv, Shapes, StageOK
  <2>2. CASE construct(t)
    <3>1. UNCHANGED <<todo, process, printed, content>> /\ pc[t] = "next" /\ todo[t] # <<>>
      BY <2>2 DEF construct, At
    <3>2. \E place \in {"lock", "start"} : pc' = [pc EXCEPT ![t] = place]
      BY <2>2 DEF construct, Goto
    <3> QED
      BY <2>1, <3>1, <3>2 DEF process
  <2>3. CASE lock(t)
    <3>1. UNCHANGED <<todo, process, printed, content>> /\ pc[t] = "lock"
      BY <2>3 DEF lock, pipes
    <3>2. pc' = [pc EXCEPT ![t] = "start"]
      BY <2>3 DEF lock, Goto
    <3> QED
      BY <2>1, <3>1, <3>2 DEF process
  <2> QED
    BY <2>2, <2>3
<1>2. /\ \A u \in Thread \ {t} : \A e \in End : handle'[u][e] = handle[u][e]
      /\ \A s \in Out : handle'[t][<<s, "ipipe", Object(t)>>] # 0 =>
                         handle'[t][<<s, "opipe", Object(t)>>] # 0
  <2>1. CASE construct(t)
    <3>1. Object(t) \in 1..2 /\ AllClosed(t, Object(t)) /\ createPipes(t)
          /\ Ends(Object(t)) \subseteq End
      BY <1>1, <2>1, Objects DEF construct, DescriptorInv, StageOK
    <3> QED
      BY <3>1, OpenKeeps, OpenedInPairs DEF DescriptorInv
  <2>2. CASE lock(t)
    BY <2>2 DEF lock, pipes, ReportInv, PipeInv
  <2> QED
    BY <2>1, <2>2
<1>3. PerThread'
  BY <1>1 DEF ReportInv, PerThread
<1>4. PipeInv(t)'
  <2>1. Object(t)' = Object(t)
    BY <1>1 DEF Object, Job
  <2>2. \A s \in Out : pipeOf(t, s)' = pipeOf(t, s)
    BY <1>1 DEF pipeOf
  <2>3. PipeInv(t)
    BY DEF ReportInv
  <2>4. Silent(t)' /\ Empty(t)'
    BY <1>1, <2>3 DEF PipeInv, Silent, Empty
  <2>5. \A s \in Out : handle'[t][<<s, "ipipe", Object(t)'>>] # 0 =>
                         handle'[t][<<s, "opipe", Object(t)'>>] # 0
    BY <1>2, <2>1
  <2> QED
    BY <1>1, <2>2, <2>3, <2>4, <2>5 DEF PipeInv
<1> QED
  BY <1>1, <1>2, <1>3, <1>4, AloneKeeps DEF Alone

LEMMA StartReports ==
  ASSUME NEW t \in Thread, DescriptorInv, ReportInv, start(t)
  PROVE  ReportInv'
<1> DEFINE ends == {<<s, IF s = "stdin" THEN "ipipe" ELSE "opipe", Object(t)>> :
                      s \in {"stdin", "stdout", "stderr"}}
<1>1. /\ pc[t] = "start" /\ pc'[t] = "started" /\ todo[t] # <<>> /\ close(t, ends)
      /\ \/ child'[t] = "forked" /\ stdio'[t] = dup2(t)
         \/ child'[t] = "failed" /\ stdio'[t] = stdio[t]
      /\ \A u \in Thread \ {t} : pc'[u] = pc[u] /\ child'[u] = child[u] /\ stdio'[u] = stdio[u]
      /\ UNCHANGED <<todo, output, printed, content>>
  BY DEF start, Goto, DescriptorInv, Shapes, StageOK, ReportInv, PerThread
<1>2. ends \in SUBSET End
  <2>1. ends \subseteq Ends(Object(t))
    BY DEF Ends
  <2> QED
    BY <1>1, <2>1, Objects
<1>3. \A s \in Out : <<s, "ipipe", Object(t)>> \notin ends
  BY DEF Out
<1> HIDE DEF ends
<1>4. \A u \in Thread : \A e \in End :
        handle'[u][e] = IF u = t /\ e \in ends THEN 0 ELSE handle[u][e]
  BY <1>1, <1>2, CloseKeeps DEF DescriptorInv
<1>5. PerThread'
  <2>1. /\ \E state : child' = [child EXCEPT ![t] = state]
        /\ stdio' = stdio \/ \E wired : stdio' = [stdio EXCEPT ![t] = wired]
    BY DEF start
  <2> QED
    BY <1>1, <2>1 DEF ReportInv, PerThread
<1>6. PipeInv(t)'
  <2>1. PipeInv(t)
    BY DEF ReportInv
  <2>2. \A s \in Out : pipeOf(t, s)' \in {none, <<t, s>>}
    <3>1. CASE stdio'[t] = dup2(t)
      BY <1>1, <3>1, WiredOwn
    <3>2. CASE stdio'[t] = stdio[t]
      BY <2>1, <3>2 DEF PipeInv, pipeOf
    <3> QED
      BY <1>1, <3>1, <3>2
  <2>3. Silent(t)' /\ Empty(t)'
    BY <1>1, <2>1 DEF PipeInv, Silent, Empty
  <2>4. Wired(t)'
    <3>1. Object(t)' = Object(t)
      BY <1>1 DEF Object, Job
    <3>2. ASSUME NEW s \in Out, handle'[t][<<s, "ipipe", Object(t)>>] # 0,
                 stdio'[t] = dup2(t)
          PROVE  pipeOf(t, s)' # none
      <4>1. <<s, "ipipe", Object(t)>> \in End
        BY <1>1, EndOfOut
      <4>2. handle[t][<<s, "ipipe", Object(t)>>] # 0
        BY <1>3, <1>4, <3>2, <4>1
      <4>3. handle[t][<<s, "opipe", Object(t)>>] # 0
        BY <1>1, <2>1, <4>2 DEF PipeInv
      <4> QED
        BY <1>1, <3>2, <4>3, WiredOwn
    <3> QED
      BY <1>1, <2>3, <3>1, <3>2 DEF Wired
  <2> QED
    BY <1>1, <2>1, <2>2, <2>3, <2>4 DEF PipeInv
<1> QED
  BY <1>1, <1>4, <1>5, <1>6, AloneKeeps DEF Alone

LEMMA CloseStdinReports ==
  ASSUME NEW t \in Thread, DescriptorInv, ReportInv, closeStdin(t)
  PROVE  ReportInv'
<1> DEFINE ends == {e \in Ends(Object(t)) : e[1] = "stdin"}
<1>1. /\ pc[t] = "started" /\ pc'[t] = "wait" /\ todo[t] # <<>> /\ close(t, ends)
      /\ \A u \in Thread \ {t} : pc'[u] = pc[u]
      /\ UNCHANGED <<todo, child, stdio, output, printed, content>>
  BY DEF closeStdin, Goto, process, DescriptorInv, Shapes, StageOK
<1>2. ends \in SUBSET End
  BY <1>1, Objects
<1>3. \A s \in Out : <<s, "ipipe", Object(t)>> \notin ends
  BY DEF Out
<1> HIDE DEF ends
<1>4. \A u \in Thread : \A e \in End :
        handle'[u][e] = IF u = t /\ e \in ends THEN 0 ELSE handle[u][e]
  BY <1>1, <1>2, CloseKeeps DEF DescriptorInv
<1>5. PerThread'
  BY <1>1 DEF ReportInv, PerThread
<1>6. PipeInv(t)'
  <2>1. PipeInv(t)
    BY DEF ReportInv
  <2>2. \A s \in Out : pipeOf(t, s)' = pipeOf(t, s)
    BY <1>1 DEF pipeOf
  <2>3. (Silent(t) => Silent(t)') /\ (Empty(t) => Empty(t)') /\ (Full(t) => Full(t)')
    BY <1>1, <2>2 DEF Silent, Empty, Full
  <2>4. Wired(t)'
    <3>1. Object(t)' = Object(t) /\ Wired(t)
      BY <1>1, <2>1 DEF Object, Job, PipeInv
    <3>2. ASSUME NEW s \in Out, handle'[t][<<s, "ipipe", Object(t)>>] # 0
          PROVE  handle[t][<<s, "ipipe", Object(t)>>] # 0
      <4>1. <<s, "ipipe", Object(t)>> \in End
        BY <1>1, EndOfOut
      <4> QED
        BY <1>3, <1>4, <3>2, <4>1
    <3> QED
      BY <1>1, <2>2, <2>3, <3>1, <3>2 DEF Wired
  <2> QED
    BY <1>1, <2>1, <2>2, <2>3, <2>4 DEF PipeInv
<1> QED
  BY <1>1, <1>4, <1>5, <1>6, AloneKeeps DEF Alone

\* Also where the child was that of another thread, whose pipes it leaves as they are.
LEMMA WaitReports ==
  ASSUME NEW t \in Thread, DescriptorInv, ReportInv, wait(t)
  PROVE  ReportInv'
<1>1. /\ pc[t] = "wait" /\ pc'[t] \in {"report", "destroy"}
      /\ \A u \in Thread \ {t} : pc'[u] = pc[u]
      /\ UNCHANGED <<todo, stdio, output, printed, content, handle>>
  BY DEF wait, Goto, pipes, DescriptorInv, Shapes
<1>2. /\ PerThread'
      /\ child[t] \in {"dead", "reaped", "failed"} /\ child'[t] = "none"
      /\ \A u \in Thread \ {t} :
           child'[u] = child[u] \/ (child[u] = "dead" /\ child'[u] = "reaped")
  <2>1. CASE /\ child[t] \in {"dead", "reaped", "failed"}
             /\ child' = [child EXCEPT ![t] = "none"]
    BY <1>1, <2>1 DEF ReportInv, PerThread
  <2>2. CASE /\ child[t] = "failed"
             /\ \E u \in Children : /\ child[u] = "dead"
                                    /\ child' = [child EXCEPT ![t] = "none", ![u] = "reaped"]
    <3>1. PICK u \in Thread : /\ child[u] = "dead"
                               /\ child' = [child EXCEPT ![t] = "none", ![u] = "reaped"]
      BY <2>2 DEF Children
    <3>2. u # t
      BY <2>2, <3>1
    <3> QED
      BY <1>1, <2>2, <3>1, <3>2 DEF ReportInv, PerThread
  <2> QED
    BY <2>1, <2>2 DEF wait, waitpid
<1>3. ASSUME NEW u \in Thread
      PROVE  /\ PipeInv(u) /\ Object(u)' = Object(u)
             /\ \A s \in Out : pipeOf(u, s)' = pipeOf(u, s)
             /\ Silent(u)' = Silent(u) /\ Empty(u)' = Empty(u) /\ Full(u)' = Full(u)
  BY <1>1 DEF ReportInv, pipeOf, Object, Job, Silent, Empty, Full
<1>4. PipeInv(t)'
  <2>1. Full(t)
    <3>1. CASE child[t] = "failed"
      BY <1>1, <1>3, <3>1, FittingNothing DEF PipeInv, Silent, Empty, Full
    <3>2. CASE child[t] # "failed"
      BY <1>1, <1>2, <1>3, <3>2 DEF PipeInv
    <3> QED
      BY <3>1, <3>2
  <2>2. Wired(t)'
    BY <1>1, <1>2, <1>3 DEF PipeInv, Wired
  <2> QED
    BY <1>1, <1>2, <1>3, <2>1, <2>2 DEF PipeInv
<1>5. ASSUME NEW u \in Thread \ {t} PROVE PipeInv(u)'
  <2>1. CASE child'[u] = child[u]
    BY <1>1, <1>3, <2>1, OthersPipe
  <2>2. CASE child[u] = "dead" /\ child'[u] = "reaped"
    <3>1. pc[u] \in {"started", "wait"}
      BY <1>3, <2>2 DEF PipeInv, DescriptorInv, Shapes, Place
    <3>2. Wired(u)'
      BY <1>1, <1>3, <2>2, <3>1 DEF PipeInv, Wired
    <3> QED
      BY <1>1, <1>3, <2>2, <3>1, <3>2 DEF PipeInv
  <2> QED
    BY <1>2, <2>1, <2>2
<1> QED
  BY <1>2, <1>4, <1>5 DEF ReportInv

\* What report reads is in the pipe of this command: the number of its end has not
\* been given to another one.
LEMMA ReportReports ==
  ASSUME NEW t \in Thread, DescriptorInv, ReportInv, report(t)
  PROVE  ReportInv'
<1>1. /\ pc[t] = "report" /\ pc'[t] \in {"exit", "destroy"} /\ todo[t] # <<>>
      /\ printed' = [printed EXCEPT ![t] = [s \in Out |-> read(t, s)]]
      /\ printed'[t] = [s \in Out |-> read(t, s)]
      /\ \A u \in Thread \ {t} : pc'[u] = pc[u] /\ printed'[u] = printed[u]
      /\ UNCHANGED <<todo, child, stdio, output, content, handle>>
  BY DEF report, Goto, pipes, process, DescriptorInv, Shapes, StageOK, ReportInv, PerThread
<1>2. PerThread'
  BY <1>1 DEF ReportInv, PerThread
<1>3. PipeInv(t)'
  <2>1. PipeInv(t)
    BY DEF ReportInv
  <2>2. \A s \in Out : pipeOf(t, s)' = pipeOf(t, s)
    BY <1>1 DEF pipeOf
  <2>3. ASSUME NEW s \in Out, handle[t][<<s, "ipipe", Object(t)>>] # 0
        PROVE  printed'[t][s] = Fitting(output[t][s])
    <3> DEFINE e == <<s, "ipipe", Object(t)>>
    <3>1. e \in End /\ handle[t][e] # 0
      BY <1>1, <2>3, EndOfOut
    <3>2. descriptors[handle[t][e]] = <<t, e>>
      <4> HIDE DEF e
      <4> QED
        BY <3>1 DEF DescriptorInv, HandlesAreOwn
    <3>3. <<t, e>> \notin {console, none}
      BY <3>1, ConsoleAssumption
    <3>4. read(t, s) = content[t][s]
      BY <3>2, <3>3 DEF read
    <3>5. content[t][s] = Fitting(output[t][s])
      <4>1. Full(t) /\ (pipeOf(t, s) # none \/ Silent(t))
        BY <1>1, <2>1, <2>3 DEF PipeInv, Wired
      <4> QED
        BY <4>1, FittingNothing DEF Full, Silent
    <3> QED
      BY <1>1, <3>4, <3>5
  <2>4. Full(t)' /\ Object(t)' = Object(t)
    BY <1>1, <2>1, <2>2 DEF PipeInv, Full, Object, Job
  <2> QED
    BY <1>1, <2>1, <2>2, <2>3, <2>4 DEF PipeInv
<1> QED
  BY <1>1, <1>2, <1>3, AloneKeeps DEF Alone

LEMMA DestroyReports ==
  ASSUME NEW t \in Thread, DescriptorInv, ReportInv, destroy(t)
  PROVE  ReportInv'
<1>1. /\ pc[t] = "destroy" /\ pc'[t] = "next" /\ todo[t] # <<>> /\ close(t, Destroyed(t))
      /\ \A u \in Thread \ {t} : pc'[u] = pc[u] /\ todo'[u] = todo[u]
  BY DEF destroy, Goto, DescriptorInv, Shapes, StageOK
<1>2. /\ child' = [child EXCEPT ![t] = "none"]
      /\ stdio' = [stdio EXCEPT ![t] = [n \in Standard |-> console]]
      /\ output' = [output EXCEPT ![t] = Nothing] /\ printed' = [printed EXCEPT ![t] = none]
      /\ content' = [content EXCEPT ![t] = Nothing]
  BY DEF destroy, Forget
<1>3. PerThread'
  BY <1>2 DEF ReportInv, PerThread
<1>4. /\ child'[t] = "none" /\ stdio'[t] = [n \in Standard |-> console]
      /\ output'[t] = Nothing /\ printed'[t] = none /\ content'[t] = Nothing
      /\ \A u \in Thread \ {t} :
           /\ child'[u] = child[u] /\ stdio'[u] = stdio[u] /\ output'[u] = output[u]
           /\ printed'[u] = printed[u] /\ content'[u] = content[u]
  BY <1>2 DEF ReportInv, PerThread
<1>5. Destroyed(t) \in SUBSET End
  BY <1>1, Objects DEF Destroyed
<1>6. \A u \in Thread \ {t} : \A e \in End : handle'[u][e] = handle[u][e]
  BY <1>1, <1>5, CloseKeeps DEF DescriptorInv
<1>7. PipeInv(t)'
  <2>1. \A s \in Out : pipeOf(t, s)' = none
    BY <1>4 DEF pipeOf, Standard
  <2>2. \A s \in Out : output'[t][s] = <<>> /\ content'[t][s] = <<>>
    BY <1>4 DEF Nothing
  <2>3. <<>> \in Seq(Thread \X Out \X Nat)
    OBVIOUS
  <2> QED
    BY <1>1, <1>4, <2>1, <2>2, <2>3 DEF PipeInv, Silent, Empty
<1> QED
  BY <1>1, <1>3, <1>4, <1>6, <1>7, AloneKeeps DEF Alone

LEMMA RestReports ==
  ASSUME NEW t \in Thread, DescriptorInv, ReportInv, info(t) \/ exit(t)
  PROVE  ReportInv'
<1>1. /\ UNCHANGED <<child, stdio, output, printed, content, handle>>
      /\ \/ pc[t] = "next" /\ pc'[t] = "print" /\ UNCHANGED todo
         \/ pc[t] = "print" /\ pc'[t] = "next"
         \/ pc'[t] = pc[t] /\ UNCHANGED todo
      /\ \A u \in Thread \ {t} : pc'[u] = pc[u] /\ todo'[u] = todo[u]
  BY DEF info, exit, Goto, process, pipes, DescriptorInv, Shapes
<1>2. PerThread'
  BY <1>1 DEF ReportInv, PerThread
<1>3. PipeInv(t)'
  <2>1. PipeInv(t)
    BY DEF ReportInv
  <2>2. CASE pc'[t] = pc[t] /\ UNCHANGED todo
    BY <1>1, <2>1, <2>2, OthersPipe
  <2>3. CASE pc[t] \in {"next", "print"} /\ pc'[t] \in {"next", "print"}
    <3>1. \A s \in Out : pipeOf(t, s)' = pipeOf(t, s)
      BY <1>1 DEF pipeOf
    <3>2. Silent(t)' /\ Empty(t)'
      BY <1>1, <2>1, <2>3 DEF PipeInv, Silent, Empty
    <3> QED
      BY <1>1, <2>1, <2>3, <3>1, <3>2 DEF PipeInv
  <2> QED
    BY <1>1, <2>2, <2>3
<1> QED
  BY <1>1, <1>2, <1>3, AloneKeeps DEF Alone

\* A child writes to the empty pipes of its own command and to no others.
LEMMA PouredOwn ==
  ASSUME NEW t \in Thread, \A s \in Out : pipeOf(t, s) \in {none, <<t, s>>},
         \A s \in Out : output[t][s] \in Seq(Thread \X Out \X Nat),
         Empty(t), content' = Poured(t)
  PROVE  /\ \A s \in Out :
              content'[t][s] = IF pipeOf(t, s) # none THEN Fitting(output[t][s]) ELSE <<>>
         /\ \A u \in Thread \ {t} : \A s \in Out : content'[u][s] = content[u][s]
<1> DEFINE into(u, s) == {w \in Out : pipeOf(t, w) = <<u, s>>}
<1>1. \A u \in Thread : \A s \in Out :
        content'[u][s] = IF into(u, s) = {} THEN content[u][s]
                         ELSE Fitting(content[u][s] \o output[t][CHOOSE w \in into(u, s) : TRUE])
  BY DEF Poured
<1>2. \A u \in Thread : \A s \in Out : <<u, s>> # none
  BY OutputAssumption
<1>3. ASSUME NEW u \in Thread \ {t}, NEW s \in Out PROVE into(u, s) = {}
  BY <1>2
<1>4. ASSUME NEW s \in Out
      PROVE  into(t, s) = IF pipeOf(t, s) # none THEN {s} ELSE {}
  BY <1>2
<1>5. ASSUME NEW s \in Out PROVE content[t][s] \o output[t][s] = output[t][s]
  <2>1. content[t][s] = <<>>
    BY DEF Empty
  <2>2. ASSUME NEW w \in Seq(Thread \X Out \X Nat) PROVE <<>> \o w = w
    OBVIOUS
  <2> QED
    BY <2>1, <2>2
<1> HIDE DEF into
<1>6. ASSUME NEW s \in Out
      PROVE  content'[t][s] = IF pipeOf(t, s) # none THEN Fitting(output[t][s]) ELSE <<>>
  <2>1. CASE pipeOf(t, s) = none
    BY <1>1, <1>4, <2>1 DEF Empty
  <2>2. CASE pipeOf(t, s) # none
    <3>1. into(t, s) = {s} /\ (CHOOSE w \in {s} : TRUE) = s
      BY <1>4, <2>2
    <3>2. content'[t][s] = Fitting(content[t][s] \o output[t][s])
      BY <1>1, <3>1
    <3> QED
      BY <1>5, <2>2, <3>2
  <2> QED
    BY <2>1, <2>2
<1> QED
  BY <1>1, <1>3, <1>6

LEMMA CommandReports ==
  ASSUME NEW t \in Thread, DescriptorInv, ReportInv, command(t)
  PROVE  ReportInv'
<1>1. PipeInv(t) /\ pc \in [Thread -> Place]
  BY DEF ReportInv, DescriptorInv, Shapes
<1>2. /\ UNCHANGED <<todo, pc, stdio, printed, handle>>
      /\ child[t] \in {"forked", "running", "exiting"}
  BY DEF command, execvp, exitChild, complete, end, pipes
<1>3. pc[t] \in {"started", "wait"} /\ todo[t] # <<>>
  BY <1>1, <1>2 DEF PipeInv, Place, DescriptorInv, StageOK
<1>4. (\A s \in Out : pipeOf(t, s)' = pipeOf(t, s)) /\ Object(t)' = Object(t)
  BY <1>2 DEF pipeOf, Object, Job
<1>5. \A s \in Out : handle'[t][<<s, "ipipe", Object(t)'>>] # 0 /\ pipeOf(t, s)' = none =>
                       child[t] = "exiting" /\ Silent(t)
  BY <1>1, <1>2, <1>3, <1>4 DEF PipeInv, Wired
<1>6. CASE execvp(t)
  <2>1. /\ child[t] = "forked" /\ child'[t] \in {"running", "exiting"}
        /\ PerThread' /\ UNCHANGED content
        /\ \A u \in Thread \ {t} : child'[u] = child[u] /\ output'[u] = output[u]
        /\ \/ \E o \in Outputs : child'[t] = "running" /\ output'[t] = Written(t, o)
           \/ output'[t] = output[t]
    BY <1>2, <1>6 DEF execvp, pipes, ReportInv, PerThread
  <2>2. \A s \in Out : output'[t][s] \in Seq(Thread \X Out \X Nat)
    BY <1>1, <2>1, WrittenUnits DEF PipeInv
  <2>3. Empty(t)' /\ (child'[t] = "exiting" => Silent(t)')
    <3>1. Empty(t) /\ Silent(t)
      BY <1>1, <1>3, <2>1 DEF PipeInv
    <3> QED
      BY <2>1, <3>1 DEF Empty, Silent
  <2>4. Wired(t)'
    BY <1>5, <2>1 DEF Wired
  <2>5. PipeInv(t)'
    BY <1>1, <1>2, <1>3, <1>4, <2>1, <2>2, <2>3, <2>4 DEF PipeInv
  <2> QED
    BY <1>2, <2>1, <2>5, AloneKeeps DEF Alone
<1>7. ASSUME child' = [child EXCEPT ![t] = "dead"], UNCHANGED output, PerThread', Full(t)',
             \A u \in Thread \ {t} : \A s \in Out : content'[u][s] = content[u][s]
      PROVE  ReportInv'
  <2>1. child'[t] = "dead" /\ \A u \in Thread \ {t} : child'[u] = child[u]
    BY <1>7 DEF ReportInv, PerThread
  <2>2. Wired(t)'
    <3>1. Silent(t)' = Silent(t)
      BY <1>7 DEF Silent
    <3> QED
      BY <1>5, <2>1, <3>1 DEF Wired
  <2>3. PipeInv(t)'
    BY <1>1, <1>2, <1>3, <1>4, <1>7, <2>1, <2>2 DEF PipeInv
  <2> QED
    BY <1>2, <1>7, <2>1, <2>3, AloneKeeps DEF Alone
<1>8. CASE exitChild(t)
  <2>1. /\ child[t] = "exiting" /\ child' = [child EXCEPT ![t] = "dead"]
        /\ UNCHANGED <<output, content>>
    BY <1>8 DEF exitChild, end
  <2>2. Silent(t) /\ Empty(t)
    BY <1>1, <1>3, <2>1 DEF PipeInv
  <2>3. Full(t)'
    BY <1>4, <2>1, <2>2, FittingNothing DEF Full, Silent, Empty
  <2>4. PerThread'
    BY <1>2, <2>1 DEF ReportInv, PerThread
  <2> QED
    BY <1>7, <2>1, <2>3, <2>4
<1>9. CASE \E code \in 0..1 : complete(t, code)
  <2>1. /\ child[t] = "running" /\ child' = [child EXCEPT ![t] = "dead"]
        /\ UNCHANGED output /\ content' = Poured(t)
    BY <1>9 DEF complete, end
  <2>2. Empty(t)
    BY <1>1, <1>3, <2>1 DEF PipeInv
  <2>3. /\ \A s \in Out :
             content'[t][s] = IF pipeOf(t, s) # none THEN Fitting(output[t][s]) ELSE <<>>
        /\ \A u \in Thread \ {t} : \A s \in Out : content'[u][s] = content[u][s]
    BY <1>1, <2>1, <2>2, PouredOwn DEF PipeInv
  <2>4. Full(t)'
    BY <1>4, <2>1, <2>3 DEF Full
  <2>5. PerThread'
    BY <1>2, <2>1 DEF ReportInv, PerThread, Poured
  <2> QED
    BY <1>7, <2>1, <2>3, <2>4, <2>5
<1> QED
  BY <1>6, <1>8, <1>9 DEF command

\* What is printed of a command is what it has written, each output on its own, up to
\* what a pipe holds, whatever the other threads run at the same time; it is nothing
\* where fork has failed, though the status is that of the child of another thread.
THEOREM ReportsAreWhole == Spec => []ReportIsWhole
<1>1. Init => DescriptorInv /\ ReportInv
  <2> SUFFICES ASSUME Init PROVE ReportInv /\ DescriptorInv
    OBVIOUS
  <2>1. PerThread
    BY DEF Init, PerThread
  <2>2. \A t \in Thread : \A s \in Out : pipeOf(t, s) = none
    BY DEF Init, pipeOf, Standard
  <2>3. \A t \in Thread : PipeInv(t)
    <3> SUFFICES ASSUME NEW t \in Thread PROVE PipeInv(t)
      OBVIOUS
    <3>1. pc[t] = "next" /\ child[t] = "none" /\ printed[t] = none
      BY DEF Init
    <3>2. \A s \in Out : output[t][s] = <<>> /\ content[t][s] = <<>>
      BY DEF Init, Nothing
    <3>3. <<>> \in Seq(Thread \X Out \X Nat)
      OBVIOUS
    <3> QED
      BY <2>2, <3>1, <3>2, <3>3 DEF PipeInv, Silent, Empty
  <2> QED
    BY <2>1, <2>3, InitDescriptors DEF ReportInv
<1>2. DescriptorInv /\ ReportInv /\ [Next]_vars => DescriptorInv' /\ ReportInv'
  <2> SUFFICES ASSUME DescriptorInv, ReportInv, [Next]_vars PROVE ReportInv'
    BY NextDescriptors
  <2>1. ASSUME UNCHANGED vars PROVE ReportInv'
    <3>1. PerThread'
      BY <2>1 DEF vars, process, pipes, ReportInv, PerThread
    <3>2. ASSUME NEW u \in Thread PROVE PipeInv(u)'
      BY <2>1, OthersPipe DEF vars, process, pipes, ReportInv
    <3> QED
      BY <3>1, <3>2 DEF ReportInv
  <2>2. CASE Next
    <3>1. PICK t \in Thread : step(t) \/ command(t)
      BY <2>2 DEF Next
    <3> QED
      BY <3>1, SetUpReports, StartReports, CloseStdinReports, WaitReports, ReportReports,
         DestroyReports, RestReports, CommandReports DEF step
  <2> QED
    BY <2>1, <2>2
<1>3. ReportInv => ReportIsWhole
  BY DEF ReportInv, PipeInv, ReportIsWhole
<1> QED
  BY <1>1, <1>2, <1>3, PTL DEF Spec
=============================================================================
