-------------------------- MODULE ShellTool_proof ---------------------------
(***************************************************************************)
(* The sandbox decides, for command lines of any length, any number of     *)
(* calls and any timeout.  The property alone is not inductive: it needs   *)
(* that the tools are built after the probe, whose result does not change; *)
(* that nothing runs before the child of a call is started, so that a      *)
(* retry for want of ash is of a line that never ran on it; and that a     *)
(* child which exits has an exit code, which then is not that of success.  *)
(***************************************************************************)
EXTENDS ShellTool, TLAPS

Tools == {"idle", "ash", "script", "system"}
ChildStates == {"none", "running", "hung", "exited", "killed"}
Codes == {"none", "zero", "other"}
Marked == {"pre_exec", "denied"}
Child == [state : ChildStates, next : Nat, code : Codes, marks : SUBSET Marked]
Ended == [spawned : BOOLEAN, killed : BOOLEAN, code : Codes, marks : SUBSET Marked]
Started == [track : Tools, part : Nat]

TypeOK ==
  /\ binary \in {"ash", "other", "missing"}
  /\ ash \in {"unprobed", "present", "absent"}
  /\ told \in {"unprobed", "present", "absent"}
  /\ tool \in Tools /\ forced \in BOOLEAN /\ line \in Seq(Kinds)
  /\ child \in Child /\ ended \in Seq(Ended) /\ ran \in Seq(Started)

\* What a tool was told of ash is what the probe found, for good.
ToldOfProbe == told # "unprobed" => ash = told

\* Before the child of a call on ash is started, nothing of its line has run.
NothingRan == tool \in {"ash", "script"} /\ child.state = "none" => ran = <<>>

\* A line has parts, and a child that got past its first has an exit code.
CodeKnown ==
  /\ tool # "idle" \/ child.state # "none" => line # <<>>
  /\ child.state \in {"running", "hung"} /\ child.code = "none" => child.next = 1
  /\ child.state = "exited" => child.code # "none"

ShellInv == TypeOK /\ ToldOfProbe /\ NothingRan /\ CodeKnown /\ SandboxDecides

\* A new call starts with no run under ash recorded and no part run.
LEMMA NoneEnded ==
  /\ <<>> \in Seq(Kinds) /\ <<>> \in Seq(Ended) /\ <<>> \in Seq(Started)
  /\ ~\E i \in DOMAIN <<>> : TRUE
  OBVIOUS

\* A run under ash that counts as not started failed to start by all it shows.
LEMMA PreExecIsClean ==
  ASSUME child \in Child, child.state \in {"exited", "killed"}, CodeKnown,
         Classify = "PreExecFailure"
  PROVE  /\ child.state = "exited" /\ child.code = "other"
         /\ "pre_exec" \in child.marks /\ "denied" \notin child.marks
<1>1. child.code \in Codes
  BY DEF Child
<1>2. child.state # "killed"
  BY DEF Classify
<1>3. child.code # "zero"
  BY <1>2 DEF Classify
<1>4. "denied" \notin child.marks
  BY <1>2, <1>3 DEF Classify
<1>5. "pre_exec" \in child.marks
  BY <1>2, <1>3, <1>4 DEF Classify
<1> QED BY <1>1, <1>2, <1>3, <1>4, <1>5 DEF CodeKnown, Codes

\* Recording the first run of a call.
LEMMA RecordsOne ==
  ASSUME child \in Child, ended = <<>>, Records
  PROVE  /\ ended' \in Seq(Ended) /\ ended' # <<>>
         /\ \A i \in DOMAIN ended' : /\ ended'[i].spawned = (child.state # "none")
                                     /\ ended'[i].killed = (child.state = "killed")
                                     /\ ended'[i].code = child.code
                                     /\ ended'[i].marks = child.marks
<1> DEFINE e == [spawned |-> child.state # "none", killed |-> child.state = "killed",
                 code |-> child.code, marks |-> child.marks]
<1>1. e \in Ended
  BY DEF Ended, Child
<1>2. ended' = Append(<<>>, e)
  BY DEF Records
<1>3. /\ e.spawned = (child.state # "none") /\ e.killed = (child.state = "killed")
      /\ e.code = child.code /\ e.marks = child.marks
  OBVIOUS
<1> HIDE DEF e
<1>4. ended' = <<e>>
  BY <1>2
<1> QED BY <1>1, <1>3, <1>4

\* The absent child has run nothing.
LEMMA NoChildType == NoChild \in Child /\ NoChild.state = "none" /\ NoChild.marks = {}
  BY DEF NoChild, Child, ChildStates, Codes

\* The invariant holds when the front end starts.
LEMMA InitInv == Init => ShellInv
<1> SUFFICES ASSUME Init PROVE ShellInv
  OBVIOUS
<1>1. line \in Seq(Kinds) /\ ended \in Seq(Ended) /\ ran \in Seq(Started)
  BY NoneEnded DEF Init
<1>2. TypeOK
  BY <1>1, NoChildType DEF Init, TypeOK, Tools
<1>3. ToldOfProbe /\ NothingRan /\ CodeKnown
  BY NoChildType DEF Init, ToldOfProbe, NothingRan, CodeKnown
<1>4. SandboxDecides
  BY DEF Init, SandboxDecides
<1> QED BY <1>2, <1>3, <1>4 DEF ShellInv

\* Building the tools and every kind of call preserve the invariant.
LEMMA CallInv ==
  ASSUME ShellInv, ShellAssumption, BuildTools \/ Call
  PROVE  ShellInv'
<1> USE DEF ShellInv
<1>0. ASSUME NEW l \in Lines PROVE l \in Seq(Kinds) /\ l # <<>>
  <2>1. PICK n \in 1..MaxParts : l \in [1..n -> Kinds]
    BY <1>0 DEF Lines
  <2>2. n \in Nat /\ 1 \in 1..n /\ l \in Seq(Kinds) /\ Len(l) = n
    BY <2>1, ShellAssumption
  <2> QED BY <2>2
<1>1. CASE BuildTools
  BY <1>1 DEF BuildTools, AshAvailable, ProbeAsh, TypeOK, ToldOfProbe, NothingRan, CodeKnown,
              SandboxDecides, callVars, Tools
<1>2. ASSUME NEW l \in Lines, NEW track \in {"ash", "system", "script"}, Start(track, l),
             UNCHANGED <<binary, told>>, ash' \in {"unprobed", "present", "absent"},
             told' # "unprobed" => ash' = told', forced' \in BOOLEAN,
             track \in {"ash", "script"} => told' = "present",
             track = "system" /\ ~forced' => told' # "present"
      PROVE  ShellInv'
  <2>1. /\ tool' = track /\ line' = l /\ child' = NoChild
        /\ ran' = <<>> /\ ended' = <<>>
    BY <1>2 DEF Start
  <2>2. line' \in Seq(Kinds) /\ line' # <<>>
    BY <1>0, <2>1
  <2>3. TypeOK'
    BY <1>2, <2>1, <2>2, NoChildType, NoneEnded DEF TypeOK, Tools
  <2>4. ToldOfProbe' /\ NothingRan' /\ CodeKnown'
    BY <1>2, <2>1, <2>2, NoChildType DEF ToldOfProbe, NothingRan, CodeKnown
  <2>5. SandboxDecides'
    BY <1>2, <2>1, NoneEnded DEF SandboxDecides
  <2> QED BY <2>3, <2>4, <2>5
<1>3. ASSUME NEW l \in Lines, Forced(l) PROVE ShellInv'
  BY <1>2, <1>3 DEF Forced, Idle, TypeOK, ToldOfProbe
<1>4. ASSUME NEW l \in Lines, Whitelisted(l) PROVE ShellInv'
  <2>1. AshAvailable = ash /\ ash \in {"present", "absent"} /\ ash = told
    BY <1>4 DEF Whitelisted, Idle, AshAvailable, TypeOK, ToldOfProbe
  <2> QED BY <1>2, <1>4, <2>1 DEF Whitelisted
<1>5. ASSUME NEW l \in Lines, NEW content \in BOOLEAN, RunAshScript(l, content)
      PROVE  ShellInv'
  BY <1>2, <1>5 DEF RunAshScript, Idle, TypeOK, ToldOfProbe
<1>6. CASE Paused
  BY <1>6, NoneEnded
     DEF Paused, Idle, TypeOK, ToldOfProbe, NothingRan, CodeKnown, SandboxDecides, Tools
<1> QED BY <1>1, <1>3, <1>4, <1>5, <1>6 DEF Call

\* A part of the line is run.
LEMMA PartInv ==
  ASSUME ShellInv, Part
  PROVE  ShellInv'
<1> USE DEF ShellInv
<1>1. /\ child \in Child /\ tool \in Tools /\ ran \in Seq(Started) /\ ended \in Seq(Ended)
      /\ line \in Seq(Kinds)
      /\ child.state = "running" /\ child.next \in Nat /\ Len(line) \in Nat
  BY DEF TypeOK, Child, Part
<1>2. PICK code \in {"zero", "other"}, next \in {child.next + 1, Len(line) + 1} :
        child' = [state |-> IF OnTrack(line[child.next]) = "hangs" THEN "hung" ELSE "running",
                  next |-> next, code |-> code,
                  marks |-> child.marks \cup Marks(OnTrack(line[child.next]))]
  BY DEF Part
<1>3. Marks(OnTrack(line[child.next])) \subseteq Marked /\ next \in Nat
  BY <1>1 DEF Marks, Marked
<1>4. child' \in Child /\ child'.state \in {"running", "hung"} /\ child'.code # "none"
  BY <1>1, <1>2, <1>3 DEF Child, ChildStates, Codes
<1> DEFINE s == [track |-> tool, part |-> child.next]
<1>5. s \in Started /\ s.track = tool
  BY <1>1 DEF Started
<1>6. UNCHANGED <<binary, ash, told, tool, line, forced, ended>> /\ (ran' = ran \/ ran' = Append(ran, s))
  BY DEF Part
<1> HIDE DEF s
<1>7. /\ ran' \in Seq(Started)
      /\ \A j \in DOMAIN ran' : \/ ran'[j].track = tool
                                \/ j \in DOMAIN ran /\ ran'[j] = ran[j]
  <2>1. CASE ran' = ran
    BY <1>1, <2>1
  <2>2. CASE ran' = Append(ran, s)
    <3>1. /\ Append(ran, s) \in Seq(Started)
          /\ DOMAIN Append(ran, s) = 1..Len(ran) + 1 /\ DOMAIN ran = 1..Len(ran) /\ Len(ran) \in Nat
          /\ Append(ran, s)[Len(ran) + 1] = s
          /\ \A j \in 1..Len(ran) : Append(ran, s)[j] = ran[j]
      BY <1>1, <1>5
    <3> QED BY <1>5, <2>2, <3>1
  <2> QED BY <1>6, <2>1, <2>2
<1>8. TypeOK' /\ ToldOfProbe'
  BY <1>4, <1>6, <1>7 DEF TypeOK, ToldOfProbe
<1>9. NothingRan' /\ CodeKnown'
  BY <1>1, <1>4, <1>6 DEF NothingRan, CodeKnown
<1>10. SandboxDecides'
  BY <1>6, <1>7 DEF SandboxDecides
<1> QED BY <1>8, <1>9, <1>10

\* While the child runs the call does not move: only the child does.
LEMMA RunningInv ==
  ASSUME ShellInv, Spawn \/ Exits \/ Kill \/ Tick \/ HolderEnds
  PROVE  ShellInv'
<1> USE DEF ShellInv
<1>0. SUFFICES /\ child' \in Child /\ (child'.state = "none" => child.state = "none") /\ CodeKnown'
               /\ UNCHANGED <<binary, ash, told, tool, line, forced, ended, ran>>
  BY DEF TypeOK, ToldOfProbe, NothingRan, SandboxDecides
<1>c. child \in Child
  BY DEF TypeOK
<1>1. CASE Spawn
  <2>1. child' = [NoChild EXCEPT !.state = "running"] /\ tool # "idle"
        /\ UNCHANGED <<binary, ash, told, tool, line, forced, ended, ran>> /\ child.state = "none"
    BY <1>1 DEF Spawn, callVars
  <2>2. child' \in Child /\ child'.state = "running" /\ child'.next = 1
    BY <2>1 DEF NoChild, Child, ChildStates, Codes
  <2> QED BY <2>1, <2>2 DEF CodeKnown
<1>2. CASE Exits
  <2>1. /\ child' = [child EXCEPT !.state = "exited"] /\ child.state = "running"
        /\ child.next > Len(line)
        /\ UNCHANGED <<binary, ash, told, tool, line, forced, ended, ran>>
    BY <1>2 DEF Exits, callVars
  <2>2. /\ child' \in Child /\ child'.state = "exited" /\ child'.code = child.code
        /\ child.next \in Nat
    BY <1>c, <2>1 DEF Child, ChildStates
  <2>3. line # <<>> /\ line \in Seq(Kinds)
    BY <2>1 DEF CodeKnown, TypeOK
  <2>4. Len(line) \in Nat /\ Len(line) # 0
    BY <2>3
  <2>5. child.next # 1
    BY <2>1, <2>2, <2>4
  <2> QED BY <2>1, <2>2, <2>3, <2>5 DEF CodeKnown
<1>3. CASE Kill
  <2>1. /\ child' = [child EXCEPT !.state = "killed", !.code = "none"]
        /\ child.state \in {"running", "hung"}
        /\ UNCHANGED <<binary, ash, told, tool, line, forced, ended, ran>>
    BY <1>3 DEF Kill, callVars
  <2>2. child' \in Child /\ child'.state = "killed"
    BY <1>c, <2>1 DEF Child, ChildStates, Codes
  <2> QED BY <2>1, <2>2 DEF CodeKnown
<1>4. CASE Tick
  BY <1>4, <1>c DEF Tick, callVars, CodeKnown
<1>5. CASE HolderEnds
  BY <1>5, <1>c DEF HolderEnds, callVars, CodeKnown
<1> QED BY <1>1, <1>2, <1>3, <1>4, <1>5

\* A call that ends, or falls back, preserves the invariant.
LEMMA DoneInv ==
  ASSUME ShellInv, AshDone \/ SystemDone \/ ScriptDone \/ SpawnError
  PROVE  ShellInv'
<1> USE DEF ShellInv
<1>c. /\ child \in Child /\ tool \in Tools /\ tool # "idle" /\ line # <<>>
      /\ child' = NoChild /\ tool' \in {"idle", "system"}
      /\ UNCHANGED <<binary, ash, told, line, forced, ran>>
  BY DEF TypeOK, CodeKnown, AshDone, SystemDone, ScriptDone, SpawnError, Finish, Retry
<1>t. ended' \in Seq(Ended) => TypeOK' /\ ToldOfProbe' /\ NothingRan' /\ CodeKnown'
  BY <1>c, NoChildType DEF TypeOK, ToldOfProbe, NothingRan, CodeKnown, Tools
<1>1. CASE AshDone
  <2>1. ended = <<>> /\ child.state \in {"exited", "killed"}
    BY <1>1 DEF AshDone, SandboxDecides, Joined
  <2>2. /\ ended' \in Seq(Ended) /\ ended' # <<>>
        /\ \A i \in DOMAIN ended' : /\ ended'[i].spawned = (child.state # "none")
                                    /\ ended'[i].killed = (child.state = "killed")
                                    /\ ended'[i].code = child.code
                                    /\ ended'[i].marks = child.marks
    BY <1>1, <1>c, <2>1, RecordsOne DEF AshDone
  <2>3. tool' = "idle" \/ Classify = "PreExecFailure"
    BY <1>1 DEF AshDone, Finish
  <2>4. CASE tool' = "idle"
    BY <1>t, <2>2, <2>4 DEF SandboxDecides
  <2>5. CASE tool' # "idle"
    <3>1. /\ child.state = "exited" /\ child.code = "other"
          /\ "pre_exec" \in child.marks /\ "denied" \notin child.marks
      BY <1>c, <2>1, <2>3, <2>5, PreExecIsClean
    <3>2. \A i \in DOMAIN ended' : StartFailed(ended'[i]) /\ ~Vanished(ended'[i])
      BY <2>2, <3>1 DEF StartFailed, Vanished
    <3>3. SandboxDecides'
      BY <1>c, <2>2, <3>2 DEF SandboxDecides
    <3> QED BY <1>t, <2>2, <3>3
  <2> QED BY <2>4, <2>5
<1>2. CASE SystemDone
  <2>1. ended' = ended /\ tool' = "idle"
    BY <1>2 DEF SystemDone, Finish
  <2> QED BY <1>t, <2>1 DEF TypeOK, SandboxDecides
<1>3. CASE ScriptDone
  <2>1. ended = <<>> /\ tool' = "idle"
    BY <1>3 DEF ScriptDone, SandboxDecides, Finish
  <2>2. ended' \in Seq(Ended)
    BY <1>3, <1>c, <2>1, RecordsOne DEF ScriptDone
  <2> QED BY <1>t, <2>1, <2>2 DEF SandboxDecides
<1>4. CASE SpawnError
  <2>1. ended = <<>> /\ child.state = "none" /\ tool \in {"ash", "script"}
    BY <1>4 DEF SpawnError, SandboxDecides
  <2>2. /\ ended' \in Seq(Ended) /\ ended' # <<>>
        /\ \A i \in DOMAIN ended' : /\ ended'[i].spawned = (child.state # "none")
                                    /\ ended'[i].killed = (child.state = "killed")
                                    /\ ended'[i].code = child.code
                                    /\ ended'[i].marks = child.marks
    BY <1>4, <1>c, <2>1, RecordsOne DEF SpawnError
  <2>3. \A i \in DOMAIN ended' : Vanished(ended'[i])
    BY <2>1, <2>2 DEF Vanished
  <2>4. ran' = <<>>
    BY <1>c, <2>1 DEF NothingRan
  <2>5. \A j \in DOMAIN ran' : FALSE
    BY <2>4, NoneEnded
  <2>6. SandboxDecides'
    BY <1>c, <2>2, <2>3, <2>5 DEF SandboxDecides
  <2> QED BY <1>t, <2>2, <2>6
<1> QED BY <1>1, <1>2, <1>3, <1>4

\* The conjunction is an invariant of the shell tools.
THEOREM ShellInvariant == Spec => []ShellInv
<1>1. Init => ShellInv
  BY InitInv
<1>2. ShellInv /\ [Next]_vars => ShellInv'
  <2> SUFFICES ASSUME ShellInv, [Next]_vars PROVE ShellInv'
    OBVIOUS
  <2>1. ASSUME NEW b \in {"ash", "other", "missing"}, DiscoverFrom(b) PROVE ShellInv'
    BY <2>1 DEF DiscoverFrom, ShellInv, TypeOK, ToldOfProbe, NothingRan, CodeKnown,
                SandboxDecides, callVars
  <2>2. CASE BuildTools \/ Call
    BY <2>2, ShellAssumption, CallInv
  <2>3. CASE Progress \/ Tick \/ HolderEnds
    BY <2>3, PartInv, RunningInv, DoneInv DEF Progress
  <2>4. CASE UNCHANGED vars
    BY <2>4 DEF vars, callVars, ShellInv, TypeOK, ToldOfProbe, NothingRan, CodeKnown,
                SandboxDecides
  <2> QED BY <2>1, <2>2, <2>3, <2>4 DEF Next
<1> QED BY <1>1, <1>2, PTL DEF Spec

\* The sandbox comes first and its verdict is final, in every behaviour.
THEOREM SandboxSafe == Spec => []SandboxDecides
<1>1. ShellInv => SandboxDecides
  BY DEF ShellInv
<1> QED BY <1>1, ShellInvariant, PTL
=============================================================================
