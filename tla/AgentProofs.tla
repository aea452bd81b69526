---------------------------- MODULE AgentProofs ----------------------------
(***************************************************************************)
(* Agents: the file that says which there are, what a command makes of it, *)
(* and the loop of one.                                                    *)
(*                                                                         *)
(* Config: the configuration file is absent or loads, for any number of    *)
(* commands and crashes, as long as no two of them run an editor: two      *)
(* editors share the path of the draft, and one may then write what the    *)
(* other one has checked.  What Validate asks does not matter to the       *)
(* argument, only that whatever is moved into place was found valid and    *)
(* cannot change after.                                                    *)
(*                                                                         *)
(* AgentLoop: what an agent asks its provider with, and what an            *)
(* Orchestrator has in its account, for any number of steps, of tool calls *)
(* and of runs and whatever KeepLast is.  The history is well formed up to *)
(* its last message at every step, and where the run stands says what that *)
(* message may be; Trim keeps it so, because it cuts in front of a user's  *)
(* message and nowhere else.                                               *)
(***************************************************************************)
EXTENDS Config, AgentLoop, WellFoundedInduction, SequenceTheorems, TLAPS

-----------------------------------------------------------------------------
(* Config: the file.                                                       *)

Saving == {"writing", "renaming", "drafting", "renamingDraft"}
Editing == {"drafting", "renamingDraft", "editor", "checking", "moving"}

\* What is about to be written is valid, and so is a draft once checked, which
\* only the one command that edits can change.
IInv ==
    /\ stage = [p \in Commands |-> stage[p]]
    /\ want = [p \in Commands |-> want[p]]
    /\ \A p \in Commands : stage[p] \in Saving => Validate(want[p])
    /\ \A p \in Commands : stage[p] \in Editing => p \in Editors
    /\ \A p \in Commands : stage[p] = "moving" => draft = {} \/ Loads(draft)
    /\ FileLoads

OneEditor == \A p, q \in Editors : p = q

LEMMA InitIInv == ConfigInit => IInv
BY DEF ConfigInit, IInv, Saving, Editing, FileLoads

\* Save goes on with what is valid or refuses, and leaves both paths alone.
LEMMA SaveIInv ==
    ASSUME IInv, NEW p \in Commands, NEW c, NEW then \in {"writing", "drafting"},
           Save(p, c, then), then = "drafting" => p \in Editors,
           UNCHANGED <<file, draft>>
    PROVE  IInv'
BY DEF IInv, Save, Refused, Saving, Editing, FileLoads, Loads

LEMMA RefusedIInv ==
    ASSUME IInv, NEW p \in Commands, Refused(p), UNCHANGED <<file, draft>>
    PROVE  IInv'
BY DEF IInv, Refused, Saving, Editing, FileLoads, Loads

LEMMA ChangeIInv ==
    ASSUME IInv, NEW p \in Commands, NEW found, NEW c, Change(p, found, c)
    PROVE  IInv'
<1>1. UNCHANGED <<file, draft>>
  BY DEF Change
<1>2. Save(p, c, "writing") \/ Refused(p)
  BY DEF Change
<1>. QED
  BY <1>1, <1>2, SaveIInv, RefusedIInv

\* A command that neither saves nor edits moves on; it may have loaded a team.
LEMMA StartIInv ==
    ASSUME IInv, NEW p \in Commands, NEW s, s \notin Saving \cup Editing,
           stage' = [stage EXCEPT ![p] = s], UNCHANGED <<file, draft>>,
           want' = want \/ \E c : want' = [want EXCEPT ![p] = c] /\ stage[p] \notin Saving
    PROVE  IInv'
BY DEF IInv, Saving, Editing, FileLoads, Loads

LEMMA CommandIInv ==
    ASSUME IInv, NEW p \in Commands,
           InitConfig(p) \/ AddProvider(p) \/ RmProvider(p) \/ AddAgent(p) \/ RmAgent(p) \/ SetDefault(p)
    PROVE  IInv'
<1>1. CASE InitConfig(p)
  BY <1>1, SaveIInv, RefusedIInv DEF InitConfig
<1>2. CASE AddProvider(p)
  BY <1>2, ChangeIInv DEF AddProvider
<1>3. CASE RmProvider(p)
  BY <1>3, ChangeIInv DEF RmProvider
<1>4. CASE AddAgent(p)
  BY <1>4, ChangeIInv DEF AddAgent
<1>5. CASE RmAgent(p)
  BY <1>5, ChangeIInv DEF RmAgent
<1>6. CASE SetDefault(p)
  BY <1>6, ChangeIInv DEF SetDefault
<1>. QED
  BY <1>1, <1>2, <1>3, <1>4, <1>5, <1>6

\* Here the editor must be alone: the draft another command may check or move
\* is the one that this command writes.
LEMMA EditIInv ==
    ASSUME OneEditor, IInv, NEW p \in Commands,
           Edit(p) \/ EditorWrites(p) \/ EditorExits(p) \/ CheckDraft(p) \/ MoveDraft(p)
               \/ WriteTemp(p) \/ Rename(p) \/ Dies(p)
    PROVE  IInv'
<1>. USE DEF IInv
<1>1. CASE Edit(p)
  BY <1>1, SaveIInv, RefusedIInv DEF Edit
<1>2. CASE EditorWrites(p)
  BY <1>2 DEF EditorWrites, OneEditor, Saving, Editing, FileLoads, Loads
<1>3. CASE EditorExits(p)
  BY <1>3 DEF EditorExits, OneEditor, Saving, Editing, FileLoads, Loads
<1>4. CASE CheckDraft(p)
  BY <1>4 DEF CheckDraft, OneEditor, Saving, Editing, FileLoads, Loads
<1>5. CASE MoveDraft(p)
  BY <1>5 DEF MoveDraft, OneEditor, Saving, Editing, FileLoads, Loads
<1>6. CASE WriteTemp(p)
  BY <1>6 DEF WriteTemp, OneEditor, Saving, Editing, FileLoads, Loads
<1>7. CASE Rename(p)
  BY <1>7 DEF Rename, OneEditor, Saving, Editing, FileLoads, Loads
<1>8. CASE Dies(p)
  BY <1>8 DEF Dies, OneEditor, Saving, Editing, FileLoads, Loads
<1>. QED
  BY <1>1, <1>2, <1>3, <1>4, <1>5, <1>6, <1>7, <1>8

LEMMA TeamIInv ==
    ASSUME IInv, NEW p \in Commands,
           StartAgent(p) \/ StartTeam(p) \/ ServeTeam(p) \/ Dial(p) \/ ListTools(p)
               \/ Equip(p) \/ RunReturns(p)
    PROVE  IInv'
<1>1. UNCHANGED <<file, draft>>
  BY DEF StartAgent, StartTeam, ServeTeam, Dial, ListTools, Equip, RunReturns
<1>2. /\ stage[p] \notin Saving
      /\ want' = want \/ \E c : want' = [want EXCEPT ![p] = c]
  BY DEF StartAgent, StartTeam, ServeTeam, Dial, ListTools, Equip, RunReturns, Saving
<1>3. \E s \in {"refused", "running", "dialing", "equipping", "listing", "done"} :
         stage' = [stage EXCEPT ![p] = s]
  <2>. USE DEF Ends, Started
  <2>1. CASE StartAgent(p)
    BY <2>1 DEF StartAgent
  <2>2. CASE StartTeam(p)
    BY <2>2 DEF StartTeam
  <2>3. CASE ServeTeam(p)
    BY <2>3 DEF ServeTeam
  <2>4. CASE Dial(p) \/ ListTools(p)
    BY <2>4 DEF Dial, ListTools
  <2>5. CASE Equip(p) \/ RunReturns(p)
    BY <2>5 DEF Equip, RunReturns
  <2>. QED
    BY <2>1, <2>2, <2>3, <2>4, <2>5
<1>. QED
  BY <1>1, <1>2, <1>3, StartIInv DEF Saving, Editing

LEMMA NextIInv == OneEditor /\ IInv /\ [ConfigNext]_configVars => IInv'
<1>. SUFFICES ASSUME OneEditor, IInv, [ConfigNext]_configVars
              PROVE  IInv'
  OBVIOUS
<1>1. CASE ConfigNext
  BY <1>1, CommandIInv, EditIInv, TeamIInv DEF ConfigNext
<1>2. CASE UNCHANGED configVars
  BY <1>2 DEF configVars, IInv, Saving, Editing, FileLoads, Loads
<1>. QED
  BY <1>1, <1>2

\* With one editor at the most, commands that run side by side and die anywhere
\* leave a file that is absent or loads (Config.Save, configEdit).
THEOREM ConfigFileLoads == ASSUME OneEditor PROVE ConfigSpec => []FileLoads
<1>1. OneEditor
  OBVIOUS
<1>2. IInv => FileLoads
  BY DEF IInv
<1>. QED
  BY <1>1, <1>2, InitIInv, NextIInv, PTL DEF ConfigSpec

\* Nothing removes the file.
LEMMA FileIsKept == [ConfigNext]_configVars => file' = file \/ file' # {}
<1>. SUFFICES ASSUME [ConfigNext]_configVars PROVE file' = file \/ file' # {}
  OBVIOUS
<1>1. CASE UNCHANGED configVars
  BY <1>1 DEF configVars
<1>2. CASE ConfigNext
  <2>. PICK p \in Commands :
        \/ InitConfig(p) \/ AddProvider(p) \/ RmProvider(p) \/ AddAgent(p) \/ RmAgent(p) \/ SetDefault(p)
        \/ Edit(p) \/ EditorWrites(p) \/ EditorExits(p) \/ CheckDraft(p) \/ MoveDraft(p)
        \/ WriteTemp(p) \/ Rename(p) \/ Dies(p)
        \/ StartAgent(p) \/ StartTeam(p) \/ ServeTeam(p)
        \/ Dial(p) \/ ListTools(p) \/ Equip(p) \/ RunReturns(p)
    BY <1>2 DEF ConfigNext
  <2>1. CASE InitConfig(p) \/ AddProvider(p) \/ RmProvider(p) \/ AddAgent(p) \/ RmAgent(p) \/ SetDefault(p)
    BY <2>1 DEF InitConfig, AddProvider, RmProvider, AddAgent, RmAgent, SetDefault, Change
  <2>2. CASE Edit(p) \/ EditorWrites(p) \/ EditorExits(p) \/ CheckDraft(p)
    BY <2>2 DEF Edit, EditorWrites, EditorExits, CheckDraft
  <2>3. CASE MoveDraft(p)
    BY <2>3 DEF MoveDraft
  <2>4. CASE WriteTemp(p) \/ Rename(p) \/ Dies(p)
    BY <2>4 DEF WriteTemp, Rename, Dies
  <2>5. CASE StartAgent(p) \/ StartTeam(p) \/ ServeTeam(p)
    BY <2>5 DEF StartAgent, StartTeam, ServeTeam
  <2>6. CASE Dial(p) \/ ListTools(p) \/ Equip(p) \/ RunReturns(p)
    BY <2>6 DEF Dial, ListTools, Equip, RunReturns
  <2>. QED
    BY <2>1, <2>2, <2>3, <2>4, <2>5, <2>6
<1>. QED
  BY <1>1, <1>2

\* And then no command ever writes a broken file (README.md:168).
THEOREM ConfigBrokenIsNotSaved == ASSUME OneEditor PROVE ConfigSpec => BrokenIsNotSaved
<1>1. OneEditor
  OBVIOUS
<1>2. IInv /\ IInv' /\ [ConfigNext]_configVars => [file' # file => Loads(file')]_configVars
  BY FileIsKept DEF IInv, FileLoads, Loads
<1>. QED
  BY <1>1, <1>2, InitIInv, NextIInv, PTL DEF ConfigSpec, BrokenIsNotSaved

-----------------------------------------------------------------------------
(* The teams.  Every start checks the file it loads, so here any number of *)
(* editors may run: what one of them breaks is refused, and not started.   *)

\* A configuration as the file's text, a draft or a command's change gives it.
Listed(c) ==
    /\ c = [providers |-> c.providers, agents |-> c.agents, default |-> c.default,
            remotes |-> c.remotes, servers |-> c.servers]
    /\ \E S : c.agents \in Seq(S)

\* What the file and the draft are read into, and what a command saves.
Typed ==
    /\ \A c \in file \cup draft : Listed(c)
    /\ want = [p \in Commands |-> want[p]]
    /\ \A p \in Commands : Listed(want[p])

LEMMA EmptyIsListed == Listed(Empty)
<1>1. <<>> \in Seq({})
  OBVIOUS
<1>2. Empty.agents = <<>>
  BY DEF Empty
<1>3. Empty = [providers |-> Empty.providers, agents |-> Empty.agents, default |-> Empty.default,
               remotes |-> Empty.remotes, servers |-> Empty.servers]
  BY DEF Empty
<1>. QED
  BY <1>1, <1>2, <1>3 DEF Listed

LEMMA DraftIsListed == ASSUME NEW c \in Drafts PROVE Listed(c)
<1>1. c \in Configuration
  BY ConfigAssumption DEF ConfigAssumption
<1>2. c.agents \in Seq([name : STRING, provider : STRING, role : STRING, tools : SUBSET STRING])
  BY <1>1 DEF Configuration
<1>3. c = [providers |-> c.providers, agents |-> c.agents, default |-> c.default,
           remotes |-> c.remotes, servers |-> c.servers]
  BY <1>1 DEF Configuration
<1>. QED
  BY <1>2, <1>3 DEF Listed

LEMMA LoadIsListed == ASSUME Typed PROVE Listed(LoadOrEmpty)
BY EmptyIsListed DEF Typed, LoadOrEmpty

\* A change of a field or two leaves a configuration.
LEMMA FieldsOf ==
    ASSUME NEW c, Listed(c)
    PROVE  /\ \A ps : Listed([c EXCEPT !.providers = ps])
           /\ \A S, d : \A as \in Seq(S) : Listed([c EXCEPT !.agents = as, !.default = d])
           /\ \A d : Listed([c EXCEPT !.default = d])
<1>1. ASSUME NEW k, Listed(k), NEW e,
             \/ \E ps : e = [k EXCEPT !.providers = ps]
             \/ \E d : e = [k EXCEPT !.default = d]
             \/ \E S : \E as \in Seq(S) : e = [k EXCEPT !.agents = as]
      PROVE  Listed(e)
  <2>1. e = [providers |-> e.providers, agents |-> e.agents, default |-> e.default,
             remotes |-> e.remotes, servers |-> e.servers]
    BY <1>1 DEF Listed
  <2>2. \E S : e.agents \in Seq(S)
    BY <1>1 DEF Listed
  <2>. QED
    BY <2>1, <2>2 DEF Listed
<1>2. ASSUME NEW S, NEW d, NEW as \in Seq(S) PROVE Listed([c EXCEPT !.agents = as, !.default = d])
  <2>1. [c EXCEPT !.agents = as, !.default = d] = [[c EXCEPT !.agents = as] EXCEPT !.default = d]
    OBVIOUS
  <2>2. Listed([c EXCEPT !.agents = as])
    BY <1>1
  <2>3. Listed([[c EXCEPT !.agents = as] EXCEPT !.default = d])
    BY <1>1, <2>2
  <2>. QED
    BY <2>1, <2>3
<1>. QED
  BY <1>1, <1>2

LEMMA WithoutIsSeq ==
    ASSUME NEW S, NEW agents \in Seq(S), NEW n, n \in {a.name : a \in Range(agents)}
    PROVE  Without(agents, n) \in Seq(S)
<1> DEFINE at == CHOOSE i \in DOMAIN agents : agents[i].name = n
<1>1. DOMAIN agents = 1 .. Len(agents) /\ Len(agents) \in Nat /\ \A i \in DOMAIN agents : agents[i] \in S
  BY LenProperties
<1>2. \E i \in DOMAIN agents : agents[i].name = n
  BY DEF Range
<1>3. at \in 1 .. Len(agents)
  BY <1>1, <1>2
<1>. HIDE DEF at
<1>4. SubSeq(agents, 1, at - 1) \in Seq(S)
  <2>1. 1 \in Int /\ at - 1 \in Int /\ \A i \in 1 .. at - 1 : agents[i] \in S
    BY <1>1, <1>3
  <2>. QED
    BY ONLY <2>1, SubSeqProperties
<1>5. SubSeq(agents, at + 1, Len(agents)) \in Seq(S)
  <2>1. at + 1 \in Int /\ Len(agents) \in Int /\ \A i \in at + 1 .. Len(agents) : agents[i] \in S
    BY <1>1, <1>3
  <2>. QED
    BY ONLY <2>1, SubSeqProperties
<1>. QED
  BY <1>4, <1>5, ConcatProperties DEF Without, at

LEMMA InitTyped == ConfigInit => Typed
BY EmptyIsListed DEF ConfigInit, Typed

LEMMA SaveTyped ==
    ASSUME Typed, NEW p \in Commands, NEW c, Listed(c), NEW then,
           Save(p, c, then) \/ Refused(p), UNCHANGED <<file, draft>>
    PROVE  Typed'
BY DEF Typed, Save, Refused

LEMMA ChangeTyped ==
    ASSUME Typed, NEW p \in Commands, NEW found, NEW c,
           found => Listed(c), Change(p, found, c)
    PROVE  Typed'
<1>1. UNCHANGED <<file, draft>>
  BY DEF Change
<1>2. (found /\ Save(p, c, "writing")) \/ Refused(p)
  BY DEF Change
<1>. QED
  BY <1>1, <1>2, EmptyIsListed, SaveTyped

LEMMA CommandTyped ==
    ASSUME Typed, NEW p \in Commands,
           InitConfig(p) \/ AddProvider(p) \/ RmProvider(p) \/ AddAgent(p) \/ RmAgent(p) \/ SetDefault(p)
    PROVE  Typed'
<1> DEFINE c == LoadOrEmpty
<1>1. Listed(c)
  BY LoadIsListed
<1>. HIDE DEF c
<1>2. CASE InitConfig(p)
  BY <1>2, EmptyIsListed, SaveTyped DEF InitConfig
<1>3. CASE AddProvider(p)
  <2>1. PICK n \in Providers, t \in Types :
            Change(p, TRUE, [c EXCEPT !.providers =
               {q \in c.providers : q.name # n} \cup {[name |-> n, type |-> t]}])
    BY <1>3 DEF AddProvider, c
  <2>. QED
    BY <1>1, <2>1, FieldsOf, ChangeTyped
<1>4. CASE RmProvider(p)
  <2>1. PICK n \in Providers :
            Change(p, \E q \in c.providers : q.name = n, [c EXCEPT !.providers = {q \in c.providers : q.name # n}])
    BY <1>4 DEF RmProvider, c
  <2>. QED
    BY <1>1, <2>1, FieldsOf, ChangeTyped
<1>5. CASE AddAgent(p)
  <2> DEFINE a(n, v, r) == [name |-> n, provider |-> v, role |-> r, tools |-> {}]
             list(n, v, r) == IF n \in AgentNames(c)
                              THEN [i \in DOMAIN c.agents |-> IF c.agents[i].name = n THEN a(n, v, r) ELSE c.agents[i]]
                              ELSE Append(c.agents, a(n, v, r))
  <2>1. PICK n \in Members, v \in Providers, r \in Roles, byDefault \in BOOLEAN :
            Change(p, TRUE, [c EXCEPT !.agents = list(n, v, r), !.default = IF byDefault THEN n ELSE c.default])
    BY <1>5 DEF AddAgent, c
  <2>2. PICK S : c.agents \in Seq(S)
    BY <1>1 DEF Listed
  <2>3. list(n, v, r) \in Seq(S \cup {a(n, v, r)})
    <3>. HIDE DEF a
    <3>1. DOMAIN c.agents = 1 .. Len(c.agents) /\ Len(c.agents) \in Nat
          /\ \A i \in 1 .. Len(c.agents) : c.agents[i] \in S
      BY <2>2
    <3>2. [i \in 1 .. Len(c.agents) |-> IF c.agents[i].name = n THEN a(n, v, r) ELSE c.agents[i]]
              \in Seq(S \cup {a(n, v, r)})
      BY <3>1
    <3>3. c.agents \in Seq(S \cup {a(n, v, r)})
      BY <2>2
    <3>4. Append(c.agents, a(n, v, r)) \in Seq(S \cup {a(n, v, r)})
      BY <3>3
    <3>. QED
      BY <3>1, <3>2, <3>4
  <2>. HIDE DEF list
  <2>4. Listed([c EXCEPT !.agents = list(n, v, r), !.default = IF byDefault THEN n ELSE c.default])
    BY <1>1, <2>3, FieldsOf
  <2>. QED
    BY <2>1, <2>4, ChangeTyped
<1>6. CASE RmAgent(p)
  <2>1. PICK n \in Members :
            Change(p, n \in AgentNames(c), [c EXCEPT !.agents = Without(c.agents, n),
                                                     !.default = IF c.default = n THEN "" ELSE c.default])
    BY <1>6 DEF RmAgent, c
  <2>2. PICK S : c.agents \in Seq(S)
    BY <1>1 DEF Listed
  <2>3. n \in AgentNames(c) => Without(c.agents, n) \in Seq(S)
    BY <2>2, WithoutIsSeq DEF AgentNames
  <2>4. n \in AgentNames(c) =>
            Listed([c EXCEPT !.agents = Without(c.agents, n), !.default = IF c.default = n THEN "" ELSE c.default])
    BY <1>1, <2>3, FieldsOf
  <2>. QED
    BY <2>1, <2>4, ChangeTyped
<1>7. CASE SetDefault(p)
  BY <1>1, <1>7, FieldsOf, ChangeTyped DEF SetDefault, c
<1>. QED
  BY <1>2, <1>3, <1>4, <1>5, <1>6, <1>7

LEMMA NextTyped == ASSUME Typed, [ConfigNext]_configVars PROVE Typed'
<1>1. CASE UNCHANGED configVars
  BY <1>1 DEF configVars, Typed
<1>2. CASE ConfigNext
  <2>. PICK p \in Commands :
        \/ InitConfig(p) \/ AddProvider(p) \/ RmProvider(p) \/ AddAgent(p) \/ RmAgent(p) \/ SetDefault(p)
        \/ Edit(p) \/ EditorWrites(p) \/ EditorExits(p) \/ CheckDraft(p) \/ MoveDraft(p)
        \/ WriteTemp(p) \/ Rename(p) \/ Dies(p)
        \/ StartAgent(p) \/ StartTeam(p) \/ ServeTeam(p)
        \/ Dial(p) \/ ListTools(p) \/ Equip(p) \/ RunReturns(p)
    BY <1>2 DEF ConfigNext
  <2>1. CASE Edit(p)
    BY <2>1, LoadIsListed, SaveTyped DEF Edit
  <2>2. CASE EditorWrites(p)
    BY <2>2, DraftIsListed DEF EditorWrites, Typed
  <2>3. CASE EditorExits(p) \/ CheckDraft(p) \/ WriteTemp(p) \/ Dies(p)
    BY <2>3 DEF EditorExits, CheckDraft, WriteTemp, Dies, Typed
  <2>4. CASE MoveDraft(p)
    BY <2>4 DEF MoveDraft, Typed
  <2>5. CASE Rename(p)
    BY <2>5 DEF Rename, Typed
  <2>6. CASE StartTeam(p)
    BY <2>6, LoadIsListed DEF StartTeam, Typed
  <2>7. CASE StartAgent(p) \/ ServeTeam(p) \/ Dial(p) \/ ListTools(p) \/ Equip(p) \/ RunReturns(p)
    BY <2>7 DEF StartAgent, ServeTeam, Dial, ListTools, Equip, RunReturns, Typed
  <2>. QED
    BY <2>1, <2>2, <2>3, <2>4, <2>5, <2>6, <2>7, CommandTyped
<1>. QED
  BY <1>1, <1>2

\* A nonempty set of positions has a first one and, when bounded, a last one.
LEMMA FirstPosition ==
    ASSUME NEW T \in SUBSET Nat, T # {}
    PROVE  \E i \in T : \A j \in T : i <= j
<1> DEFINE R == OpToRel(<, Nat)
<1>1. \E x \in T : \A y \in T : ~(<<y, x>> \in R)
  BY NatLessThanWellFounded, WFMin
<1>2. PICK x \in T : \A y \in T : ~(<<y, x>> \in R)
  BY <1>1
<1>3. \A y \in T : ~(y < x) /\ y \in Nat /\ x \in Nat
  BY <1>2 DEF OpToRel
<1>4. \A y \in T : x <= y
  BY <1>3
<1>. QED
  BY <1>4

\* A bounded, nonempty set of positions has a last one.
LEMMA LastPosition ==
    ASSUME NEW n \in Nat, NEW T \in SUBSET (1 .. n), T # {}
    PROVE  \E i \in T : \A j \in T : j <= i
<1> DEFINE below == {n - i : i \in T}
<1>1. below \subseteq Nat /\ below # {}
  <2>1. \A i \in T : n - i \in Nat
    OBVIOUS
  <2>. QED
    BY <2>1
<1>2. \E x \in below : \A y \in below : x <= y
  <2>. HIDE DEF below
  <2>. QED
    BY <1>1, FirstPosition
<1>3. PICK i \in T : \A j \in T : n - i <= n - j
  BY <1>2
<1>4. \A j \in T : j <= i
  <2>. TAKE j \in T
  <2>1. i \in Nat /\ j \in Nat /\ n - i <= n - j
    BY <1>3
  <2>. QED
    BY ONLY <2>1, n \in Nat
<1>. QED
  BY <1>4

\* The entry of a team is one of its agents.
LEMMA MainIsAnAgent ==
    ASSUME NEW c, Listed(c), c.agents # <<>>
    PROVE  Main(c) \in AgentNames(c)
<1> DEFINE mains == {i \in DOMAIN c.agents : c.agents[i].role = "main"}
           last  == IF mains = {} THEN 1 ELSE CHOOSE i \in mains : \A j \in mains : j <= i
<1>1. Len(c.agents) \in Nat \ {0} /\ DOMAIN c.agents = 1 .. Len(c.agents)
  <2>1. PICK S : c.agents \in Seq(S)
    BY DEF Listed
  <2>. QED
    BY <2>1
<1>2. mains # {} => \E i \in mains : \A j \in mains : j <= i
  <2>1. mains \in SUBSET (1 .. Len(c.agents)) /\ Len(c.agents) \in Nat
    BY <1>1
  <2>. HIDE DEF mains
  <2>. QED
    BY <2>1, LastPosition
<1>3. last \in DOMAIN c.agents
  <2>1. mains \subseteq DOMAIN c.agents /\ 1 \in DOMAIN c.agents
    BY <1>1
  <2>. HIDE DEF mains
  <2>. QED
    BY <1>2, <2>1
<1>4. Main(c) = c.agents[last].name
  BY DEF Main
<1>. HIDE DEF last
<1>. QED
  BY <1>3, <1>4 DEF AgentNames, Range

\* What Validate accepts leaves nothing for the build to miss but a tool.
Buildable == {"", "no tool"}

LEMMA ValidIsBuilt ==
    ASSUME NEW c, Validate(c), NEW n \in AgentNames(c)
    PROVE  BuildFails(c, n) \in Buildable
<1> DEFINE a == CHOOSE x \in Range(c.agents) : x.name = n
<1>1. a \in Range(c.agents)
  BY DEF AgentNames
<1>2. \E p \in c.providers : p.name = a.provider
  BY <1>1 DEF Validate
<1>3. ~ \E p \in c.providers : p.type = "broken"
  BY DEF Validate
<1>. HIDE DEF a
<1>4. BuildFails(c, n) = IF n \notin AgentNames(c) THEN "no agent"
        ELSE IF a.provider \notin {p.name : p \in c.providers} THEN "no provider"
        ELSE IF \E p \in c.providers : p.name = a.provider /\ p.type = "broken" THEN "no type"
        ELSE IF a.tools # {} THEN "no tool"
        ELSE ""
  BY DEF BuildFails, a
<1>. QED
  BY <1>2, <1>3, <1>4 DEF Buildable

LEMMA ValidTeamIsBuilt ==
    ASSUME NEW c, Listed(c), Validate(c)
    PROVE  FirstFailure(c) \in Buildable
<1> DEFINE fails(i) == BuildFails(c, c.agents[i].name)
           failing  == {i \in DOMAIN c.agents : fails(i) # ""}
           first    == CHOOSE i \in failing : \A j \in failing : i <= j
<1>1. \A i \in DOMAIN c.agents : fails(i) \in Buildable
  <2>. TAKE i \in DOMAIN c.agents
  <2>1. c.agents[i].name \in AgentNames(c)
    BY DEF AgentNames, Range
  <2>. QED
    BY <2>1, ValidIsBuilt
<1>2. failing \in SUBSET Nat /\ failing \subseteq DOMAIN c.agents
  <2>1. PICK S : c.agents \in Seq(S)
    BY DEF Listed
  <2>2. DOMAIN c.agents \subseteq Nat
    BY <2>1
  <2>. QED
    BY <2>2
<1>3. failing # {} => first \in failing
  <2>. HIDE DEF failing
  <2>1. failing # {} => \E i \in failing : \A j \in failing : i <= j
    BY <1>2, FirstPosition
  <2>. QED
    BY <2>1
<1>4. FirstFailure(c) = IF failing = {} THEN "" ELSE fails(first)
  BY DEF FirstFailure
<1>. HIDE DEF failing, first, fails
<1>. QED
  BY <1>1, <1>2, <1>3, <1>4 DEF Buildable

-----------------------------------------------------------------------------
(* The tools of a team.                                                  *)

Unlike(kit) == \A s, t \in kit : s.name = t.name => s = t

\* Each sub-agent of a configuration is a tool, or an MCP tool took its name.
Covered(kit, c, entry) ==
    \A a \in Range(c.agents) : a.role = "sub" /\ a.name # entry =>
        \E t \in kit : t.name = a.name /\ t.calls # "remote"

EntryIsNoTool(kit, entry) == \A t \in kit : t.name = entry => t.calls = "mcp"

LEMMA NoneToCover == ASSUME NEW kit, NEW entry PROVE Covered(kit, Empty, entry)
<1>1. Empty.agents = <<>>
  BY DEF Empty
<1>2. Range(Empty.agents) = {}
  BY <1>1 DEF Range
<1>. QED
  BY <1>2 DEF Covered

LEMMA TeamFields ==
    \A e, ts, w, t : t = [entry |-> e, tools |-> ts, why |-> w] =>
        /\ t.entry = e /\ t.tools = ts /\ t.why = w
        /\ t = [entry |-> t.entry, tools |-> t.tools, why |-> t.why]
<1>. TAKE e, ts, w, t
<1>. HAVE t = [entry |-> e, tools |-> ts, why |-> w]
<1>1. t.entry = e /\ t.tools = ts /\ t.why = w
  BY Zenon
<1>. QED
  BY ONLY <1>1, t = [entry |-> e, tools |-> ts, why |-> w], Zenon

LEMMA HeadIsFirst ==
    ASSUME NEW S, NEW s \in Seq(S), s # <<>>
    PROVE  Head(s) = s[1] /\ 1 \in DOMAIN s
OBVIOUS

LEMMA RegisteredIsUnlike ==
    ASSUME NEW kit, Unlike(kit), NEW names, NEW kind
    PROVE  Unlike(Registered(kit, names, kind))
BY DEF Unlike, Registered

LEMMA DelegationIsSound ==
    ASSUME NEW c
    PROVE  /\ Unlike(WireDelegation(c))
           /\ Covered(WireDelegation(c), c, Main(c))
           /\ EntryIsNoTool(WireDelegation(c), Main(c))
<1>1. Unlike(WireDelegation(c))
  BY DEF Unlike, WireDelegation
<1>2. Covered(WireDelegation(c), c, Main(c))
  <2>. SUFFICES ASSUME NEW a \in Range(c.agents), a.role = "sub", a.name # Main(c)
                PROVE  \E t \in WireDelegation(c) : t.name = a.name /\ t.calls # "remote"
    BY DEF Covered
  <2>1. [name |-> a.name, calls |-> "agent"] \in WireDelegation(c)
    BY DEF WireDelegation
  <2>. QED
    BY <2>1
<1>3. EntryIsNoTool(WireDelegation(c), Main(c))
  BY DEF EntryIsNoTool, WireDelegation
<1>. QED
  BY <1>1, <1>2, <1>3

\* An MCP server's tools may take any name.
LEMMA McpToolsAreSound ==
    ASSUME NEW kit, NEW c, NEW entry, NEW names,
           Covered(kit, c, entry), EntryIsNoTool(kit, entry)
    PROVE  /\ Covered(Registered(kit, names, "mcp"), c, entry)
           /\ EntryIsNoTool(Registered(kit, names, "mcp"), entry)
<1> DEFINE all == Registered(kit, names, "mcp")
<1>1. Covered(all, c, entry)
  <2>. SUFFICES ASSUME NEW a \in Range(c.agents), a.role = "sub", a.name # entry
                PROVE  \E t \in all : t.name = a.name /\ t.calls # "remote"
    BY DEF Covered
  <2>1. CASE a.name \in names
    <3>1. [name |-> a.name, calls |-> "mcp"] \in all
      BY <2>1 DEF Registered
    <3>. QED
      BY <3>1
  <2>2. CASE a.name \notin names
    <3>1. PICK t \in kit : t.name = a.name /\ t.calls # "remote"
      BY DEF Covered
    <3>2. t \in all
      BY <2>2, <3>1 DEF Registered
    <3>. QED
      BY <3>1, <3>2
  <2>. QED
    BY <2>1, <2>2
<1>2. EntryIsNoTool(all, entry)
  BY DEF EntryIsNoTool, Registered
<1>. QED
  BY <1>1, <1>2

\* A remote agent's tool takes no local agent's name: Validate keeps the two
\* apart, and that is what it is needed for.
LEMMA RemotesAreSound ==
    ASSUME NEW kit, NEW c, NEW entry \in AgentNames(c), Validate(c),
           Covered(kit, c, entry), EntryIsNoTool(kit, entry)
    PROVE  /\ Covered(Registered(kit, c.remotes, "remote"), c, entry)
           /\ EntryIsNoTool(Registered(kit, c.remotes, "remote"), entry)
<1> DEFINE all == Registered(kit, c.remotes, "remote")
<1>1. \A n \in AgentNames(c) : n \notin c.remotes
  BY DEF Validate
<1>2. Covered(all, c, entry)
  <2>. SUFFICES ASSUME NEW a \in Range(c.agents), a.role = "sub", a.name # entry
                PROVE  \E t \in all : t.name = a.name /\ t.calls # "remote"
    BY DEF Covered
  <2>1. PICK t \in kit : t.name = a.name /\ t.calls # "remote"
    BY DEF Covered
  <2>2. t \in all
    BY <1>1, <2>1 DEF Registered, AgentNames
  <2>. QED
    BY <2>1, <2>2
<1>3. EntryIsNoTool(all, entry)
  BY <1>1 DEF EntryIsNoTool, Registered
<1>. QED
  BY <1>2, <1>3

-----------------------------------------------------------------------------
(* The invariant.                                                          *)

Building == {"dialing", "listing", "equipping"}
Dangling == {"no agent", "no provider", "no type"}

\* A team that is being built is of a valid configuration, whose entry it has;
\* a command that is at its start has loaded nothing; and an MCP server runs
\* only while its process does.
Sane(t, at, c, mcp) ==
    /\ t = [entry |-> t.entry, tools |-> t.tools, why |-> t.why]
    /\ t.why \notin Dangling
    /\ Unlike(t.tools) /\ EntryIsNoTool(t.tools, t.entry)
    /\ at = "new" => c = Empty
    /\ at \in Building => Validate(c) /\ t.entry \in AgentNames(c)
    /\ at \in Building \cup {"running"} => Covered(t.tools, c, t.entry)
    /\ mcp = "open" => at \in {"listing", "equipping", "running"}

TeamOf(p) == Sane(team[p], stage[p], want[p], server[p])

TeamInv ==
    /\ Typed
    /\ stage = [p \in Commands |-> stage[p]]
    /\ server = [p \in Starters |-> server[p]]
    /\ team = [p \in Starters |-> team[p]]
    /\ \A p \in Starters : TeamOf(p)

LEMMA TeamInvSound == TeamInv => TeamsAreSound
BY DEF TeamInv, TeamOf, Sane, TeamsAreSound, Unlike, EntryIsNoTool, Covered, Dangling

LEMMA InitTeamInv == ConfigInit => TeamInv
<1>. SUFFICES ASSUME ConfigInit PROVE TeamInv
  OBVIOUS
<1>1. ASSUME NEW p \in Starters PROVE TeamOf(p)
  <2>1. /\ stage[p] = "new" /\ want[p] = Empty /\ server[p] = "none"
        /\ team[p] = [entry |-> "", tools |-> {}, why |-> ""]
    BY ConfigAssumption DEF ConfigInit, ConfigAssumption, NoTeam
  <2>2. ASSUME NEW t, t = [entry |-> "", tools |-> {}, why |-> ""]
        PROVE  Sane(t, "new", Empty, "none")
    <3>1. "new" \notin Building \cup {"running"} /\ "" \notin Dangling
      BY DEF Building, Dangling
    <3>2. Unlike({}) /\ EntryIsNoTool({}, "")
      BY DEF Unlike, EntryIsNoTool
    <3>3. t.entry = "" /\ t.tools = {} /\ t.why = ""
          /\ t = [entry |-> t.entry, tools |-> t.tools, why |-> t.why]
      BY ONLY <2>2, TeamFields
    <3>. QED
      BY ONLY <3>1, <3>2, <3>3 DEF Sane
  <2>. QED
    BY ONLY <2>1, <2>2 DEF TeamOf
<1>. QED
  BY <1>1, InitTyped DEF ConfigInit, TeamInv

\* What one process does leaves the others' teams alone.
LEMMA OthersKeepTeams ==
    ASSUME TeamInv, Typed', NEW p \in Commands,
           stage' = [stage EXCEPT ![p] = stage'[p]], want' = [want EXCEPT ![p] = want'[p]],
           server' = [q \in Starters |-> IF q = p THEN server'[q] ELSE server[q]],
           team' = [q \in Starters |-> IF q = p THEN team'[q] ELSE team[q]],
           p \in Starters => TeamOf(p)'
    PROVE  TeamInv'
<1>1. ASSUME NEW q \in Starters, q # p PROVE TeamOf(q)'
  <2>1. /\ q \in Commands
        /\ stage'[q] = stage[q] /\ want'[q] = want[q] /\ server'[q] = server[q] /\ team'[q] = team[q]
    BY <1>1, ConfigAssumption DEF ConfigAssumption, TeamInv, Typed
  <2>2. TeamOf(q)
    BY DEF TeamInv
  <2>. QED
    BY ONLY <2>1, <2>2 DEF TeamOf, Sane
<1>2. stage' = [q \in Commands |-> stage'[q]] /\ server' = [q \in Starters |-> server'[q]]
      /\ team' = [q \in Starters |-> team'[q]]
  BY DEF TeamInv
<1>. QED
  BY <1>1, <1>2 DEF TeamInv

\* A step that neither starts a team nor is a started team's.
LEMMA PlainStep ==
    ASSUME TeamInv, Typed', NEW p \in Commands, NEW s,
           stage[p] \notin Building \cup {"running"},
           s \notin Building \cup {"running", "new"},
           stage' = [stage EXCEPT ![p] = s],
           want' = want \/ \E c : want' = [want EXCEPT ![p] = c],
           UNCHANGED <<server, team>>
    PROVE  TeamInv'
<1>1. /\ stage' = [stage EXCEPT ![p] = stage'[p]] /\ stage'[p] = s
      /\ want' = [want EXCEPT ![p] = want'[p]]
      /\ server' = [q \in Starters |-> IF q = p THEN server'[q] ELSE server[q]]
      /\ team' = [q \in Starters |-> IF q = p THEN team'[q] ELSE team[q]]
  BY DEF TeamInv, Typed
<1>2. ASSUME p \in Starters PROVE TeamOf(p)'
  <2>1. TeamOf(p)
    BY <1>2 DEF TeamInv
  <2>2. server[p] # "open"
    BY <2>1 DEF TeamOf, Sane, Building
  <2>3. server'[p] = server[p] /\ team'[p] = team[p]
    OBVIOUS
  <2>. QED
    BY ONLY <1>1, <2>1, <2>2, <2>3, s \notin Building \cup {"running", "new"} DEF TeamOf, Sane
<1>. QED
  BY ONLY <1>1, <1>2, TeamInv, Typed', p \in Commands, OthersKeepTeams

Plain == {"writing", "renaming", "drafting", "renamingDraft", "editor", "checking", "moving",
          "done", "refused"}

\* Save and Refused leave the start for a stage of the file's.
LEMMA CommandStep ==
    ASSUME TeamInv, Typed', NEW p \in Commands, stage[p] = "new",
           NEW c, NEW then \in {"writing", "drafting"}, Save(p, c, then) \/ Refused(p),
           UNCHANGED <<server, team>>
    PROVE  TeamInv'
<1>1. PICK s \in {"writing", "drafting", "refused"} : stage' = [stage EXCEPT ![p] = s]
  BY DEF Save, Refused
<1>2. want' = want \/ \E k : want' = [want EXCEPT ![p] = k]
  BY DEF Save, Refused
<1>3. stage[p] \notin Building \cup {"running"} /\ s \notin Building \cup {"running", "new"}
  BY DEF Building
<1>. QED
  BY ONLY <1>1, <1>2, <1>3, TeamInv, Typed', p \in Commands, UNCHANGED <<server, team>>, PlainStep

LEMMA ChangeStep ==
    ASSUME TeamInv, Typed', NEW p \in Commands, stage[p] = "new", NEW found, NEW c, Change(p, found, c)
    PROVE  TeamInv'
<1>1. UNCHANGED <<server, team>>
  BY DEF Change
<1>2. Save(p, c, "writing") \/ Refused(p)
  BY DEF Change
<1>. QED
  BY <1>1, <1>2, CommandStep

LEMMA CommandTeamInv ==
    ASSUME TeamInv, Typed', NEW p \in Commands,
           \/ InitConfig(p) \/ AddProvider(p) \/ RmProvider(p) \/ AddAgent(p) \/ RmAgent(p) \/ SetDefault(p)
           \/ Edit(p) \/ EditorWrites(p) \/ EditorExits(p) \/ CheckDraft(p) \/ MoveDraft(p)
           \/ WriteTemp(p) \/ Rename(p)
    PROVE  TeamInv'
<1>1. CASE InitConfig(p)
  BY <1>1, CommandStep DEF InitConfig
<1>2. CASE AddProvider(p)
  BY <1>2, ChangeStep DEF AddProvider
<1>3. CASE RmProvider(p)
  BY <1>3, ChangeStep DEF RmProvider
<1>4. CASE AddAgent(p)
  BY <1>4, ChangeStep DEF AddAgent
<1>5. CASE RmAgent(p)
  BY <1>5, ChangeStep DEF RmAgent
<1>6. CASE SetDefault(p)
  BY <1>6, ChangeStep DEF SetDefault
<1>7. CASE Edit(p)
  BY <1>7, CommandStep DEF Edit
<1>8. CASE \/ EditorWrites(p) \/ EditorExits(p) \/ CheckDraft(p) \/ MoveDraft(p)
           \/ WriteTemp(p) \/ Rename(p)
  <2>1. UNCHANGED <<want, server, team>>
    BY <1>8 DEF EditorWrites, EditorExits, CheckDraft, MoveDraft, WriteTemp, Rename
  <2>2. stage[p] \in Plain
    BY <1>8 DEF EditorWrites, EditorExits, CheckDraft, MoveDraft, WriteTemp, Rename, Plain
  <2>3. \E s \in Plain : stage' = [stage EXCEPT ![p] = s]
    <3>1. CASE EditorWrites(p)
      BY <2>2, <3>1 DEF EditorWrites, TeamInv
    <3>2. CASE EditorExits(p)
      BY <3>2 DEF EditorExits, Plain
    <3>3. CASE CheckDraft(p)
      BY <3>3 DEF CheckDraft, Plain
    <3>4. CASE MoveDraft(p)
      BY <3>4 DEF MoveDraft, Plain
    <3>5. CASE WriteTemp(p)
      BY <3>5 DEF WriteTemp, Plain
    <3>6. CASE Rename(p)
      BY <3>6 DEF Rename, Plain
    <3>. QED
      BY <1>8, <3>1, <3>2, <3>3, <3>4, <3>5, <3>6
  <2>4. PICK s \in Plain : stage' = [stage EXCEPT ![p] = s]
    BY <2>3
  <2>5. stage[p] \notin Building \cup {"running"} /\ s \notin Building \cup {"running", "new"}
    BY <2>2, <2>4 DEF Building, Plain
  <2>. QED
    BY <2>1, <2>4, <2>5, PlainStep
<1>. QED
  BY <1>1, <1>2, <1>3, <1>4, <1>5, <1>6, <1>7, <1>8

\* A process that ends closes its server.
LEMMA EndTeamInv ==
    ASSUME TeamInv, Typed', NEW p \in Commands, Dies(p) \/ RunReturns(p)
    PROVE  TeamInv'
<1>1. /\ stage'[p] \in {"refused", "done"} /\ stage' = [stage EXCEPT ![p] = stage'[p]]
      /\ want' = [want EXCEPT ![p] = want'[p]] /\ want'[p] = want[p]
      /\ team' = [q \in Starters |-> IF q = p THEN team'[q] ELSE team[q]] /\ team' = team
  BY DEF Dies, RunReturns, TeamInv, Typed
<1>2. server' = [q \in Starters |-> IF q = p THEN server'[q] ELSE server[q]]
  BY DEF Dies, RunReturns, TeamInv
<1>3. ASSUME p \in Starters PROVE TeamOf(p)'
  <2>1. TeamOf(p)
    BY <1>3 DEF TeamInv
  <2>2. server'[p] # "open"
    BY <1>3 DEF Dies, RunReturns, TeamInv
  <2>3. stage'[p] \notin Building \cup {"running", "new"}
    BY <1>1 DEF Building
  <2>. QED
    BY ONLY <1>1, <2>1, <2>2, <2>3 DEF TeamOf, Sane
<1>. QED
  BY ONLY <1>1, <1>2, <1>3, TeamInv, Typed', p \in Commands, OthersKeepTeams

\* A start that gives up, with the reason for it.
LEMMA GivesUp ==
    ASSUME TeamInv, Typed', NEW p \in Starters, NEW why, why \notin Dangling, Ends(p, why),
           want' = want \/ \E c : want' = [want EXCEPT ![p] = c],
           \/ stage[p] \in {"new", "dialing"} /\ server' = server
           \/ server' = [server EXCEPT ![p] = "closed"]
    PROVE  TeamInv'
<1>1. p \in Commands
  BY ConfigAssumption DEF ConfigAssumption
<1>2. TeamOf(p)
  BY DEF TeamInv
<1>3. /\ stage' = [stage EXCEPT ![p] = stage'[p]] /\ stage'[p] = "refused"
      /\ want' = [want EXCEPT ![p] = want'[p]]
  BY <1>1 DEF Ends, TeamInv, Typed
<1>4. /\ team' = [q \in Starters |-> IF q = p THEN team'[q] ELSE team[q]]
      /\ team'[p] = [team[p] EXCEPT !.why = why]
  BY DEF Ends, TeamInv
<1>5. server' = [q \in Starters |-> IF q = p THEN server'[q] ELSE server[q]] /\ server'[p] # "open"
  BY <1>2 DEF TeamInv, TeamOf, Sane
<1>6. TeamOf(p)'
  <2>1. /\ team'[p].why = why /\ team'[p].entry = team[p].entry /\ team'[p].tools = team[p].tools
        /\ team'[p] = [entry |-> team'[p].entry, tools |-> team'[p].tools, why |-> team'[p].why]
    BY <1>2, <1>4 DEF TeamOf, Sane
  <2>2. stage'[p] \notin Building \cup {"running", "new"}
    BY <1>3 DEF Building
  <2>. QED
    BY ONLY <1>2, <1>3, <1>5, <2>1, <2>2, why \notin Dangling DEF TeamOf, Sane
<1>. QED
  BY ONLY <1>1, <1>3, <1>4, <1>5, <1>6, TeamInv, Typed', OthersKeepTeams

\* A start that goes on: what its team must be.
LEMMA GoesOn ==
    ASSUME TeamInv, Typed', NEW p \in Starters, NEW entry, NEW kit,
           NEW then \in Building \cup {"running"}, Started(p, entry, kit, then),
           want' = [want EXCEPT ![p] = want'[p]],
           Unlike(kit), EntryIsNoTool(kit, entry), Covered(kit, want'[p], entry),
           then \in Building => Validate(want'[p]) /\ entry \in AgentNames(want'[p]),
           \/ server' = server /\ (server[p] # "open" \/ then # "dialing")
           \/ server' = [server EXCEPT ![p] = "open"] /\ then # "dialing"
    PROVE  TeamInv'
<1>1. p \in Commands
  BY ConfigAssumption DEF ConfigAssumption
<1>2. stage' = [stage EXCEPT ![p] = stage'[p]] /\ stage'[p] = then
  BY <1>1 DEF Started, TeamInv
<1>3. /\ team' = [q \in Starters |-> IF q = p THEN team'[q] ELSE team[q]]
      /\ team'[p] = [entry |-> entry, tools |-> kit, why |-> ""]
  BY DEF Started, TeamInv
<1>4. server' = [q \in Starters |-> IF q = p THEN server'[q] ELSE server[q]]
      /\ (server'[p] = "open" => then # "dialing")
  BY DEF TeamInv
<1>5. TeamOf(p)'
  <2>1. ASSUME NEW t, t = [entry |-> entry, tools |-> kit, why |-> ""]
        PROVE  Sane(t, then, want'[p], server'[p])
    <3>1. then # "new" /\ "" \notin Dangling
      BY DEF Building, Dangling
    <3>2. server'[p] = "open" => then \in {"listing", "equipping", "running"}
      BY <1>4 DEF Building
    <3>3. t.entry = entry /\ t.tools = kit /\ t.why = ""
          /\ t = [entry |-> t.entry, tools |-> t.tools, why |-> t.why]
      BY ONLY <2>1, TeamFields
    <3>4. /\ then \in Building => Validate(want'[p]) /\ entry \in AgentNames(want'[p])
          /\ Covered(kit, want'[p], entry)
      OBVIOUS
    <3>. QED
      BY ONLY <3>1, <3>2, <3>3, <3>4, Unlike(kit), EntryIsNoTool(kit, entry) DEF Sane
  <2>. QED
    BY ONLY <1>2, <1>3, <2>1 DEF TeamOf
<1>. QED
  BY ONLY <1>1, <1>2, <1>3, <1>4, <1>5, TeamInv, Typed', want' = [want EXCEPT ![p] = want'[p]],
     OthersKeepTeams

LEMMA StartAgentTeamInv ==
    ASSUME TeamInv, Typed', NEW p \in Commands, StartAgent(p)
    PROVE  TeamInv'
<1> DEFINE c == LoadOrEmpty
<1>1. /\ p \in Starters /\ stage[p] = "new" /\ want' = want /\ server' = server
  BY DEF StartAgent
<1>2. PICK n \in Members \cup {""}, serving \in BOOLEAN :
         LET chosen == IF n # "" THEN n ELSE c.default
             entry  == IF chosen = "" /\ serving /\ c.agents # <<>> THEN Head(c.agents).name ELSE chosen
         IN  IF ~Loads(file) THEN Ends(p, "config")
             ELSE IF entry = "" THEN Ends(p, "none named")
             ELSE IF n \notin AgentNames(c) \cup {""} THEN Ends(p, "none named")
             ELSE IF BuildFails(c, entry) # "" THEN Ends(p, BuildFails(c, entry))
             ELSE Started(p, entry, {}, "running")
  BY DEF StartAgent
<1> DEFINE chosen == IF n # "" THEN n ELSE c.default
           entry  == IF chosen = "" /\ serving /\ c.agents # <<>> THEN Head(c.agents).name ELSE chosen
<1>3. \/ Ends(p, "config") \/ Ends(p, "none named")
      \/ /\ Loads(file) /\ entry # "" /\ n \in AgentNames(c) \cup {""}
         /\ Ends(p, BuildFails(c, entry)) \/ Started(p, entry, {}, "running")
  BY <1>2
<1>4. Listed(c)
  BY LoadIsListed DEF TeamInv
<1>5. Loads(file) => Validate(c)
  BY DEF Loads, LoadOrEmpty
<1>. HIDE DEF c
<1>6. Loads(file) /\ entry # "" /\ n \in AgentNames(c) \cup {""} => entry \in AgentNames(c)
  <2>1. c.agents # <<>> => Head(c.agents).name \in AgentNames(c)
    <3>1. PICK S : c.agents \in Seq(S)
      BY <1>4 DEF Listed
    <3>2. c.agents # <<>> => Head(c.agents) = c.agents[1] /\ 1 \in DOMAIN c.agents
      BY ONLY <3>1, HeadIsFirst
    <3>. QED
      BY <3>2 DEF AgentNames, Range
  <2>2. Loads(file) => c.default \in AgentNames(c) \cup {""}
    BY <1>5 DEF Validate
  <2>. QED
    BY <2>1, <2>2
<1>. HIDE DEF entry
<1>7. CASE Ends(p, "config") \/ Ends(p, "none named")
  BY <1>1, <1>7, GivesUp DEF Dangling
<1>8. CASE /\ Loads(file) /\ entry # "" /\ n \in AgentNames(c) \cup {""}
           /\ Ends(p, BuildFails(c, entry))
  <2>1. BuildFails(c, entry) \notin Dangling
    BY <1>5, <1>6, <1>8, ValidIsBuilt DEF Buildable, Dangling
  <2>. QED
    BY <1>1, <1>8, <2>1, GivesUp
<1>9. CASE Started(p, entry, {}, "running")
  <2>1. TeamOf(p)
    BY <1>1 DEF TeamInv
  <2>2. want[p] = Empty /\ server[p] # "open"
    BY <1>1, <2>1 DEF TeamOf, Sane
  <2>3. Unlike({}) /\ EntryIsNoTool({}, entry) /\ Covered({}, Empty, entry)
    BY NoneToCover DEF Unlike, EntryIsNoTool
  <2>4. "running" \in Building \cup {"running"} /\ "running" \notin Building /\ want' = [want EXCEPT ![p] = want'[p]]
        /\ want'[p] = Empty
    BY <1>1, <2>2 DEF Building, TeamInv, Typed
  <2>. QED
    BY <1>1, <1>9, <2>2, <2>3, <2>4, GoesOn
<1>. QED
  BY <1>3, <1>7, <1>8, <1>9

LEMMA StartTeamTeamInv ==
    ASSUME TeamInv, Typed', NEW p \in Commands, StartTeam(p)
    PROVE  TeamInv'
<1> DEFINE c == LoadOrEmpty
           then == IF c.servers > 0 THEN "dialing" ELSE "equipping"
<1>1. /\ p \in Starters /\ stage[p] = "new" /\ server' = server /\ want' = [want EXCEPT ![p] = c]
      /\ IF ~Loads(file) THEN Ends(p, "config")
         ELSE IF FirstFailure(c) # "" THEN Ends(p, FirstFailure(c))
         ELSE IF c.agents = <<>> THEN Ends(p, "none named")
         ELSE Started(p, Main(c), WireDelegation(c), then)
  BY DEF StartTeam
<1>2. Listed(c) /\ (Loads(file) => Validate(c))
  BY LoadIsListed DEF TeamInv, Loads, LoadOrEmpty
<1>3. then \in Building
  BY DEF Building
<1>. HIDE DEF c, then
<1>4. CASE Ends(p, "config") \/ Ends(p, "none named")
  BY <1>1, <1>4, GivesUp DEF Dangling
<1>5. CASE Loads(file) /\ Ends(p, FirstFailure(c))
  <2>1. FirstFailure(c) \notin Dangling
    BY <1>2, <1>5, ValidTeamIsBuilt DEF Buildable, Dangling
  <2>. QED
    BY <1>1, <1>5, <2>1, GivesUp
<1>6. CASE Loads(file) /\ c.agents # <<>> /\ Started(p, Main(c), WireDelegation(c), then)
  <2>1. want'[p] = c /\ want' = [want EXCEPT ![p] = want'[p]]
    BY <1>1 DEF TeamInv, Typed
  <2>2. server[p] # "open"
    BY <1>1 DEF TeamInv, TeamOf, Sane
  <2>3. Validate(c) /\ Main(c) \in AgentNames(c)
    BY <1>2, <1>6, MainIsAnAgent
  <2>4. Unlike(WireDelegation(c)) /\ EntryIsNoTool(WireDelegation(c), Main(c))
        /\ Covered(WireDelegation(c), c, Main(c))
    BY DelegationIsSound
  <2>. QED
    BY <1>1, <1>3, <1>6, <2>1, <2>2, <2>3, <2>4, GoesOn
<1>. QED
  BY <1>1, <1>4, <1>5, <1>6

LEMMA ServeTeamTeamInv ==
    ASSUME TeamInv, Typed', NEW p \in Commands, ServeTeam(p)
    PROVE  TeamInv'
<1> DEFINE c == LoadOrEmpty
           kit == Registered({}, AgentNames(c), "agent")
<1>1. /\ p \in Starters /\ stage[p] = "new" /\ server' = server /\ want' = want
      /\ IF ~Loads(file) THEN Ends(p, "config")
         ELSE IF FirstFailure(c) # "" THEN Ends(p, FirstFailure(c))
         ELSE Started(p, "", kit, "running")
  BY DEF ServeTeam
<1>2. Listed(c) /\ (Loads(file) => Validate(c))
  BY LoadIsListed DEF TeamInv, Loads, LoadOrEmpty
<1>. HIDE DEF c
<1>4. CASE Ends(p, "config")
  BY <1>1, <1>4, GivesUp DEF Dangling
<1>5. CASE Loads(file) /\ Ends(p, FirstFailure(c))
  <2>1. FirstFailure(c) \notin Dangling
    BY <1>2, <1>5, ValidTeamIsBuilt DEF Buildable, Dangling
  <2>. QED
    BY <1>1, <1>5, <2>1, GivesUp
<1>6. CASE Loads(file) /\ Started(p, "", kit, "running")
  <2>1. TeamOf(p)
    BY <1>1 DEF TeamInv
  <2>2. want'[p] = Empty /\ want' = [want EXCEPT ![p] = want'[p]] /\ server[p] # "open"
    BY <1>1, <2>1 DEF TeamOf, Sane, TeamInv, Typed
  <2>3. Unlike(kit)
    <3>1. Unlike({})
      BY DEF Unlike
    <3>. QED
      BY <3>1, RegisteredIsUnlike
  <2>4. EntryIsNoTool(kit, "")
    <3>1. "" \notin AgentNames(c)
      BY <1>2, <1>6 DEF Validate
    <3>2. \A t \in kit : t.name \in AgentNames(c)
      BY DEF Registered
    <3>. QED
      BY <3>1, <3>2 DEF EntryIsNoTool
  <2>5. Covered(kit, Empty, "")
    BY NoneToCover
  <2>6. "running" \in Building \cup {"running"} /\ "running" \notin Building
    BY DEF Building
  <2>. HIDE DEF kit
  <2>. QED
    BY <1>1, <1>6, <2>2, <2>3, <2>4, <2>5, <2>6, GoesOn
<1>. QED
  BY <1>1, <1>4, <1>5, <1>6

\* The steps of a team that was started.
LEMMA TeamStepTeamInv ==
    ASSUME TeamInv, Typed', NEW p \in Starters, Dial(p) \/ ListTools(p) \/ Equip(p)
    PROVE  TeamInv'
<1>1. TeamOf(p)
  BY DEF TeamInv
<1>2. stage[p] \in Building /\ want' = want /\ want' = [want EXCEPT ![p] = want'[p]] /\ want'[p] = want[p]
  BY ConfigAssumption DEF ConfigAssumption, Dial, ListTools, Equip, Building, TeamInv, Typed
<1>3. /\ team[p] = [entry |-> team[p].entry, tools |-> team[p].tools, why |-> team[p].why]
      /\ Unlike(team[p].tools) /\ EntryIsNoTool(team[p].tools, team[p].entry)
      /\ Validate(want[p]) /\ team[p].entry \in AgentNames(want[p])
      /\ Covered(team[p].tools, want[p], team[p].entry)
      /\ stage[p] = "dialing" => server[p] # "open"
  BY <1>1, <1>2 DEF TeamOf, Sane
<1> DEFINE kit == team[p].tools
           entry == team[p].entry
<1>4. CASE Ends(p, "server")
  <2>1. \/ stage[p] = "dialing" /\ server' = server
        \/ server' = [server EXCEPT ![p] = "closed"]
    <3>1. CASE Dial(p)
      <4>1. stage'[p] = "refused"
        BY <1>4, ConfigAssumption DEF Ends, TeamInv, ConfigAssumption
      <4>. QED
        BY <3>1, <4>1, ConfigAssumption DEF Dial, TeamInv, ConfigAssumption
    <3>2. CASE ListTools(p)
      <4>1. stage'[p] = "refused"
        BY <1>4, ConfigAssumption DEF Ends, TeamInv, ConfigAssumption
      <4>. QED
        BY <3>2, <4>1, ConfigAssumption DEF ListTools, Started, TeamInv, ConfigAssumption
    <3>3. CASE Equip(p)
      <4>1. stage'[p] = "refused"
        BY <1>4, ConfigAssumption DEF Ends, TeamInv, ConfigAssumption
      <4>. QED
        BY <3>3, <4>1, ConfigAssumption DEF Equip, Started, TeamInv, ConfigAssumption
    <3>. QED
      BY <3>1, <3>2, <3>3
  <2>. QED
    BY <1>2, <1>4, <2>1, GivesUp DEF Dangling
<1>5. CASE /\ stage[p] = "dialing" /\ server' = [server EXCEPT ![p] = "open"]
           /\ stage' = [stage EXCEPT ![p] = "listing"] /\ team' = team
  <2>1. /\ p \in Commands /\ stage' = [stage EXCEPT ![p] = stage'[p]] /\ stage'[p] = "listing"
        /\ server' = [q \in Starters |-> IF q = p THEN server'[q] ELSE server[q]]
        /\ team' = [q \in Starters |-> IF q = p THEN team'[q] ELSE team[q]]
    BY <1>5, ConfigAssumption DEF TeamInv, ConfigAssumption
  <2>2. TeamOf(p)'
    <3>1. team'[p] = team[p] /\ stage'[p] = "listing" /\ want'[p] = want[p] /\ stage[p] = "dialing"
      BY <1>2, <1>5, <2>1
    <3>. QED
      BY ONLY <1>1, <1>3, <3>1 DEF TeamOf, Sane
  <2>. QED
    BY ONLY <1>2, <2>1, <2>2, TeamInv, Typed', OthersKeepTeams
<1>6. CASE /\ stage[p] = "listing" /\ server' = server
           /\ \E names : Started(p, entry, Registered(kit, names, "mcp"), "equipping")
  <2>1. PICK names : Started(p, entry, Registered(kit, names, "mcp"), "equipping")
    BY <1>6
  <2>2. /\ Unlike(Registered(kit, names, "mcp"))
        /\ Covered(Registered(kit, names, "mcp"), want[p], entry)
        /\ EntryIsNoTool(Registered(kit, names, "mcp"), entry)
    BY <1>3, RegisteredIsUnlike, McpToolsAreSound
  <2>3. "equipping" \in Building /\ "equipping" # "dialing"
    BY DEF Building
  <2>. HIDE DEF kit, entry
  <2>4. Validate(want[p]) /\ entry \in AgentNames(want[p])
    BY <1>3 DEF entry
  <2>. QED
    BY <1>2, <1>6, <2>1, <2>2, <2>3, <2>4, GoesOn
<1>7. CASE Equip(p)
  <2>1. Started(p, entry, Registered(kit, want[p].remotes, "remote"), "running") /\ server' = server
    BY <1>7 DEF Equip
  <2>2. /\ Unlike(Registered(kit, want[p].remotes, "remote"))
        /\ Covered(Registered(kit, want[p].remotes, "remote"), want[p], entry)
        /\ EntryIsNoTool(Registered(kit, want[p].remotes, "remote"), entry)
    BY <1>3, RegisteredIsUnlike, RemotesAreSound
  <2>3. "running" \in Building \cup {"running"} /\ "running" \notin Building
    BY DEF Building
  <2>. HIDE DEF kit, entry
  <2>. QED
    BY <1>2, <2>1, <2>2, <2>3, GoesOn
<1>. QED
  BY <1>4, <1>5, <1>6, <1>7 DEF Dial, ListTools

\* Such steps are of processes that started a team; of another they show nothing.
LEMMA NoTeamStep ==
    ASSUME TeamInv, Typed', NEW p \in Commands, p \notin Starters, Dial(p) \/ ListTools(p) \/ Equip(p)
    PROVE  TeamInv'
<1>1. want' = [want EXCEPT ![p] = want'[p]]
  BY DEF Dial, ListTools, Equip, TeamInv, Typed
<1>2. stage' = [stage EXCEPT ![p] = stage'[p]]
  BY DEF Dial, ListTools, Equip, Ends, Started, TeamInv
<1>3. server' = [q \in Starters |-> IF q = p THEN server'[q] ELSE server[q]]
  BY DEF Dial, ListTools, Equip, TeamInv
<1>4. team' = [q \in Starters |-> IF q = p THEN team'[q] ELSE team[q]]
  BY DEF Dial, ListTools, Equip, Ends, Started, TeamInv
<1>. QED
  BY ONLY <1>1, <1>2, <1>3, <1>4, p \notin Starters, p \in Commands, TeamInv, Typed', OthersKeepTeams

LEMMA NextTeamInv == TeamInv /\ [ConfigNext]_configVars => TeamInv'
<1>. SUFFICES ASSUME TeamInv, [ConfigNext]_configVars PROVE TeamInv'
  OBVIOUS
<1>1. Typed'
  BY NextTyped DEF TeamInv
<1>2. CASE UNCHANGED configVars
  <2>1. \A p \in Starters : TeamOf(p)'
    BY <1>2 DEF configVars, TeamInv, TeamOf, Sane
  <2>. QED
    BY <1>1, <1>2, <2>1 DEF configVars, TeamInv
<1>3. CASE ConfigNext
  <2>. PICK p \in Commands :
        \/ InitConfig(p) \/ AddProvider(p) \/ RmProvider(p) \/ AddAgent(p) \/ RmAgent(p) \/ SetDefault(p)
        \/ Edit(p) \/ EditorWrites(p) \/ EditorExits(p) \/ CheckDraft(p) \/ MoveDraft(p)
        \/ WriteTemp(p) \/ Rename(p) \/ Dies(p)
        \/ StartAgent(p) \/ StartTeam(p) \/ ServeTeam(p)
        \/ Dial(p) \/ ListTools(p) \/ Equip(p) \/ RunReturns(p)
    BY <1>3 DEF ConfigNext
  <2>. QED
    BY <1>1, CommandTeamInv, EndTeamInv, StartAgentTeamInv, StartTeamTeamInv, ServeTeamTeamInv,
       TeamStepTeamInv, NoTeamStep
<1>. QED
  BY <1>2, <1>3

\* Whatever is saved meanwhile, a team that starts is of one valid
\* configuration, finds its agents, has each sub-agent as a tool and leaves no
\* MCP server behind (Load, buildAgents, wireDelegation and gori's commands).
THEOREM ConfigTeamsAreSound == ConfigSpec => []TeamsAreSound
BY InitTeamInv, NextTeamInv, TeamInvSound, PTL DEF ConfigSpec

-----------------------------------------------------------------------------
(* AgentLoop.                                                              *)

Turn == [role : {"user", "assistant", "tool"}, ids : Seq(Nat)]

-----------------------------------------------------------------------------
(* Trim.                                                                   *)

\* A history that begins with a user's message is cut in front of one, inside
\* the window's first turn: nothing of a turn is lost and the window is full.
LEMMA FirstIsUserTurn ==
    ASSUME NEW h \in Seq(Turn), h # <<>>, h[1].role = "user", NEW k \in Nat \ {0}
    PROVE  /\ First(h, k) \in UserTurns(h)
           /\ First(h, k) = 1 \/ Len(h) - First(h, k) + 1 >= k
<1> DEFINE from   == IF Len(h) > k THEN Len(h) - k + 1 ELSE 1
           before == {i \in UserTurns(h) : i <= from}
           first  == CHOOSE i \in before : \A j \in before : j <= i
<1>1. Len(h) \in Nat \ {0} /\ DOMAIN h = 1 .. Len(h)
  OBVIOUS
<1>2. from \in 1 .. Len(h) /\ (from = 1 \/ Len(h) - from + 1 = k)
  BY <1>1
<1>3. UserTurns(h) \subseteq 1 .. Len(h) /\ 1 \in UserTurns(h)
  BY <1>1 DEF UserTurns
<1>4. before \in SUBSET (1 .. Len(h)) /\ 1 \in before
  BY <1>2, <1>3
<1>5. first \in before
  <2>. HIDE DEF before
  <2>1. \E i \in before : \A j \in before : j <= i
    BY <1>1, <1>4, LastPosition
  <2>. QED
    BY <2>1
<1>6. First(h, k) = first
  BY <1>4 DEF First
<1>. HIDE DEF first
<1>7. first \in UserTurns(h) /\ first \in 1 .. Len(h) /\ first <= from
  BY <1>3, <1>5
<1>8. first = 1 \/ Len(h) - first + 1 >= k
  <2>. HIDE DEF from, before
  <2>. QED
    BY <1>1, <1>2, <1>7
<1>. QED
  BY <1>6, <1>7, <1>8

\* What Trim keeps is the rest of the history from First on.
LEMMA TrimKeeps ==
    ASSUME NEW h \in Seq(Turn), h # <<>>, h[1].role = "user", NEW k \in Nat \ {0}
    PROVE  /\ Trim(h, k) \in Seq(Turn)
           /\ Len(Trim(h, k)) = Len(h) - First(h, k) + 1
           /\ First(h, k) \in 1 .. Len(h)
           /\ \A i \in 1 .. Len(Trim(h, k)) : Trim(h, k)[i] = h[First(h, k) + i - 1]
<1> DEFINE f == First(h, k)
           n == Len(h)
<1>1. n \in Nat /\ f \in 1 .. n
  BY FirstIsUserTurn DEF UserTurns
<1>2. Trim(h, k) = SubSeq(h, f, n)
  BY DEF Trim
<1>3. \A i \in f .. n : h[i] \in Turn
  BY <1>1
<1>. HIDE DEF f, n
<1>4. /\ SubSeq(h, f, n) \in Seq(Turn)
      /\ Len(SubSeq(h, f, n)) = IF f <= n THEN n - f + 1 ELSE 0
      /\ \A i \in 1 .. n - f + 1 : SubSeq(h, f, n)[i] = h[f + i - 1]
  <2>1. f \in Int /\ n \in Int
    BY <1>1
  <2>. QED
    BY ONLY <1>3, <2>1, SubSeqProperties
<1>5. Len(SubSeq(h, f, n)) = n - f + 1
  BY <1>1, <1>4
<1>. QED
  BY <1>1, <1>2, <1>4, <1>5 DEF f, n

-----------------------------------------------------------------------------
(* Well-formed histories.                                                  *)

\* A history up to a last message that may still be waiting for its answer.
WellFormed(h) ==
    /\ h # <<>> => h[1].role = "user"
    /\ \A i \in 1 .. Len(h) : Answered(h, i)

Ready(h) == h # <<>> /\ h[Len(h)].role \in {"user", "tool"}

\* Nothing is left unanswered.
Settled(h) ==
    h # <<>> => ~(h[Len(h)].role = "assistant" /\ h[Len(h)].ids # <<>>)

\* A message that fits the last one can follow it.
LEMMA AppendWellFormed ==
    ASSUME NEW h \in Seq(Turn), WellFormed(h), NEW m \in Turn,
           h = <<>> => m.role = "user",
           m.role = "assistant" => Ready(h),
           m.role = "tool" => h # <<>> /\ h[Len(h)].role = "assistant" /\ h[Len(h)].ids = m.ids,
           m.role = "user" => Settled(h)
    PROVE  /\ Append(h, m) \in Seq(Turn) /\ WellFormed(Append(h, m))
           /\ Append(h, m) # <<>> /\ Append(h, m)[Len(Append(h, m))] = m
           /\ Len(Append(h, m)) = Len(h) + 1
           /\ \A i \in 1 .. Len(h) : Append(h, m)[i] = h[i]
<1> DEFINE a == Append(h, m)
           n == Len(h)
<1>1. /\ n \in Nat /\ a \in Seq(Turn) /\ Len(a) = n + 1 /\ a[n + 1] = m
      /\ \A i \in 1 .. n : a[i] = h[i]
      /\ h # <<>> => n > 0
      /\ a # <<>>
  OBVIOUS
<1>. HIDE DEF a
<1>2. a[1].role = "user"
  <2>1. CASE h = <<>>
    BY <1>1, <2>1
  <2>2. CASE h # <<>>
    BY <1>1, <2>2 DEF WellFormed
  <2>. QED
    BY <2>1, <2>2
<1>3. ASSUME NEW i \in 1 .. n + 1
      PROVE  Answered(a, i)
  <2>1. CASE i \in 1 .. n - 1
    <3>1. Answered(h, i) /\ a[i] = h[i] /\ a[i + 1] = h[i + 1] /\ (i > 1 => a[i - 1] = h[i - 1])
      BY <1>1, <2>1 DEF WellFormed
    <3>2. i < Len(h) /\ i < Len(a)
      BY <1>1, <2>1
    <3>. QED
      BY <3>1, <3>2 DEF Answered, Role
  <2>2. CASE i = n /\ n > 0
    <3>1. Answered(h, n) /\ a[n] = h[n] /\ a[n + 1] = m /\ (n > 1 => a[n - 1] = h[n - 1])
      BY <1>1, <2>2 DEF WellFormed
    <3>2. h # <<>>
      BY <2>2
    <3>3. h[n].role = "assistant" /\ h[n].ids # <<>> => m.role = "tool" /\ m.ids = h[n].ids
      <4>1. m.role \in {"user", "assistant", "tool"}
        BY DEF Turn
      <4>. QED
        BY <3>2, <4>1 DEF Ready, Settled
    <3>. QED
      BY <2>2, <3>1, <3>3 DEF Answered, Role
  <2>3. CASE i = n + 1
    <3>1. a[i] = m /\ ~(i < Len(a)) /\ i - 1 = n
      BY <1>1, <2>3
    <3>2. CASE h = <<>>
      BY <3>1, <3>2 DEF Answered, Role
    <3>3. CASE h # <<>>
      <4>1. n > 0 /\ i > 1 /\ a[i - 1] = h[n]
        BY <1>1, <2>3, <3>1, <3>3
      <4>. QED
        BY <3>1, <4>1 DEF Answered, Role, Ready
    <3>. QED
      BY <3>2, <3>3
  <2>. QED
    BY <1>1, <2>1, <2>2, <2>3
<1>4. WellFormed(a)
  BY <1>1, <1>2, <1>3 DEF WellFormed
<1>. QED
  BY ONLY <1>1, <1>4 DEF a, n

\* Trimming keeps a history well formed, and its last message.
LEMMA TrimWellFormed ==
    ASSUME NEW h \in Seq(Turn), h # <<>>, WellFormed(h), NEW k \in Nat \ {0}
    PROVE  /\ WellFormed(Trim(h, k))
           /\ Trim(h, k) # <<>> /\ Trim(h, k)[Len(Trim(h, k))] = h[Len(h)]
<1> DEFINE f == First(h, k)
           t == Trim(h, k)
           n == Len(h)
<1>1. h[1].role = "user"
  BY DEF WellFormed
<1>2. /\ t \in Seq(Turn) /\ Len(t) = n - f + 1 /\ f \in 1 .. n
      /\ \A i \in 1 .. Len(t) : t[i] = h[f + i - 1]
      /\ h[f].role = "user" /\ n \in Nat
  <2>1. /\ t \in Seq(Turn) /\ Len(t) = n - f + 1 /\ f \in 1 .. n
        /\ \A i \in 1 .. Len(t) : t[i] = h[f + i - 1]
    BY <1>1, TrimKeeps
  <2>2. h[f].role = "user"
    BY <1>1, FirstIsUserTurn DEF UserTurns
  <2>3. n \in Nat
    OBVIOUS
  <2>. QED
    BY ONLY <2>1, <2>2, <2>3
<1>. HIDE DEF f, t
<1>3. Len(t) \in Nat \ {0} /\ t[1] = h[f] /\ t # <<>> /\ t[Len(t)] = h[n]
  <2>1. Len(t) \in Nat \ {0} /\ f + 1 - 1 = f /\ f + Len(t) - 1 = n
    BY <1>2
  <2>2. 1 \in 1 .. Len(t) /\ Len(t) \in 1 .. Len(t)
    BY <2>1
  <2>3. t[1] = h[f + 1 - 1] /\ t[Len(t)] = h[f + Len(t) - 1]
    BY ONLY <1>2, <2>2
  <2>. QED
    BY <2>1, <2>3
<1>4. ASSUME NEW i \in 1 .. Len(t)
      PROVE  Answered(t, i)
  <2> DEFINE j == f + i - 1
  <2>1. /\ j \in 1 .. n /\ t[i] = h[j]
        /\ i < Len(t) => j < n /\ t[i + 1] = h[j + 1]
        /\ i > 1 => j > 1 /\ t[i - 1] = h[j - 1]
    <3>0. ASSUME NEW a \in Nat, NEW b \in 1 .. a, NEW l, l = a - b + 1, NEW x \in 1 .. l
          PROVE  /\ b + x - 1 \in 1 .. a
                 /\ x < l => b + x - 1 < a /\ x + 1 \in 1 .. l /\ b + (x + 1) - 1 = b + x - 1 + 1
                 /\ x > 1 => b + x - 1 > 1 /\ x - 1 \in 1 .. l /\ b + (x - 1) - 1 = b + x - 1 - 1
      BY <3>0
    <3>1. /\ j \in 1 .. n
          /\ i < Len(t) => j < n /\ i + 1 \in 1 .. Len(t) /\ f + (i + 1) - 1 = j + 1
          /\ i > 1 => j > 1 /\ i - 1 \in 1 .. Len(t) /\ f + (i - 1) - 1 = j - 1
      BY ONLY <1>2, <3>0
    <3>. QED
      BY <1>2, <3>1
  <2>2. i = 1 => t[i].role = "user"
    BY <1>2, <1>3
  <2>. HIDE DEF j
  <2>3. Answered(h, j)
    BY <2>1 DEF WellFormed
  <2>4. i \in Nat /\ (i > 1 \/ i = 1)
    BY <1>3
  <2>5. CASE i > 1
    BY <2>1, <2>3, <2>5 DEF Answered, Role
  <2>6. CASE i = 1
    BY <2>1, <2>2, <2>3, <2>6 DEF Answered, Role
  <2>. QED
    BY <2>4, <2>5, <2>6
<1>5. WellFormed(t)
  BY <1>2, <1>3, <1>4 DEF WellFormed
<1>. QED
  BY ONLY <1>3, <1>5 DEF t, n

-----------------------------------------------------------------------------
(* The inductive invariant.                                                *)

RunTyped ==
    /\ keepLast \in Nat /\ parallel \in BOOLEAN
    /\ history \in Seq(Turn)
    /\ pc \in {"idle", "next", "asking", "acting"}
    /\ slot \in [Calls -> {"none", "waiting", "running", "answered", "failed", "done"}]
    /\ spent \in [Calls -> Nat]
    /\ owing \in Int

\* Where the run stands says how the history ends.
Standing ==
    /\ WellFormed(history)
    /\ pc = "idle" => Settled(history)
    /\ pc \in {"next", "asking"} => Ready(history)

\* The calls being executed are those of the last answer, and each has its
\* result, in its place, when it is done.
Acting(n) ==
    /\ history # <<>> /\ history[Len(history)] = Message("assistant", [i \in 1 .. n |-> i])
    /\ uses \in [1 .. n -> Callee]
    /\ results = [i \in 1 .. n |-> IF slot[i] = "done" THEN i ELSE 0]
    /\ \A i \in Calls : IF i <= n THEN slot[i] # "none" ELSE slot[i] = "none"
    /\ \A i \in Calls : slot[i] \in {"none", "waiting"} => spent[i] = 0
    /\ \A i \in 1 .. n : uses[i] # "sub" => spent[i] = 0

CallsAgree ==
    IF pc = "acting" THEN \E n \in 1 .. MaxCalls : Acting(n)
    ELSE \A i \in Calls : slot[i] = "none" /\ spent[i] = 0

HistoryInv == RunTyped /\ Standing /\ CallsAgree

LEMMA InitHistoryInv == Init => HistoryInv
<1>1. <<>> \in Seq(Turn) /\ Len(<<>>) = 0
  OBVIOUS
<1>2. MaxCalls \in Nat /\ KeepLasts \subseteq Nat
  BY AgentAssumption DEF AgentAssumption
<1>. QED
  BY <1>1, <1>2 DEF Init, HistoryInv, RunTyped, Standing, CallsAgree, WellFormed, Settled, NoCalls, Calls

\* Everything but the calls being executed stays when a tool takes a step.
LEMMA ToolHistoryInv ==
    ASSUME HistoryInv, NEW i \in Calls, Tool(i)
    PROVE  HistoryInv'
<1>1. MaxCalls \in Nat /\ i \in Nat /\ Calls = 1 .. MaxCalls
  BY AgentAssumption DEF AgentAssumption, Calls
<1>2. UNCHANGED <<keepLast, parallel, history, pc, uses>>
  BY DEF Tool, Begin, LocalReturns, SubAnswered, SubEnds, SubAccounted, config
<1>3. slot[i] \notin {"none", "done"}
  BY DEF Tool, Begin, LocalReturns, SubAnswered, SubEnds, SubAccounted
<1>4. RunTyped'
  <2>1. slot' \in [Calls -> {"none", "waiting", "running", "answered", "failed", "done"}]
    BY DEF HistoryInv, RunTyped, Tool, Begin, LocalReturns, SubAnswered, SubEnds, SubAccounted
  <2>2. spent' \in [Calls -> Nat] /\ owing' \in Int
    BY DEF HistoryInv, RunTyped, Tool, Begin, LocalReturns, SubAnswered, SubEnds, SubAccounted
  <2>. QED
    BY <1>2, <2>1, <2>2 DEF HistoryInv, RunTyped
<1>5. Standing'
  BY <1>2 DEF HistoryInv, Standing
<1>6. pc = "acting"
  BY <1>3 DEF HistoryInv, CallsAgree
<1>7. PICK n \in 1 .. MaxCalls : Acting(n)
  BY <1>6 DEF HistoryInv, CallsAgree
<1>8. i \in 1 .. n /\ n \in Nat /\ \A j \in 1 .. n : j \in Calls
  BY <1>1, <1>3, <1>7 DEF Acting
<1>9. /\ slot \in [Calls -> {"none", "waiting", "running", "answered", "failed", "done"}]
      /\ spent \in [Calls -> Nat]
  BY DEF HistoryInv, RunTyped
<1>10. PICK v \in {"waiting", "running", "answered", "failed", "done"} : slot' = [slot EXCEPT ![i] = v]
  <2>1. CASE Begin(i)
    BY <2>1 DEF Begin
  <2>2. CASE LocalReturns(i) \/ SubEnds(i) \/ SubAccounted(i)
    BY <2>2 DEF LocalReturns, SubEnds, SubAccounted
  <2>3. CASE SubAnswered(i)
    <3>1. slot' = slot /\ slot[i] = "running"
      BY <2>3 DEF SubAnswered
    <3>2. slot' = [slot EXCEPT ![i] = "running"]
      BY ONLY <1>9, <3>1
    <3>. QED
      BY <3>2
  <2>. QED
    BY <2>1, <2>2, <2>3 DEF Tool
<1>11. results' = IF v = "done" THEN [results EXCEPT ![i] = i] ELSE results
  BY <1>9, <1>10 DEF Tool, Begin, LocalReturns, SubAnswered, SubEnds, SubAccounted, Put
<1>12. results' = [j \in 1 .. n |-> IF slot'[j] = "done" THEN j ELSE 0]
  <2>1. results = [j \in 1 .. n |-> IF slot[j] = "done" THEN j ELSE 0]
    BY <1>7 DEF Acting
  <2>2. \A j \in 1 .. n : slot'[j] = IF j = i THEN v ELSE slot[j]
    BY ONLY <1>8, <1>9, <1>10
  <2>3. CASE v = "done"
    BY ONLY <1>8, <1>11, <2>1, <2>2, <2>3
  <2>4. CASE v # "done"
    BY ONLY <1>3, <1>8, <1>11, <2>1, <2>2, <2>4
  <2>. QED
    BY <2>3, <2>4
<1>13. \A j \in Calls : IF j <= n THEN slot'[j] # "none" ELSE slot'[j] = "none"
  BY <1>1, <1>7, <1>8, <1>9, <1>10 DEF Acting
<1>14. /\ \A j \in Calls : slot'[j] \in {"none", "waiting"} => spent'[j] = 0
       /\ \A j \in 1 .. n : uses'[j] # "sub" => spent'[j] = 0
  <2>1. CASE SubAnswered(i)
    <3>1. /\ slot' = slot /\ slot[i] = "running" /\ uses[i] = "sub"
          /\ spent' = [spent EXCEPT ![i] = @ + 1]
      BY <2>1 DEF SubAnswered
    <3>2. \A j \in Calls : j # i => spent'[j] = spent[j]
      BY <1>9, <3>1
    <3>. QED
      BY <1>2, <1>7, <1>8, <3>1, <3>2 DEF Acting
  <2>2. CASE ~SubAnswered(i)
    <3>1. spent' = spent
      BY <2>2 DEF Tool, Begin, LocalReturns, SubEnds, SubAccounted
    <3>2. v \notin {"none", "waiting"}
      BY <1>9, <1>10, <2>2 DEF Tool, Begin, LocalReturns, SubEnds, SubAccounted
    <3>3. \A j \in Calls : slot'[j] = IF j = i THEN v ELSE slot[j]
      BY <1>9, <1>10
    <3>. QED
      BY <1>2, <1>7, <3>1, <3>2, <3>3 DEF Acting
  <2>. QED
    BY <2>1, <2>2
<1>15. Acting(n)'
  BY <1>2, <1>7, <1>12, <1>13, <1>14 DEF Acting
<1>16. CallsAgree'
  BY <1>2, <1>6, <1>15 DEF CallsAgree
<1>. QED
  BY <1>4, <1>5, <1>16 DEF HistoryInv

\* drive returns: the history is trimmed, and settled as it was.
LEMMA ReturnHistory ==
    ASSUME HistoryInv, NEW h \in Seq(Turn), h # <<>>, WellFormed(h), Settled(h),
           NEW failed, Return(h, failed)
    PROVE  history' \in Seq(Turn) /\ WellFormed(history') /\ Settled(history')
<1>1. keepLast \in Nat
  BY DEF HistoryInv, RunTyped
<1>2. CASE keepLast > 0
  <2>1. keepLast \in Nat \ {0} /\ history' = Trim(h, keepLast)
    BY <1>1, <1>2 DEF Return
  <2>2. h[1].role = "user"
    BY DEF WellFormed
  <2>3. Trim(h, keepLast) \in Seq(Turn)
    BY <2>1, <2>2, TrimKeeps
  <2>4. /\ WellFormed(Trim(h, keepLast))
        /\ Trim(h, keepLast)[Len(Trim(h, keepLast))] = h[Len(h)]
    BY <2>1, TrimWellFormed
  <2>5. Settled(Trim(h, keepLast))
    BY <2>4 DEF Settled
  <2>. QED
    BY <2>1, <2>3, <2>4, <2>5
<1>3. CASE ~(keepLast > 0)
  BY <1>3 DEF Return
<1>. QED
  BY <1>2, <1>3

\* The last answer of a run is a message without calls.
LEMMA FinalAnswer ==
    ASSUME HistoryInv, pc = "asking"
    PROVE  LET h == Append(history, Message("assistant", [i \in 1 .. 0 |-> i]))
           IN  h \in Seq(Turn) /\ h # <<>> /\ WellFormed(h) /\ Settled(h)
<1> DEFINE m == Message("assistant", [i \in 1 .. 0 |-> i])
           h == Append(history, m)
<1>1. [i \in 1 .. 0 |-> i] = <<>> /\ <<>> \in Seq(Nat)
  OBVIOUS
<1>2. m \in Turn /\ m.role = "assistant" /\ m.ids = <<>>
  BY ONLY <1>1 DEF Message, Turn
<1>. HIDE DEF m
<1>3. history \in Seq(Turn) /\ WellFormed(history) /\ Ready(history)
  BY DEF HistoryInv, RunTyped, Standing
<1>4. h \in Seq(Turn) /\ WellFormed(h) /\ h # <<>> /\ h[Len(h)] = m
  BY <1>2, <1>3, AppendWellFormed DEF Ready
<1>5. Settled(h)
  BY <1>2, <1>4 DEF Settled
<1>. QED
  BY <1>4, <1>5 DEF m

\* An answer with calls, and the message that answers them.
LEMMA CallsAndAnswers ==
    ASSUME NEW n \in Nat \ {0}, NEW ids, ids = [i \in 1 .. n |-> i]
    PROVE  /\ ids \in Seq(Nat) /\ ids # <<>>
           /\ Message("assistant", ids) \in Turn /\ Message("assistant", ids).role = "assistant"
           /\ Message("assistant", ids).ids = ids
           /\ Message("tool", ids) \in Turn /\ Message("tool", ids).role = "tool"
           /\ Message("tool", ids).ids = ids
<1>1. ids \in Seq(Nat) /\ ids # <<>>
  OBVIOUS
<1>. QED
  BY <1>1 DEF Message, Turn

LEMMA AnswerHistoryInv ==
    ASSUME HistoryInv, Answer
    PROVE  HistoryInv'
<1>1. /\ history \in Seq(Turn) /\ WellFormed(history) /\ Ready(history)
      /\ pc = "asking" /\ history # <<>>
      /\ keepLast' = keepLast /\ parallel' = parallel /\ owing' = owing
  BY DEF HistoryInv, RunTyped, Standing, Answer, Ready, config
<1>2. MaxCalls \in Nat /\ Calls = 1 .. MaxCalls
  BY AgentAssumption DEF AgentAssumption, Calls
<1>3. \A i \in Calls : slot[i] = "none" /\ spent[i] = 0
  BY <1>1 DEF HistoryInv, CallsAgree
<1>4. PICK n \in 0 .. MaxCalls, stop \in StopReason :
         LET ids == [i \in 1 .. n |-> i]
             h   == Append(history, Message("assistant", ids))
         IN  \/ /\ n = 0
                /\ Return(h, FALSE)
                /\ UNCHANGED <<step, tools>>
             \/ /\ n > 0 /\ ~ExecutableStop(stop)
                /\ Recover(h, ids)
             \/ /\ n > 0 /\ ExecutableStop(stop)
                /\ history' = h
                /\ pc' = "acting"
                /\ uses' \in [1 .. n -> Callee]
                /\ slot' = [i \in Calls |-> IF i <= n THEN "waiting" ELSE "none"]
                /\ results' = [i \in 1 .. n |-> 0]
                /\ spent' = [i \in Calls |-> 0]
                /\ UNCHANGED step
  BY DEF Answer
<1> DEFINE ids == [i \in 1 .. n |-> i]
           m == Message("assistant", ids)
           h == Append(history, m)
<1>5. CASE n = 0 /\ Return(h, FALSE) /\ UNCHANGED tools
  <2>1. h \in Seq(Turn) /\ h # <<>> /\ WellFormed(h) /\ Settled(h)
    BY <1>1, <1>5, FinalAnswer
  <2>. HIDE DEF h
  <2>2. history' \in Seq(Turn) /\ WellFormed(history') /\ Settled(history')
    BY <1>5, <2>1, ReturnHistory
  <2>3. pc' = "idle" /\ slot' = slot /\ spent' = spent
    BY <1>5 DEF Return, tools
  <2>. QED
    BY <1>1, <1>3, <2>2, <2>3 DEF HistoryInv, RunTyped, Standing, CallsAgree
<1>6. ASSUME n > 0
      PROVE  /\ m \in Turn /\ m.role = "assistant" /\ m.ids = ids
             /\ Message("tool", ids) \in Turn /\ Message("tool", ids).role = "tool"
             /\ Message("tool", ids).ids = ids
             /\ h \in Seq(Turn) /\ WellFormed(h) /\ h # <<>> /\ h[Len(h)] = m
  <2>1. n \in Nat \ {0}
    BY <1>2, <1>6
  <2>2. /\ m \in Turn /\ m.role = "assistant" /\ m.ids = ids
        /\ Message("tool", ids) \in Turn /\ Message("tool", ids).role = "tool"
        /\ Message("tool", ids).ids = ids
    BY <2>1, CallsAndAnswers
  <2>. HIDE DEF m, ids
  <2>3. h \in Seq(Turn) /\ WellFormed(h) /\ h # <<>> /\ h[Len(h)] = m
    BY <1>1, <2>2, AppendWellFormed
  <2>. QED
    BY <2>2, <2>3
<1>7. CASE n > 0 /\ Recover(h, ids)
  <2> DEFINE a == Message("tool", ids)
  <2>1. history' = Append(h, a) /\ pc' = "next" /\ slot' = slot /\ spent' = spent
    BY <1>7 DEF Recover, tools
  <2>2. /\ a \in Turn /\ a.role = "tool" /\ a.ids = ids
        /\ h \in Seq(Turn) /\ WellFormed(h) /\ h # <<>> /\ h[Len(h)].role = "assistant"
        /\ h[Len(h)].ids = ids
    BY <1>6, <1>7
  <2>. HIDE DEF a, h, m, ids
  <2>3. history' \in Seq(Turn) /\ WellFormed(history') /\ history' # <<>> /\ history'[Len(history')] = a
    BY <2>1, <2>2, AppendWellFormed
  <2>4. Ready(history')
    BY <2>2, <2>3 DEF Ready
  <2>. QED
    BY <1>1, <1>3, <2>1, <2>3, <2>4 DEF HistoryInv, RunTyped, Standing, CallsAgree
<1>8. CASE /\ n > 0
           /\ history' = h
           /\ pc' = "acting"
           /\ uses' \in [1 .. n -> Callee]
           /\ slot' = [i \in Calls |-> IF i <= n THEN "waiting" ELSE "none"]
           /\ results' = [i \in 1 .. n |-> 0]
           /\ spent' = [i \in Calls |-> 0]
  <2>1. n \in 1 .. MaxCalls
    BY <1>2, <1>8
  <2>2. h \in Seq(Turn) /\ WellFormed(h) /\ h # <<>> /\ h[Len(h)] = Message("assistant", ids)
    BY <1>6, <1>8
  <2>3. results' = [i \in 1 .. n |-> IF slot'[i] = "done" THEN i ELSE 0]
    BY <1>2, <1>8, <2>1
  <2>4. /\ \A i \in Calls : IF i <= n THEN slot'[i] # "none" ELSE slot'[i] = "none"
        /\ \A i \in Calls : spent'[i] = 0
        /\ \A i \in 1 .. n : i \in Calls
    BY <1>2, <1>8, <2>1
  <2>5. Acting(n)'
    BY <1>8, <2>2, <2>3, <2>4 DEF Acting
  <2>6. RunTyped'
    <3>1. slot' \in [Calls -> {"none", "waiting", "running", "answered", "failed", "done"}]
      BY <1>8
    <3>2. spent' \in [Calls -> Nat]
      BY <1>8
    <3>. QED
      BY <1>1, <1>8, <2>2, <3>1, <3>2 DEF HistoryInv, RunTyped
  <2>7. Standing'
    BY <1>8, <2>2 DEF Standing
  <2>8. CallsAgree'
    BY <1>8, <2>1, <2>5 DEF CallsAgree
  <2>. QED
    BY <2>6, <2>7, <2>8 DEF HistoryInv
<1>. QED
  BY <1>4, <1>5, <1>7, <1>8

\* Every call has its result, so the tool message answers the last answer.
LEMMA ObservedHistoryInv ==
    ASSUME HistoryInv, Observed
    PROVE  HistoryInv'
<1>1. /\ history \in Seq(Turn) /\ WellFormed(history) /\ pc = "acting"
      /\ UNCHANGED <<keepLast, parallel, owing>>
      /\ history' = Append(history, Message("tool", results))
      /\ pc' = "next" /\ slot' = NoCalls /\ spent' = [i \in Calls |-> 0]
  BY DEF HistoryInv, RunTyped, Standing, Observed, config
<1>2. PICK n \in 1 .. MaxCalls : Acting(n)
  BY <1>1 DEF HistoryInv, CallsAgree
<1>3. results = [i \in 1 .. n |-> i]
  <2>1. DOMAIN uses = 1 .. n
    BY <1>2 DEF Acting
  <2>2. \A i \in 1 .. n : slot[i] = "done"
    BY <2>1 DEF Observed
  <2>. QED
    BY <1>2, <2>2 DEF Acting
<1>4. n \in Nat \ {0}
  BY AgentAssumption DEF AgentAssumption
<1> DEFINE m == Message("tool", results)
<1>5. /\ m \in Turn /\ m.role = "tool" /\ m.ids = results
      /\ history # <<>> /\ history[Len(history)].role = "assistant"
      /\ history[Len(history)].ids = results
  BY <1>2, <1>3, <1>4, CallsAndAnswers DEF Acting
<1>. HIDE DEF m
<1>6. /\ Append(history, m) \in Seq(Turn) /\ WellFormed(Append(history, m))
      /\ Append(history, m) # <<>> /\ Append(history, m)[Len(Append(history, m))] = m
  BY <1>1, <1>5, AppendWellFormed
<1>7. history' = Append(history, m)
  BY <1>1 DEF m
<1>8. Ready(history')
  BY <1>5, <1>6, <1>7 DEF Ready
<1>9. RunTyped'
  BY <1>1, <1>6, <1>7 DEF HistoryInv, RunTyped, NoCalls
<1>10. CallsAgree'
  BY <1>1 DEF CallsAgree, NoCalls
<1>. QED
  BY <1>1, <1>6, <1>7, <1>8, <1>9, <1>10 DEF HistoryInv, Standing

LEMMA NextHistoryInv == HistoryInv /\ [Next]_vars => HistoryInv'
<1>. SUFFICES ASSUME HistoryInv, [Next]_vars
              PROVE  HistoryInv'
  OBVIOUS
<1>1. CASE Run
  <2>1. CASE UNCHANGED <<history, pc>>
    BY <1>1, <2>1 DEF Run, HistoryInv, RunTyped, Standing, CallsAgree, Acting, config, tools
  <2>2. CASE history' = Append(history, Message("user", <<>>)) /\ pc' = "next"
    <3> DEFINE m == Message("user", <<>>)
    <3>1. m \in Turn /\ m.role = "user"
      <4>1. <<>> \in Seq(Nat)
        OBVIOUS
      <4>. QED
        BY <4>1 DEF Message, Turn
    <3>2. history \in Seq(Turn) /\ WellFormed(history) /\ Settled(history)
      BY <1>1 DEF Run, HistoryInv, RunTyped, Standing
    <3>3. history' = Append(history, m)
      BY <2>2
    <3>. HIDE DEF m
    <3>4. /\ Append(history, m) \in Seq(Turn) /\ WellFormed(Append(history, m))
          /\ Append(history, m) # <<>> /\ Append(history, m)[Len(Append(history, m))] = m
      BY <3>1, <3>2, AppendWellFormed
    <3>5. Ready(history')
      BY <3>1, <3>3, <3>4 DEF Ready
    <3>6. pc = "idle" /\ pc' = "next" /\ UNCHANGED <<keepLast, parallel, slot, spent, owing>>
      BY <1>1, <2>2 DEF Run, config, tools
    <3>. QED
      BY <3>3, <3>4, <3>5, <3>6 DEF HistoryInv, RunTyped, Standing, CallsAgree
  <2>. QED
    BY <1>1, <2>1, <2>2 DEF Run
<1>2. CASE Cancel \/ UNCHANGED vars
  <2>1. UNCHANGED <<keepLast, parallel, history, pc, uses, slot, results, spent, owing>>
    BY <1>2 DEF Cancel, vars, config, tools
  <2>. QED
    BY <2>1 DEF HistoryInv, RunTyped, Standing, CallsAgree, Acting
<1>3. ASSUME pc \in {"next", "asking"}, Return(history, TRUE),
             UNCHANGED <<config, tools, owing>>
      PROVE  HistoryInv'
  <2>1. /\ history \in Seq(Turn) /\ WellFormed(history) /\ Ready(history)
        /\ pc' = "idle" /\ UNCHANGED <<keepLast, parallel, slot, spent, owing>>
    BY <1>3 DEF HistoryInv, RunTyped, Standing, Return, config, tools
  <2>2. history # <<>> /\ Settled(history)
    BY <2>1 DEF Ready, Settled
  <2>3. history' \in Seq(Turn) /\ WellFormed(history') /\ Settled(history')
    BY <1>3, <2>1, <2>2, ReturnHistory
  <2>. QED
    BY <1>3, <2>1, <2>3 DEF HistoryInv, RunTyped, Standing, CallsAgree
<1>4. CASE NextStep
  <2>1. CASE pc' = "asking" /\ UNCHANGED history
    BY <1>4, <2>1 DEF NextStep, HistoryInv, RunTyped, Standing, CallsAgree, config, tools
  <2>2. CASE Return(history, TRUE)
    BY <1>3, <1>4, <2>2 DEF NextStep
  <2>. QED
    BY <1>4, <2>1, <2>2 DEF NextStep
<1>5. CASE ProviderFails
  BY <1>3, <1>5 DEF ProviderFails
<1>6. CASE Answer
  BY <1>6, AnswerHistoryInv
<1>7. CASE Observed
  BY <1>7, ObservedHistoryInv
<1>8. CASE \E i \in Calls : Tool(i)
  BY <1>8, ToolHistoryInv
<1>. QED
  BY <1>1, <1>2, <1>4, <1>5, <1>6, <1>7, <1>8 DEF Next, Loop

LEMMA SpecHistoryInv == Spec => []HistoryInv
BY InitHistoryInv, NextHistoryInv, PTL DEF Spec

\* The provider is only ever asked with a history that begins with a user's
\* message, ends with one or with tool results, and answers every tool call with
\* the message that follows (drive, observe, answerTruncatedTools, Session.Trim).
THEOREM AgentRequestsAreWellFormed == Spec => []RequestsAreWellFormed
<1>1. HistoryInv => RequestsAreWellFormed
  <2>. SUFFICES ASSUME HistoryInv, pc = "asking"
                PROVE  /\ history # <<>> /\ Role(history, 1) = "user"
                       /\ Role(history, Len(history)) \in {"user", "tool"}
                       /\ \A i \in DOMAIN history : Answered(history, i)
    BY DEF RequestsAreWellFormed
  <2>1. DOMAIN history = 1 .. Len(history)
    BY DEF HistoryInv, RunTyped
  <2>. QED
    BY <2>1 DEF HistoryInv, Standing, Ready, WellFormed, Role
<1>. QED
  BY <1>1, SpecHistoryInv, PTL

-----------------------------------------------------------------------------
(* What a run leaves behind.                                               *)

\* What is left when drive returns with h, the history or one message more, is
\* all of h from one of the user's messages on.
WholeTurns(h) ==
    \E turn \in UserTurns(h) :
        /\ Len(history') = Len(h) - turn + 1
        /\ \A i \in 1 .. Len(h) - turn + 1 : history'[i] = h[turn + i - 1]
        /\ turn = 1 \/ Len(history') >= keepLast

LEMMA ReturnIsWhole ==
    ASSUME keepLast \in Nat, NEW h \in Seq(Turn), h # <<>>, WellFormed(h),
           NEW failed, Return(h, failed)
    PROVE  WholeTurns(h)
<1>1. h[1].role = "user" /\ Len(h) \in Nat \ {0} /\ DOMAIN h = 1 .. Len(h)
  BY DEF WellFormed
<1>2. CASE keepLast > 0
  <2>1. keepLast \in Nat \ {0} /\ history' = Trim(h, keepLast)
    BY <1>2 DEF Return
  <2> DEFINE f == First(h, keepLast)
             t == Trim(h, keepLast)
  <2>2. /\ Len(t) = Len(h) - f + 1 /\ \A i \in 1 .. Len(t) : t[i] = h[f + i - 1]
        /\ f \in UserTurns(h) /\ (f = 1 \/ Len(h) - f + 1 >= keepLast)
    BY <1>1, <2>1, TrimKeeps, FirstIsUserTurn
  <2>. HIDE DEF f, t
  <2>3. /\ Len(t) = Len(h) - f + 1 /\ \A i \in 1 .. Len(h) - f + 1 : t[i] = h[f + i - 1]
        /\ f = 1 \/ Len(t) >= keepLast
    BY ONLY <2>2
  <2>4. history' = t
    BY <2>1 DEF t
  <2>. QED
    BY ONLY <2>2, <2>3, <2>4 DEF WholeTurns
<1>3. CASE ~(keepLast > 0)
  <2>1. history' = h
    BY <1>3 DEF Return
  <2>2. 1 \in UserTurns(h)
    BY <1>1 DEF UserTurns
  <2>3. Len(h) - 1 + 1 = Len(h) /\ \A i \in 1 .. Len(h) : 1 + i - 1 = i
    BY <1>1
  <2>. QED
    BY ONLY <2>1, <2>2, <2>3 DEF WholeTurns
<1>. QED
  BY <1>2, <1>3

\* The final answer is no user's message, and ends the turn it answers.
LEMMA WholeTurnsOfHistory ==
    ASSUME NEW m, m.role = "assistant", history \in Seq(Turn), m \in Turn,
           NEW h, WholeTurns(h), h = history \/ h = Append(history, m)
    PROVE  \E turn \in UserTurns(history) :
             LET kept == Len(history) - turn + 1
             IN  /\ Len(history') \in {kept, kept + 1}
                 /\ \A i \in 1 .. kept : history'[i] = history[turn + i - 1]
                 /\ turn = 1 \/ Len(history') >= keepLast
<1> DEFINE n == Len(history)
<1>1. n \in Nat /\ DOMAIN history = 1 .. n
  OBVIOUS
<1>2. PICK turn \in UserTurns(h) :
        /\ Len(history') = Len(h) - turn + 1
        /\ \A i \in 1 .. Len(h) - turn + 1 : history'[i] = h[turn + i - 1]
        /\ turn = 1 \/ Len(history') >= keepLast
  BY DEF WholeTurns
<1>3. /\ Len(h) \in {n, n + 1} /\ \A i \in 1 .. n : h[i] = history[i]
      /\ turn \in 1 .. n /\ turn \in UserTurns(history)
  <2>1. CASE h = history
    BY <1>1, <2>1 DEF UserTurns
  <2>2. CASE h = Append(history, m)
    <3>1. /\ Len(h) = n + 1 /\ \A i \in 1 .. n : h[i] = history[i]
          /\ h[n + 1] = m /\ DOMAIN h = 1 .. n + 1
      BY <2>2
    <3>2. turn \in 1 .. n + 1 /\ h[turn].role = "user"
      BY <3>1 DEF UserTurns
    <3>3. turn # n + 1
      BY <3>1, <3>2
    <3>4. turn \in 1 .. n /\ history[turn].role = "user"
      BY <1>1, <3>1, <3>2, <3>3
    <3>. QED
      BY <1>1, <3>1, <3>4 DEF UserTurns
  <2>. QED
    BY <2>1, <2>2
<1> DEFINE kept == n - turn + 1
<1>4. /\ Len(h) - turn + 1 \in {kept, kept + 1}
      /\ \A i \in 1 .. kept : /\ i \in 1 .. Len(h) - turn + 1
                            /\ turn + i - 1 \in 1 .. n
  BY ONLY <1>1, <1>3
<1>5. Len(history') \in {kept, kept + 1}
  BY <1>2, <1>4
<1>6. \A i \in 1 .. kept : history'[i] = history[turn + i - 1]
  BY ONLY <1>2, <1>3, <1>4
<1>. QED
  BY <1>2, <1>3, <1>5, <1>6

\* Whatever ends a run, what it leaves of the conversation begins at a user's
\* message, goes on to the end, and is no shorter than KeepLast unless nothing was
\* dropped (the deferred Trim of drive).
THEOREM AgentTurnsAreWhole == Spec => TurnsAreWhole
<1> DEFINE Whole ==
        pc # "idle" /\ pc' = "idle" =>
          \E turn \in UserTurns(history) :
            LET kept == Len(history) - turn + 1
            IN  /\ Len(history') \in {kept, kept + 1}
                /\ \A i \in 1 .. kept : history'[i] = history[turn + i - 1]
                /\ turn = 1 \/ Len(history') >= keepLast
<1>1. ASSUME HistoryInv, Next
      PROVE  Whole
  <2>. SUFFICES ASSUME pc # "idle", pc' = "idle"
                PROVE  Whole
    OBVIOUS
  <2>1. /\ keepLast \in Nat /\ history \in Seq(Turn) /\ WellFormed(history)
        /\ pc \in {"next", "asking"} => history # <<>>
    BY <1>1 DEF HistoryInv, RunTyped, Standing, Ready
  <2> DEFINE m == Message("assistant", [i \in 1 .. 0 |-> i])
  <2>2. m \in Turn /\ m.role = "assistant"
    <3>1. [i \in 1 .. 0 |-> i] \in Seq(Nat)
      OBVIOUS
    <3>. QED
      BY <3>1 DEF Message, Turn
  <2>3. CASE NextStep \/ ProviderFails
    <3>1. Return(history, TRUE) /\ history # <<>>
      BY <2>1, <2>3 DEF NextStep, ProviderFails
    <3>2. WholeTurns(history)
      BY <2>1, <3>1, ReturnIsWhole
    <3>. HIDE DEF m
    <3>. QED
      BY <2>1, <2>2, <3>2, WholeTurnsOfHistory
  <2>4. CASE Answer
    <3>1. Return(Append(history, m), FALSE) /\ pc = "asking"
      <4>1. PICK n \in 0 .. MaxCalls :
                n = 0 /\ Return(Append(history, Message("assistant", [i \in 1 .. n |-> i])), FALSE)
        BY <2>4 DEF Answer, Recover
      <4>. QED
        BY <2>4, <4>1 DEF Answer
    <3>2. Append(history, m) \in Seq(Turn) /\ Append(history, m) # <<>> /\ WellFormed(Append(history, m))
      BY <1>1, <3>1, FinalAnswer
    <3>. HIDE DEF m
    <3> DEFINE h == Append(history, m)
    <3>3. WholeTurns(h)
      <4>. HIDE DEF h
      <4>. QED
        BY <2>1, <3>1, <3>2, ReturnIsWhole DEF h
    <3>. QED
      BY <2>1, <2>2, <3>3, WholeTurnsOfHistory
  <2>5. ASSUME NEW i \in Calls, Tool(i)
        PROVE  pc' = pc
    BY <2>5 DEF Tool, Begin, LocalReturns, SubAnswered, SubEnds, SubAccounted
  <2>6. ~Run /\ ~Cancel /\ ~Observed
    BY DEF Run, Cancel, Observed
  <2>. QED
    BY <1>1, <2>3, <2>4, <2>5, <2>6 DEF Next, Loop
<1>2. HistoryInv /\ [Next]_vars => [Whole]_vars
  BY <1>1
<1>. QED
  BY <1>2, SpecHistoryInv, PTL DEF Spec, TurnsAreWhole

-----------------------------------------------------------------------------
(* The account.                                                            *)

\* What of a delegation is not yet in the account.
Open(i) == IF slot[i] = "done" THEN 0 ELSE spent[i]

\* f adds it up, call by call.
Sums(f) ==
    /\ f \in [0 .. MaxCalls -> Int]
    /\ f[0] = 0
    /\ \A n \in 1 .. MaxCalls : f[n] = f[n - 1] + Open(n)

\* owing is what the open delegations have spent, and no more.
AccountInv == \E f : Sums(f) /\ f[MaxCalls] = owing

\* With nothing open the sum is zero.
LEMMA EmptySum ==
    ASSUME NEW f, Sums(f), \A i \in Calls : Open(i) = 0
    PROVE  f[MaxCalls] = 0
<1>1. MaxCalls \in Nat
  BY AgentAssumption DEF AgentAssumption
<1> DEFINE odd == {n \in 0 .. MaxCalls : f[n] # 0}
           R == OpToRel(<, Nat)
<1>2. ASSUME odd # {}
      PROVE  FALSE
  <2>1. odd \subseteq Nat
    BY <1>1
  <2>2. \E x \in odd : \A y \in odd : ~(<<y, x>> \in R)
    <3>. HIDE DEF odd
    <3>. QED
      BY <1>2, <2>1, NatLessThanWellFounded, WFMin
  <2>3. PICK x \in odd : \A y \in odd : ~(y < x)
    BY <2>1, <2>2 DEF OpToRel
  <2>4. x \in 1 .. MaxCalls /\ x - 1 \in 0 .. MaxCalls /\ x - 1 < x
    BY <1>1, <2>3 DEF Sums
  <2>5. f[x - 1] = 0
    BY <2>3, <2>4
  <2>6. f[x] = f[x - 1] + 0
    BY <2>4 DEF Sums, Calls
  <2>. QED
    BY <2>3, <2>5, <2>6
<1>. QED
  BY <1>1, <1>2

\* When one call's share changes by d, so does the sum.
LEMMA ChangedSum ==
    ASSUME NEW f, Sums(f), NEW k \in Calls, NEW d \in Int,
           \A i \in Calls : Open(i) \in Int,
           Open(k)' = Open(k) + d,
           \A i \in Calls : i # k => Open(i)' = Open(i)
    PROVE  \E g : Sums(g)' /\ g[MaxCalls] = f[MaxCalls] + d
<1>1. MaxCalls \in Nat /\ Calls = 1 .. MaxCalls /\ k \in 1 .. MaxCalls
  BY AgentAssumption DEF AgentAssumption, Calls
<1> DEFINE g == [n \in 0 .. MaxCalls |-> IF n >= k THEN f[n] + d ELSE f[n]]
<1>2. g \in [0 .. MaxCalls -> Int] /\ g[0] = 0 /\ g[MaxCalls] = f[MaxCalls] + d
  <2>1. f \in [0 .. MaxCalls -> Int] /\ f[0] = 0
    BY DEF Sums
  <2>2. 0 \in 0 .. MaxCalls /\ ~(0 >= k) /\ MaxCalls \in 0 .. MaxCalls /\ MaxCalls >= k
    BY <1>1
  <2>3. \A n \in 0 .. MaxCalls : f[n] + d \in Int /\ f[n] \in Int
    BY <2>1
  <2>. QED
    BY <2>1, <2>2, <2>3
<1>3. ASSUME NEW n \in 1 .. MaxCalls
      PROVE  g[n] = g[n - 1] + Open(n)'
  <2>1. /\ n \in 0 .. MaxCalls /\ n - 1 \in 0 .. MaxCalls
        /\ f[n] = f[n - 1] + Open(n) /\ f[n - 1] \in Int /\ Open(n) \in Int
    BY <1>1 DEF Sums
  <2>2. CASE n = k
    <3>1. g[n] = f[n] + d /\ g[n - 1] = f[n - 1] /\ Open(n)' = Open(n) + d
      BY <1>1, <2>1, <2>2
    <3>. HIDE DEF g
    <3>. QED
      BY ONLY <2>1, <3>1, d \in Int
  <2>3. CASE n < k
    <3>1. g[n] = f[n] /\ g[n - 1] = f[n - 1] /\ Open(n)' = Open(n)
      BY <1>1, <2>1, <2>3
    <3>. HIDE DEF g
    <3>. QED
      BY ONLY <2>1, <3>1
  <2>4. CASE n > k
    <3>1. g[n] = f[n] + d /\ g[n - 1] = f[n - 1] + d /\ Open(n)' = Open(n)
      BY <1>1, <2>1, <2>4
    <3>. HIDE DEF g
    <3>. QED
      BY ONLY <2>1, <3>1, d \in Int
  <2>. QED
    BY <1>1, <2>2, <2>3, <2>4
<1>. HIDE DEF g
<1>4. Sums(g)'
  BY <1>2, <1>3 DEF Sums
<1>. QED
  BY <1>2, <1>4

LEMMA SameSum ==
    ASSUME AccountInv, owing' = owing, \A i \in Calls : Open(i)' = Open(i)
    PROVE  AccountInv'
<1>1. PICK f : Sums(f) /\ f[MaxCalls] = owing
  BY DEF AccountInv
<1>2. Sums(f)'
  BY <1>1 DEF Sums, Calls
<1>. QED
  BY <1>1, <1>2 DEF AccountInv

LEMMA ToolAccountInv ==
    ASSUME HistoryInv, AccountInv, NEW k \in Calls, Tool(k)
    PROVE  AccountInv'
<1>1. /\ slot \in [Calls -> {"none", "waiting", "running", "answered", "failed", "done"}]
      /\ spent \in [Calls -> Nat] /\ owing \in Int
      /\ \A i \in Calls : Open(i) \in Int
  BY DEF HistoryInv, RunTyped, Open
<1>2. PICK f : Sums(f) /\ f[MaxCalls] = owing
  BY DEF AccountInv
<1>3. slot[k] \notin {"none", "done"}
  BY DEF Tool, Begin, LocalReturns, SubAnswered, SubEnds, SubAccounted
<1>4. pc = "acting"
  BY <1>3 DEF HistoryInv, CallsAgree
<1>5. PICK n \in 1 .. MaxCalls : Acting(n)
  BY <1>4 DEF HistoryInv, CallsAgree
<1>6. k \in 1 .. n
  BY <1>3, <1>5, AgentAssumption DEF Acting, Calls, AgentAssumption
<1>7. CASE Begin(k) \/ LocalReturns(k) \/ SubEnds(k)
  <2>1. owing' = owing /\ spent' = spent /\ \A i \in Calls : i # k => slot'[i] = slot[i]
    BY <1>1, <1>7 DEF Begin, LocalReturns, SubEnds
  <2>2. slot'[k] # "done" \/ spent[k] = 0
    BY <1>1, <1>5, <1>6, <1>7 DEF Begin, LocalReturns, SubEnds, Acting
  <2>3. \A i \in Calls : Open(i)' = Open(i)
    BY <1>3, <2>1, <2>2 DEF Open
  <2>. QED
    BY <2>1, <2>3, SameSum
<1>8. CASE SubAnswered(k)
  <2>1. slot' = slot /\ owing' = owing + 1 /\ spent' = [spent EXCEPT ![k] = @ + 1]
    BY <1>8 DEF SubAnswered
  <2>2. Open(k)' = Open(k) + 1 /\ \A i \in Calls : i # k => Open(i)' = Open(i)
    BY <1>1, <1>3, <2>1 DEF Open
  <2>3. \E g : Sums(g)' /\ g[MaxCalls] = f[MaxCalls] + 1
    BY <1>1, <1>2, <2>2, ChangedSum
  <2>. QED
    BY <1>2, <2>1, <2>3 DEF AccountInv
<1>9. CASE SubAccounted(k)
  <2>1. slot' = [slot EXCEPT ![k] = "done"] /\ owing' = owing - spent[k] /\ spent' = spent
    BY <1>9 DEF SubAccounted
  <2> DEFINE d == 0 - spent[k]
  <2>2. d \in Int /\ owing' = owing + d
    BY <1>1, <2>1
  <2>3. Open(k)' = Open(k) + d /\ \A i \in Calls : i # k => Open(i)' = Open(i)
    BY <1>1, <1>3, <2>1 DEF Open
  <2>. HIDE DEF d
  <2>4. \E g : Sums(g)' /\ g[MaxCalls] = f[MaxCalls] + d
    BY <1>1, <1>2, <2>2, <2>3, ChangedSum
  <2>. QED
    BY <1>2, <2>2, <2>4 DEF AccountInv
<1>. QED
  BY <1>7, <1>8, <1>9 DEF Tool

LEMMA NextAccountInv == HistoryInv /\ AccountInv /\ [Next]_vars => AccountInv'
<1>. SUFFICES ASSUME HistoryInv, AccountInv, [Next]_vars
              PROVE  AccountInv'
  OBVIOUS
<1>1. ASSUME UNCHANGED <<slot, spent, owing>>
      PROVE  AccountInv'
  BY <1>1, SameSum DEF Open
<1>2. CASE Run \/ Cancel \/ NextStep \/ ProviderFails \/ UNCHANGED vars
  BY <1>1, <1>2 DEF Run, Cancel, NextStep, ProviderFails, vars, tools
<1>3. CASE Answer
  <2>1. CASE UNCHANGED tools
    BY <1>1, <1>3, <2>1 DEF Answer, tools
  <2>2. CASE spent' = [i \in Calls |-> 0]
    <3>1. \A i \in Calls : spent[i] = 0
      BY <1>3 DEF Answer, HistoryInv, CallsAgree
    <3>2. \A i \in Calls : Open(i)' = Open(i)
      BY <2>2, <3>1 DEF Open
    <3>. QED
      BY <1>3, <3>2, SameSum DEF Answer
  <2>. QED
    BY <1>3, <2>1, <2>2 DEF Answer, Recover
<1>4. CASE Observed
  <2>1. pc = "acting" /\ owing' = owing /\ spent' = [i \in Calls |-> 0]
    BY <1>4 DEF Observed
  <2>2. PICK n \in 1 .. MaxCalls : Acting(n)
    BY <2>1 DEF HistoryInv, CallsAgree
  <2>3. \A i \in Calls : i \in 1 .. n \/ slot[i] = "none"
    BY <2>2, AgentAssumption DEF Acting, Calls, AgentAssumption
  <2>4. \A i \in 1 .. n : slot[i] = "done"
    BY <1>4, <2>2 DEF Observed, Acting
  <2>5. \A i \in Calls : Open(i) = 0
    BY <2>2, <2>3, <2>4 DEF Open, Acting
  <2>6. \A i \in Calls : Open(i)' = Open(i)
    BY <2>1, <2>5 DEF Open
  <2>. QED
    BY <2>1, <2>6, SameSum
<1>5. CASE \E i \in Calls : Tool(i)
  BY <1>5, ToolAccountInv
<1>. QED
  BY <1>2, <1>3, <1>4, <1>5 DEF Next, Loop

LEMMA InitAccountInv == Init => AccountInv
<1>. SUFFICES ASSUME Init
              PROVE  AccountInv
  OBVIOUS
<1>1. MaxCalls \in Nat
  BY AgentAssumption DEF AgentAssumption
<1> DEFINE f == [n \in 0 .. MaxCalls |-> 0]
<1>2. \A i \in Calls : Open(i) = 0
  BY DEF Init, Open
<1>3. Sums(f) /\ f[MaxCalls] = 0
  BY <1>1, <1>2 DEF Sums, Calls
<1>4. owing = 0
  BY DEF Init
<1>. QED
  BY <1>3, <1>4 DEF AccountInv

\* Between runs the Orchestrator's account holds every provider call its
\* delegations made, those that failed and those that ran side by side included
\* (addUsage in orchestrator.go).
THEOREM AgentDelegationsAreAccounted == Spec => []DelegationsAreAccounted
<1>1. HistoryInv /\ AccountInv => DelegationsAreAccounted
  <2>. SUFFICES ASSUME HistoryInv, AccountInv, pc = "idle"
                PROVE  owing = 0
    BY DEF DelegationsAreAccounted
  <2>1. \A i \in Calls : Open(i) = 0
    BY DEF HistoryInv, CallsAgree, Open
  <2>. QED
    BY <2>1, EmptySum DEF AccountInv
<1>. QED
  BY <1>1, InitAccountInv, NextAccountInv, SpecHistoryInv, PTL DEF Spec
=============================================================================
