------------------------------- MODULE Survey -------------------------------
(***************************************************************************)
(* How an agent finds out what its machine can do before it joins: the      *)
(* sample clips (probe_samples.rs), the trial decodes (probe_caps.rs), the  *)
(* rename probe (preflight.rs) and the document they make (survey.rs),      *)
(* registered with the server (session.rs).                                 *)
(*                                                                          *)
(* The samples stay in the agent's own work directory across its restarts,  *)
(* while the machine may change; the rename probe leaves its two files in   *)
(* the mount, which every agent that mounts the library shares, and each    *)
(* of its file operations is a step.  ffmpeg is external: what it lists,    *)
(* encodes and decodes is a Machine.                                        *)
(* An operator named Mut... is a mutated form of the definition after it.   *)
(***************************************************************************)
EXTENDS Capability, FiniteSets

CONSTANTS
    Agents,
    Samples,        \* CANDIDATE_SAMPLES: the streams of the clips, in order
    EncodersFor,    \* encoders_for: for a codec, most faithful first
    Machines,       \* what lists, emits, decodes: see MachineOK
    Frames,         \* TRIAL_SAMPLE_FRAMES
    Jobs,           \* the jobs whose placement is looked at
    MaxUpgrades,    \* bound: machines exchanged between two processes
    MaxTrouble,     \* bound: how much goes wrong in all
    Trouble         \* what may go wrong

Faults == {"die", "encode", "trial", "hang", "setup"}
NoClip == [codec |-> "none", profile |-> "none", depth |-> 0]
Streams == {Samples[i] : i \in DOMAIN Samples}

\* ffprobe's own codec and profile, exactly.
IsUsable(clip, spec) == clip.codec = spec.codec /\ clip.profile = spec.profile

\* lists: names ffmpeg lists.  emits: what each encoder makes of each stream it
\* is asked for.  hard, soft: streams NVDEC decodes, and those ffmpeg quietly
\* decodes on the CPU instead.  decodes: codecs and depths it decodes itself.
\* An encoder is told the pixel format, and so the depth, of the stream it is
\* asked for: what it makes with that codec and profile is that stream.
MachineOK(m) ==
    /\ m.cuda \in BOOLEAN /\ m.hard \cap m.soft = {}
    /\ \A s \in Streams : \A i \in DOMAIN EncodersFor[s.codec] :
           EncodersFor[s.codec][i] \in DOMAIN m.emits
    /\ \A e \in DOMAIN m.emits, s \in Streams :
           /\ s \in DOMAIN m.emits[e]
           /\ IsUsable(m.emits[e][s], s) => m.emits[e][s] = s

\* The encoders that next_job asks for.
JobOK(job) ==
    \/ job.kind = "audio" /\ job.encoder \in Encoders
    \/ job.kind = "video" /\ job.encoder \in {"hevc_nvenc", "libx265", "libx264"}

ASSUME SurveyAssumption ==
    /\ Samples \in Seq(Streams) /\ \A s \in Streams : ~IsUsable(NoClip, s)
    /\ \A s \in Streams : DOMAIN EncodersFor[s.codec] \subseteq Nat
    /\ \A m \in Machines : MachineOK(m)
    /\ \A job \in Jobs : JobOK(job)
    /\ Frames \in Nat \ {0} /\ MaxUpgrades \in Nat /\ MaxTrouble \in Nat
    /\ Trouble \subseteq Faults

VARIABLES
    machine,    \* the machine under each agent
    transport,  \* how the operator has each agent reach the media
    clips,      \* the sample directory of each agent
    proc,       \* what each agent's process is doing
    mount,      \* the library's file system, and the probe's two files
    registry,   \* what the server knows of each agent
    upgrades, trouble

vars == <<machine, transport, clips, proc, mount, registry, upgrades, trouble>>

Idle == [pc |-> "off", left |-> <<>>, decoders |-> <<>>,
         moved |-> FALSE, verdicts |-> <<>>, upset |-> FALSE]
Unknown == [cap |-> Refused]

At(a, pc) == proc[a].pc = pc

Happens(kind) ==
    /\ kind \in Trouble /\ trouble < MaxTrouble
    /\ trouble' = trouble + 1

Init ==
    /\ machine \in [Agents -> Machines]
    /\ transport \in [Agents -> {"mount", "stream"}]
    /\ clips = [a \in Agents |-> [s \in Streams |-> NoClip]]
    /\ proc = [a \in Agents |-> Idle]
    /\ mount \in [rename : {"atomic", "refuses", "keeps"},
                  dest : {"none"}, src : {"none"}, held : {{}}]
    /\ registry = [a \in Agents |-> Unknown]
    /\ upgrades = 0 /\ trouble = 0

-----------------------------------------------------------------------------
(* The sample clips.                                                        *)

Start(a) ==
    /\ At(a, "off")
    /\ proc' = [proc EXCEPT ![a] = [Idle EXCEPT !.pc = "samples", !.left = Samples]]
    /\ UNCHANGED <<machine, transport, clips, mount, registry, upgrades, trouble>>

\* The first encoder that is listed, runs and complies; else no clip.
Made(m, spec) ==
    LET encoders == EncodersFor[spec.codec]
        able == {i \in DOMAIN encoders : /\ encoders[i] \in m.lists
                                         /\ IsUsable(m.emits[encoders[i]][spec], spec)}
    IN  IF able = {} THEN NoClip ELSE m.emits[encoders[First(able)]][spec]

Past(a, clip, upset) ==
    /\ clips' = [clips EXCEPT ![a][Head(proc[a].left)] = clip]
    /\ proc' = [proc EXCEPT ![a].left = Tail(@), ![a].upset = @ \/ upset]

\* ensure, one clip at a time: what is there and still right is kept, the rest
\* is made anew beside it and renamed onto it.
Ensure(a) ==
    /\ At(a, "samples") /\ proc[a].left # <<>>
    /\ LET spec == Head(proc[a].left)  there == clips[a][spec]  made == Made(machine[a], spec) IN
       \/ IsUsable(there, spec) /\ Past(a, there, FALSE) /\ UNCHANGED trouble
       \/ /\ ~IsUsable(there, spec)
          /\ Past(a, IF made = NoClip THEN there ELSE made, FALSE)
          /\ UNCHANGED trouble
       \/ ~IsUsable(there, spec) /\ Happens("encode") /\ Past(a, there, TRUE)
    /\ UNCHANGED <<machine, transport, mount, registry, upgrades>>

-----------------------------------------------------------------------------
(* The trial decodes.                                                       *)

\* SampleSet: the clips that are there and right.
Have(a) ==
    Selected(Samples, {i \in DOMAIN Samples : IsUsable(clips[a][Samples[i]], Samples[i])})

\* One for each codec and depth, on the first clip of it, whatever its profile.
SoftwareTrials(have) ==
    LET firsts == Selected(have, {i \in DOMAIN have :
                      \A j \in 1 .. i - 1 : \/ have[j].codec # have[i].codec
                                            \/ have[j].depth # have[i].depth})
    IN  [i \in DOMAIN firsts |-> LET s == firsts[i] IN
            [triple |-> Triple(s.codec, "", s.depth, "software"), on |-> s]]

\* One for each clip, if ffmpeg lists the cuda path.
NvdecTrials(have, cuda) ==
    IF cuda THEN [i \in DOMAIN have |-> LET s == have[i] IN
                     [triple |-> Triple(s.codec, s.profile, s.depth, "nvdec"), on |-> s]]
    ELSE <<>>

\* trial_decoders, when the clips are done.
Trials(a) ==
    /\ At(a, "samples") /\ proc[a].left = <<>>
    /\ proc' = [proc EXCEPT ![a].pc = "trials",
                   ![a].left = SoftwareTrials(Have(a)) \o NvdecTrials(Have(a), machine[a].cuda)]
    /\ UNCHANGED <<machine, transport, clips, mount, registry, upgrades, trouble>>

Ending(exit, marker, frames) == [exit |-> exit, marker |-> marker, frames |-> frames]

\* A decode on the path that was asked for, on the CPU behind its back, or none.
Decode(m, kind, stream) ==
    IF \/ kind = "software" /\ <<stream.codec, stream.depth>> \in m.decodes
       \/ kind = "nvdec" /\ stream \in m.hard
    THEN Ending("zero", FALSE, Frames)
    ELSE IF kind = "nvdec" /\ stream \in m.soft THEN Ending("zero", TRUE, Frames)
    ELSE Ending("code", FALSE, 0)

MutClassify(o) == \* frames before the marker
    IF o.exit = "zero" /\ o.frames >= Frames THEN "ok"
    ELSE IF o.exit = "zero" /\ o.marker THEN "soft" ELSE "fail"

\* A signal or another exit, then the fallback, then the frames.
Classify(o) ==
    IF o.exit # "zero" THEN "fail"
    ELSE IF o.marker THEN "soft"
    ELSE IF o.frames >= Frames THEN "ok" ELSE "fail"

Tried(a, status, upset) ==
    proc' = [proc EXCEPT ![a].pc = "trials", ![a].left = Tail(@), ![a].upset = @ \/ upset,
                         ![a].decoders = Append(@, [triple |-> Head(proc[a].left).triple,
                                                    status |-> status])]

\* run_one: a decode that ends by itself ...
Try(a) ==
    /\ At(a, "trials") /\ proc[a].left # <<>>
    /\ LET t == Head(proc[a].left) IN
       Tried(a, Classify(Decode(machine[a], t.triple.kind, clips[a][t.on])), FALSE)
    /\ UNCHANGED <<machine, transport, clips, mount, registry, upgrades, trouble>>

\* ... one that is killed, or ends early with an exit of zero ...
TryDisturbed(a) ==
    /\ At(a, "trials") /\ proc[a].left # <<>> /\ Happens("trial")
    /\ \E o \in {Ending("signal", FALSE, 0), Ending("zero", FALSE, Frames - 1)} :
           Tried(a, Classify(o), TRUE)
    /\ UNCHANGED <<machine, transport, clips, mount, registry, upgrades>>

\* ... and one that never ends.
Hang(a) ==
    /\ At(a, "trials") /\ proc[a].left # <<>> /\ Happens("hang")
    /\ proc' = [proc EXCEPT ![a].pc = "hung", ![a].upset = TRUE]
    /\ UNCHANGED <<machine, transport, clips, mount, registry, upgrades>>

TimeOut(a) ==
    /\ At(a, "hung")
    /\ Tried(a, "fail", TRUE)
    /\ UNCHANGED <<machine, transport, clips, mount, registry, upgrades, trouble>>

-----------------------------------------------------------------------------
(* The rename probe of each mount; there is one, the library.               *)

Mounts(a) == IF transport[a] = "mount" THEN <<"library">> ELSE <<>>

\* The document is built and hashed; then the mounts are probed.
Document(a) ==
    /\ At(a, "trials") /\ proc[a].left = <<>>
    /\ proc' = [proc EXCEPT ![a].pc = IF Mounts(a) = <<>> THEN "register" ELSE "dest"]
    /\ UNCHANGED <<machine, transport, clips, mount, registry, upgrades, trouble>>

Step(a, from, to, after) ==
    /\ At(a, from) /\ mount' = after
    /\ proc' = [proc EXCEPT ![a].pc = to]
    /\ UNCHANGED <<machine, transport, clips, registry, upgrades, trouble>>

Judge(a, seen) == [proc EXCEPT ![a].pc = "undest", ![a].verdicts = <<seen>>]

WriteDest(a) == Step(a, "dest", "src", [mount EXCEPT !.dest = "OLD"])
WriteSrc(a)  == Step(a, "src", "open", [mount EXCEPT !.src = "NEW"])

\* The destination is held open across the rename.
Hold(a) == /\ mount.dest # "none"
           /\ Step(a, "open", "rename", [mount EXCEPT !.held = @ \cup {a}])

\* The files could not be made: that says nothing about rename.
SetupFails(a) ==
    /\ proc[a].pc \in {"dest", "src", "open"}
    /\ IF At(a, "open") /\ mount.dest = "none" THEN UNCHANGED trouble ELSE Happens("setup")
    /\ proc' = [Judge(a, "untested") EXCEPT ![a].upset = TRUE]
    /\ UNCHANGED <<machine, transport, clips, mount, registry, upgrades>>

\* What the file system makes of it: with somebody holding the destination,
\* one refuses and one says yes and leaves the old contents there.
Rename(a) ==
    LET over == mount.held # {} /\ mount.rename # "atomic"
        ok   == mount.src # "none" /\ ~(over /\ mount.rename = "refuses")
    IN
    /\ At(a, "rename")
    /\ mount' = IF ~ok THEN mount
                ELSE IF over THEN [mount EXCEPT !.src = "none"]
                ELSE [mount EXCEPT !.dest = mount.src, !.src = "none", !.held = {}]
    /\ proc' = [proc EXCEPT ![a].pc = "read", ![a].moved = ok]
    /\ UNCHANGED <<machine, transport, clips, registry, upgrades, trouble>>

MutReadBack(a) == \* what rename said
    /\ At(a, "read")
    /\ mount' = [mount EXCEPT !.held = @ \ {a}]
    /\ proc' = Judge(a, IF proc[a].moved THEN "atomic" ELSE "not")
    /\ UNCHANGED <<machine, transport, clips, registry, upgrades, trouble>>

\* It passes if rename said so and the new contents are there.
ReadBack(a) ==
    /\ At(a, "read")
    /\ mount' = [mount EXCEPT !.held = @ \ {a}]
    /\ proc' = Judge(a, IF proc[a].moved /\ mount.dest = "NEW" THEN "atomic" ELSE "not")
    /\ UNCHANGED <<machine, transport, clips, registry, upgrades, trouble>>

\* A file that somebody holds cannot be removed where rename is refused.
RemoveDest(a) ==
    Step(a, "undest", "unsrc",
         IF mount.rename = "refuses" /\ mount.held # {} THEN mount
         ELSE [mount EXCEPT !.dest = "none", !.held = {}])

RemoveSrc(a) == Step(a, "unsrc", "register", [mount EXCEPT !.src = "none"])

-----------------------------------------------------------------------------
(* The document, and the registration.                                      *)

Listed(m, name) == name \in m.lists

ClassesFor(encoders) ==
    {"audio"} \cup (IF encoders \cap {"libx265", "libx264"} # {} THEN {"cpu"} ELSE {})
              \cup (IF "hevc_nvenc" \in encoders THEN {"gpu"} ELSE {})

Surveyed(a) ==
    LET encoders == {e \in Encoders : Listed(machine[a], e)} IN
    [transport |-> transport[a], classes |-> ClassesFor(encoders), encoders |-> encoders,
     muxers |-> machine[a].muxers \cap Muxers, decoders |-> proc[a].decoders,
     mounts |-> Mounts(a)]

\* The row: what the server made of the document, and whether it may install.
\* machine and upset are history: what was surveyed, and whether in peace.
Register(a) ==
    LET cap == FromWire(ToWire(Surveyed(a))) IN
    /\ At(a, "register")
    /\ proc' = [proc EXCEPT ![a] = [Idle EXCEPT !.pc = "registered"]]
    /\ registry' = IF cap = Refused THEN registry
                   ELSE [registry EXCEPT ![a] =
                            [cap |-> cap,
                             eligible |-> CommitEligible(transport[a], proc[a].verdicts),
                             verdicts |-> proc[a].verdicts,
                             machine |-> machine[a], upset |-> proc[a].upset]]
    /\ UNCHANGED <<machine, transport, clips, mount, upgrades, trouble>>

-----------------------------------------------------------------------------
(* What goes wrong, and what changes.                                       *)

\* The process ends, wherever it is; what it held is let go of.
Die(a) ==
    /\ ~At(a, "off") /\ Happens("die")
    /\ proc' = [proc EXCEPT ![a] = Idle]
    /\ mount' = [mount EXCEPT !.held = @ \ {a}]
    /\ UNCHANGED <<machine, transport, clips, registry, upgrades>>

\* Another ffmpeg or another card, while no process of the agent runs.
Upgrade(a) ==
    /\ At(a, "off") /\ upgrades < MaxUpgrades
    /\ upgrades' = upgrades + 1
    /\ \E m \in Machines \ {machine[a]} : machine' = [machine EXCEPT ![a] = m]
    /\ UNCHANGED <<transport, clips, proc, mount, registry, trouble>>

-----------------------------------------------------------------------------
Probe(a) ==
    \/ WriteDest(a) \/ WriteSrc(a) \/ Hold(a) \/ Rename(a) \/ ReadBack(a)
    \/ RemoveDest(a) \/ RemoveSrc(a)

Process(a) ==
    \/ Ensure(a) \/ Trials(a) \/ Try(a) \/ TimeOut(a) \/ Document(a)
    \/ Probe(a) \/ SetupFails(a) \/ Register(a)

Next == \E a \in Agents : \/ Start(a) \/ Process(a) \/ TryDisturbed(a) \/ Hang(a)
                          \/ Die(a) \/ Upgrade(a)

\* A process that was started goes on; ffmpeg, except in Hang, ends.
Fairness == \A a \in Agents : WF_vars(Process(a))

Spec == Init /\ [][Next]_vars /\ Fairness

-----------------------------------------------------------------------------
(* Properties.                                                              *)

Known(a) == registry[a] # Unknown

(* Every variable has its type: a process probes only the mount it offers,  *)
(* holds the destination only between its open and its read, and what the   *)
(* server keeps of an agent is a document it understood.                    *)
TypeOK ==
    /\ machine \in [Agents -> Machines] /\ transport \in [Agents -> {"mount", "stream"}]
    /\ \A a \in Agents, s \in Streams : clips[a][s] \in Streams \cup {NoClip}
    /\ mount.dest \in {"none", "OLD", "NEW"} /\ mount.src \in {"none", "NEW"}
    /\ mount.held \subseteq {a \in Agents : proc[a].pc \in {"rename", "read"}}
    /\ \A a \in Agents :
           /\ Len(proc[a].verdicts) <= Len(Mounts(a))
           /\ Known(a) => /\ registry[a].cap # Refused
                          /\ \A i \in DOMAIN registry[a].cap.decoders :
                                 registry[a].cap.decoders[i].status \in {"ok", "soft", "fail"}
    /\ upgrades \in 0 .. MaxUpgrades /\ trouble \in 0 .. MaxTrouble

Truly(m, d) ==
    \E s \in Streams : /\ s.codec = d.triple.codec /\ s.depth = d.triple.depth
                       /\ IF d.triple.kind = "software"
                          THEN <<s.codec, s.depth>> \in m.decodes
                          ELSE s.profile = d.triple.profile /\ s \in m.hard

(* probe_caps.rs:17-26, probe_samples.rs:27-33: a decode that the server    *)
(* has as verified is one that this machine does, on that path and for that *)
(* profile - whatever clips an earlier machine left, whatever disturbed the *)
(* trials and whatever ffmpeg did behind its exit code.                     *)
VerdictsAreTrue ==
    \A a \in Agents : Known(a) =>
        LET d == registry[a].cap.decoders IN
        \A i \in DOMAIN d : d[i].status = "ok" => Truly(registry[a].machine, d[i])

RunsOn(m, job) ==
    /\ job.encoder \in m.lists /\ "matroska" \in m.muxers
    /\ job.kind = "video" => <<job.codec, job.depth>> \in m.decodes

ClipCanBeMade(m, job) ==
    \E s \in Streams : /\ s.codec = job.codec /\ s.depth = job.depth
                       /\ Made(m, s) # NoClip

(* survey.rs:9-13: an agent is only ever offered a job its machine can run, *)
(* by the document alone.  And it is offered every job it can run for which *)
(* a clip could be made, when nothing disturbed its survey:                 *)
(* convert.rs:366-369, the fleet does not connect, report healthy and       *)
(* dispatch nothing.                                                        *)
OffersMatch ==
    \A a \in Agents, job \in Jobs :
        Known(a) =>
            LET m == registry[a].machine
                offered == Satisfies(registry[a].cap, Requirements(job))
            IN  /\ offered => RunsOn(m, job)
                /\ /\ ~registry[a].upset /\ RunsOn(m, job)
                   /\ job.kind = "video" => ClipCanBeMade(m, job)
                   => offered

(* preflight.rs:113-134: what a probe says of the mount is what renaming    *)
(* there does: it passes only where rename replaces an open file, and fails *)
(* only where it does not - a probe that was cut short leaves its files to  *)
(* the next, and one that could not make them says neither.                 *)
JudgedByRename ==
    \A a \in Agents, i \in 1 .. 1 :
        i \in DOMAIN proc[a].verdicts =>
            /\ proc[a].verdicts[i] = "atomic" => mount.rename = "atomic"
            /\ proc[a].verdicts[i] = "not" => mount.rename # "atomic"

(* probe_caps.rs:211-213: a decode that hangs does not keep the agent from  *)
(* registering.                                                             *)
Registers ==
    \A a \in Agents : At(a, "samples") ~> (At(a, "registered") \/ At(a, "off"))
=============================================================================
