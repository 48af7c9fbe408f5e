------------------------------ MODULE MCSurvey ------------------------------
(* Survey on a CPU node, the Turing card of probe_caps.rs and a node that  *)
(* reaches H.264 through libopenh264 alone.                                 *)
EXTENDS Survey, TLC

High   == [codec |-> "h264", profile |-> "High", depth |-> 8]
Base   == [codec |-> "h264", profile |-> "Constrained Baseline", depth |-> 8]
High10 == [codec |-> "h264", profile |-> "High 10", depth |-> 10]
Av1    == [codec |-> "av1", profile |-> "Main", depth |-> 8]

FourClips == <<High, Base, High10, Av1>>
OneClip   == <<High>>

Faithful == [h264 |-> <<"libx264", "libopenh264">>, av1 |-> <<"libsvtav1">>]

\* libx264 and libsvtav1 comply; libopenh264 makes Baseline of everything.
Emits == [libx264 |-> [s \in Streams |-> s], libsvtav1 |-> [s \in Streams |-> s],
          libopenh264 |-> [s \in Streams |-> Base]]

Cpu == [lists |-> {"libx264", "libx265", "libsvtav1", "aac"}, emits |-> Emits,
        muxers |-> {"matroska", "mp4"}, cuda |-> FALSE, hard |-> {}, soft |-> {},
        decodes |-> {<<"h264", 8>>, <<"h264", 10>>, <<"av1", 8>>}]
Turing == [Cpu EXCEPT !.lists = {"libx264", "hevc_nvenc", "libsvtav1", "libfdk_aac"},
                      !.cuda = TRUE, !.hard = {High, Base}, !.soft = {High10}]
Plain == [Cpu EXCEPT !.lists = {"libopenh264", "hevc_nvenc", "eac3"}, !.cuda = TRUE,
                     !.hard = {Base}, !.decodes = {<<"h264", 8>>}]

Three      == {Cpu, Turing, Plain}
OneMachine == {Cpu}

SomeJobs ==
    {[kind |-> "audio", encoder |-> e, codec |-> "none", depth |-> 0] : e \in {"aac", "eac3"}}
    \cup {[kind |-> "video", encoder |-> e, codec |-> s.codec, depth |-> s.depth] :
             e \in {"libx265", "hevc_nvenc"}, s \in {High, High10, Av1}}
=============================================================================
