------------------------------- MODULE Media -------------------------------
(***************************************************************************)
(* What the program knows of a media file: ffprobe's report parsed         *)
(* (crates/transcodarr-core/src/probe.rs), the facts a decision may use    *)
(* and the signature over them (facts.rs), and the ordered gates that      *)
(* judge an encode (validate.rs).                                          *)
(*                                                                         *)
(* A report is what ffprobe prints of a file.  Names are members of small  *)
(* sets: a profile is "plain" or one of the spellings the code looks for   *)
(* ("hdr" holds an HDR transfer name, "dv7" and "dv5" name a Dolby Vision  *)
(* profile number, "dvhe.07" names Dolby Vision without a number the       *)
(* parser can read), a title is "plain" or "atmos".  Numbers that may be   *)
(* missing are Missing; times are in seconds.                              *)
(***************************************************************************)
EXTENDS Integers, Selection

CONSTANTS SmallMax,        \* SizeThresholds: below it a file is Small
          MediumMax        \* and below this one it is Medium

ASSUME ThresholdsAssumption == SmallMax \in Nat /\ MediumMax \in Nat /\ SmallMax <= MediumMax

Missing == -1

----------------------------------------------------------------------------
(* ffprobe's report, parsed.                                               *)

\* The kind of a stream: anything unrecognised is never video or audio.
KindOf(type) == IF type \in {"video", "audio", "subtitle"} THEN type ELSE "other"

\* One parsed stream.  A sample depth that is no number counts as missing.
ParsedStream(s) ==
    [kind |-> KindOf(s.type), codec |-> s.codec, profile |-> s.profile, pix |-> s.pix,
     bits |-> IF s.bits \in Nat THEN s.bits ELSE Missing, title |-> s.title]

\* Parsing fails on malformed output only; a missing field never does.
Parses(report) == report.wellFormed

ParsedProbe(report) ==
    [container |-> report.container, duration |-> report.duration, rate |-> report.rate,
     streams   |-> [i \in DOMAIN report.streams |-> ParsedStream(report.streams[i])]]

\* What unwrap_or_default leaves of an output that could not be probed.
EmptyProbe == [container |-> "", duration |-> Missing, rate |-> Missing, streams |-> <<>>]

StreamsOf(probe, kind) ==
    Selected(probe.streams, {i \in DOMAIN probe.streams : probe.streams[i].kind = kind})
CountOf(probe, kind) == Len(StreamsOf(probe, kind))

\* The stream a decision is about: the first video stream, if there is one.
HasVideo(probe)     == StreamsOf(probe, "video") # <<>>
PrimaryVideo(probe) == StreamsOf(probe, "video")[1]

\* The reported depth if there is one, otherwise what the pixel format says;
\* an unknown format counts as 8 bit.
BitDepthOf(pix, bits) ==
    CASE bits \in 0..8                     -> 8
      [] bits \in 9..10                    -> 10
      [] bits > 10                         -> 12
      [] bits = Missing /\ pix = "12le"    -> 12
      [] bits = Missing /\ pix = "10le"    -> 10
      [] OTHER                             -> 8

----------------------------------------------------------------------------
(* Facts.                                                                  *)

SizeBucketFor(bytes) == CASE bytes < SmallMax  -> "Small"
                          [] bytes < MediumMax -> "Medium"
                          [] OTHER             -> "Large"

\* HDR is looked for in the profile and in the pixel format only.
IsHdr(probe) == /\ HasVideo(probe)
                /\ \/ PrimaryVideo(probe).profile = "hdr"
                   \/ PrimaryVideo(probe).pix = "hdr"

\* The Dolby Vision profile: 0 when it is named without a readable number.
DoviProfile(probe) ==
    IF ~HasVideo(probe) THEN Missing
    ELSE CASE PrimaryVideo(probe).profile = "dv7"     -> 7
           [] PrimaryVideo(probe).profile = "dv5"     -> 5
           [] PrimaryVideo(probe).profile = "dvhe.07" -> 0
           [] OTHER                                   -> Missing

\* Object audio is recognised by the title of a track.
HasObjectAudio(probe) ==
    \E i \in DOMAIN probe.streams : /\ probe.streams[i].kind = "audio"
                                    /\ probe.streams[i].title = "atmos"

\* derive_facts: what a decision may depend on, from a probe and the size the
\* file had when the probe was planned.
DeriveFacts(probe, bytes) ==
    LET video  == HasVideo(probe)
        audios == StreamsOf(probe, "audio")
    IN [container   |-> probe.container,
        duration    |-> probe.duration,
        size        |-> bytes,
        rate        |-> probe.rate,
        codec       |-> IF video THEN PrimaryVideo(probe).codec ELSE "none",
        profile     |-> IF video THEN PrimaryVideo(probe).profile ELSE "none",
        depth       |-> IF video THEN BitDepthOf(PrimaryVideo(probe).pix, PrimaryVideo(probe).bits)
                                 ELSE Missing,
        hdr         |-> IsHdr(probe),
        dovi        |-> DoviProfile(probe) # Missing,
        doviProfile |-> DoviProfile(probe),
        objectAudio |-> HasObjectAudio(probe),
        audio       |-> [i \in DOMAIN audios |-> audios[i].codec],
        audioCount  |-> Len(audios),
        subtitles   |-> CountOf(probe, "subtitle")]

\* content_sig: the fields a plan's signature covers, equal exactly when the
\* signatures are.  Size, duration, bit rate and object audio are not among them.
ContentSig(f) == <<f.container, f.codec, f.profile, f.depth, f.hdr, f.dovi, f.doviProfile,
                   f.audio, f.subtitles>>

MutVideoIsEncodable(f) == ~f.hdr \* Dolby Vision is forgotten

\* HDR and Dolby Vision video is never re-encoded.
VideoIsEncodable(f) == ~f.hdr /\ ~f.dovi

\* Object audio and the Dolby Vision profiles 7 and unknown exclude a file
\* from all work.
IsExcluded(f) == f.objectAudio \/ f.doviProfile \in {7, 0}

----------------------------------------------------------------------------
(* Validation.                                                             *)

\* The gates in the order they run.  Size is last.
GateOrder == <<"ExitCode", "Probe", "Duration", "Streams", "Size">>

\* Whether one gate rejects an output, given its probe, its exit code and its
\* size.
GateFails(gate, spec, probe, exit, bytes) ==
    CASE gate = "ExitCode" -> exit # 0
      [] gate = "Probe"    -> probe.duration = Missing \/ probe.streams = <<>>
      [] gate = "Duration" -> \/ spec.duration - probe.duration > spec.maxShorter
                              \/ probe.duration - spec.duration > spec.maxLonger
      [] gate = "Streams"  -> \/ CountOf(probe, "audio") < spec.audioStreams
                              \/ CountOf(probe, "subtitle") < spec.subtitleStreams
      [] gate = "Size"     -> /\ spec.requireSmaller
                              /\ bytes > (spec.sourceBytes * 98) \div 100

\* validate_output: the first gate that fails is the verdict, and no later
\* gate is consulted.
ValidateOutput(spec, probe, exit, bytes) ==
    LET failing == {i \in DOMAIN GateOrder : GateFails(GateOrder[i], spec, probe, exit, bytes)}
    IN IF failing = {} THEN "Passed"
       ELSE GateOrder[First(failing)]
============================================================================
