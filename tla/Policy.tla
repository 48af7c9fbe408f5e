------------------------------- MODULE Policy -------------------------------
(***************************************************************************)
(* The rules engine of crates/transcodarr-core/src/policy.rs: what a file  *)
(* is owed, the encode that does it, the gates its output must pass and    *)
(* the requirements of the job (with plan.rs and capability.rs).  All of   *)
(* it is a function of a file's facts and a policy, a sequence of rules.   *)
(*                                                                         *)
(* A predicate that a rule leaves out is the empty set for a list, 0 for a *)
(* minimum and "any" for a flag.                                           *)
(***************************************************************************)
EXTENDS Media

CONSTANTS MaxShorterCap,   \* the absolute cap on how much may be missing: 5 s
          MaxLonger        \* how much longer an output may be: 2 s

ASSUME ToleranceAssumption == MaxShorterCap \in Nat /\ MaxLonger \in Nat

AudioEncoders == {"eac3", "ac3", "aac"}
VideoEncoders == {"hevc_nvenc", "libx265", "libx264"}
EncoderIds    == AudioEncoders \cup VideoEncoders \cup {"copy"}

\* Which codec a stream has after an encoder wrote it (ffmpeg's side).
CodecWrittenBy == [hevc_nvenc |-> "hevc", libx265 |-> "hevc", libx264 |-> "h264",
                   eac3 |-> "eac3", ac3 |-> "ac3", aac |-> "aac"]

\* Audio predicates match substrings: pcm covers every PCM codec, and dts and
\* ac3 are inside longer names.
Contains(codec, wanted) == codec = wanted \/ <<codec, wanted>> \in
    {<<"pcm_s24le", "pcm">>, <<"pcm_s16le", "pcm">>, <<"eac3", "ac3">>}

----------------------------------------------------------------------------
(* Matching.                                                               *)

AnyFile == [videoIn |-> {}, audioAny |-> {}, minWidth |-> 0, minRate |-> 0, minSize |-> 0,
            hdr |-> "any", dovi |-> "any"]

\* An unreported bit rate counts as 0.
AtLeast(value, min) == (IF value = Missing THEN 0 ELSE value) >= min
Agrees(flag, value) == flag = "any" \/ flag = value

\* Every predicate that is present must hold.
Matches(when, f) ==
    /\ when.videoIn # {}  => f.codec \in when.videoIn
    /\ when.audioAny # {} => \E i \in DOMAIN f.audio : \E w \in when.audioAny : Contains(f.audio[i], w)
    /\ AtLeast(f.rate, when.minRate)
    /\ f.size >= when.minSize
    /\ Agrees(when.hdr, IF f.hdr THEN "yes" ELSE "no")
    /\ Agrees(when.dovi, IF f.dovi THEN "yes" ELSE "no")

EncodeAudio(codec)         == [kind |-> "EncodeAudio", codec |-> codec]
EncodeVideo(preference)    == [kind |-> "EncodeVideo", preference |-> preference]
Skip                       == [kind |-> "Skip"]
SkipVideo                  == [kind |-> "SkipVideo"]
Quarantine                 == [kind |-> "Quarantine"]

Rule(when, then) == [when |-> when, then |-> then]

----------------------------------------------------------------------------
(* Evaluation.                                                             *)

NoPlan == [kind |-> "none"]

Decision(class, audio, video) == [class |-> class, audio |-> audio, video |-> video]

Decided(class) == Decision(class, NoPlan, NoPlan)

Matched(f, policy, kinds) ==
    {i \in DOMAIN policy : policy[i].then.kind \in kinds /\ Matches(policy[i].when, f)}

\* The first matching audio rule plans the audio stage.
AudioPlan(f, policy) ==
    LET rules == Matched(f, policy, {"EncodeAudio"})
    IN IF rules = {} THEN NoPlan ELSE policy[First(rules)].then

\* The first matching video rule plans the video stage, unless the video may
\* not be re-encoded at all or a matching SkipVideo rule stands before it.
\* A source whose depth is unknown counts as 8 bit.
VideoPlan(f, policy) ==
    LET rules  == Matched(f, policy, {"EncodeVideo"})
        vetoes == Matched(f, policy, {"SkipVideo"})
    IN IF \/ rules = {}
          \/ ~VideoIsEncodable(f)
          \/ vetoes # {} /\ First(vetoes) < First(rules)
       THEN NoPlan
       ELSE [kind  |-> "EncodeVideo", preference |-> policy[First(rules)].then.preference,
             depth |-> IF f.depth = Missing THEN 8 ELSE f.depth]

StageClass(audio, video) ==
    CASE audio = NoPlan /\ video = NoPlan -> "None"
      [] audio # NoPlan /\ video = NoPlan -> "Audio"
      [] audio = NoPlan /\ video # NoPlan -> "Video"
      [] OTHER                            -> "AudioThenVideo"

\* evaluate: the built-in exclusions come before every rule, a matching Skip
\* or Quarantine rule ends the evaluation wherever it stands, and otherwise
\* the two stages are planned on their own.
Evaluate(f, policy) ==
    LET stops == Matched(f, policy, {"Skip", "Quarantine"})
        audio == AudioPlan(f, policy)
        video == VideoPlan(f, policy)
    IN CASE IsExcluded(f) -> Decided("Quarantined")
         [] ~IsExcluded(f) /\ stops # {} ->
              Decided(IF policy[First(stops)].then.kind = "Skip" THEN "None" ELSE "Quarantined")
         [] OTHER -> Decision(StageClass(audio, video), audio, video)

MutDefaultSpaceSaver == \* what the audio rule writes is among what it reads
    << Rule([AnyFile EXCEPT !.audioAny = {"truehd", "dts", "flac", "ac3"}], EncodeAudio("eac3")) >>

\* Default Space Saver.
DefaultSpaceSaver ==
    << Rule([AnyFile EXCEPT !.audioAny = {"truehd", "dts", "flac", "pcm", "mlp", "opus"}],
            EncodeAudio("eac3")),
       Rule([AnyFile EXCEPT !.videoIn = {"h264", "mpeg2video", "vc1"}, !.minRate = 2],
            EncodeVideo(<<"hevc_nvenc", "libx265">>)),
       Rule([AnyFile EXCEPT !.videoIn = {"av1"}], EncodeVideo(<<"libx265">>)) >>

----------------------------------------------------------------------------
(* The encode.                                                             *)

\* The pixel format an encoder needs for a depth; 12 bit has none, nor has an
\* audio encoder or a copy.
PixFmtFor(encoder, depth) ==
    CASE encoder \in VideoEncoders /\ depth = 8   -> "yuv420p"
      [] encoder = "hevc_nvenc" /\ depth = 10     -> "p010le"
      [] encoder \in {"libx265", "libx264"} /\ depth = 10 -> "yuv420p10le"
      [] OTHER                                    -> "none"

OwesWork(d) == d.class \notin {"None", "Quarantined"}

\* encode_plan_for: one stage at a time, the other stage's streams copied and
\* every stream mapped.
EncodePlanFor(d) ==
    IF d.class = "Video"
    THEN LET encoder == d.video.preference[1]
         IN [video |-> encoder, audio |-> "copy", pix |-> PixFmtFor(encoder, d.video.depth)]
    ELSE [video |-> "copy", audio |-> d.audio.codec, pix |-> "none"]

\* build_ffmpeg_argv: what ffmpeg is asked to do to each kind of stream.
\* Subtitles are copied, and every stream of the input is mapped.
Argv(plan) ==
    [video |-> plan.video, audio |-> plan.audio, subtitle |-> "copy", pix |-> plan.pix,
     mapped |-> {"video", "audio", "subtitle", "data"}]

\* validation_spec_for: at most half a percent and at most the cap may be
\* missing, and only a video pass must save anything.
ValidationSpecFor(f, d) ==
    LET duration == IF f.duration = Missing THEN 0 ELSE f.duration
        share    == duration \div 200
    IN [duration        |-> duration,
        maxShorter      |-> IF share < MaxShorterCap THEN share ELSE MaxShorterCap,
        maxLonger       |-> MaxLonger,
        audioStreams    |-> f.audioCount,
        subtitleStreams |-> f.subtitles,
        sourceBytes     |-> f.size,
        requireSmaller  |-> d.class \notin {"Audio", "AudioThenVideo"}]

----------------------------------------------------------------------------
(* The job, and who may run it.                                            *)

\* next_job: the audio stage first, and a requirement list in the order it is
\* checked.
JobFor(d, f) ==
    LET encoder == IF d.class = "Video" THEN d.video.preference[1] ELSE d.audio.codec
        gpu     == encoder = "hevc_nvenc"
        class   == CASE d.class # "Video" -> "Audio" [] gpu -> "Gpu" [] OTHER -> "Cpu"
    IN [class  |-> class,
        bucket |-> SizeBucketFor(f.size),
        needs  |-> << [kind |-> "AgentClass", what |-> class],
                      [kind |-> "Encoder", what |-> encoder],
                      [kind |-> "Muxer", what |-> "matroska"] >>
                   \o (IF d.class = "Video" /\ f.codec # "none"
                       THEN << [kind |-> "Decoder",
                                what |-> <<f.codec, d.video.depth, "software">>] >>
                       ELSE <<>>),
        sig    |-> ContentSig(f)]
============================================================================
