----------------------------- MODULE MCPipeline -----------------------------
(* Instances of Pipeline for TLC: four kinds of file and two policies.     *)
EXTENDS Pipeline

Stream(type, codec) == [type |-> type, codec |-> codec, profile |-> "plain", pix |-> "8",
                        bits |-> Missing, title |-> "plain"]

Holds(streams, length, header) ==
    [report |-> [wellFormed |-> TRUE, container |-> "matroska", duration |-> header, rate |-> 4,
                 streams |-> streams],
     length |-> length, size |-> 100]

\* Owes an audio and then a video pass.
Plain == Holds(<<Stream("video", "h264"), Stream("audio", "dts"), Stream("subtitle", "srt")>>, 1000, 1000)
\* Dolby Vision, so that only the audio may be encoded; its header promises
\* more than it holds.
Dovi == Holds(<<[Stream("video", "h264") EXCEPT !.profile = "dv5"], Stream("audio", "truehd"),
                Stream("data", "bin"), Stream("subtitle", "srt")>>, 1000, 1400)
\* Object audio: never touched.  And shorter than the others.
Atmos == Holds(<<Stream("video", "h264"), [Stream("audio", "truehd") EXCEPT !.title = "atmos"]>>, 700, 700)
\* Not media.
Junk == [Plain EXCEPT !.report.wellFormed = FALSE]

MCContents == {Plain, Dovi, Atmos, Junk}
MCReplacements == {Plain, Atmos}

\* The second policy leaves h264 alone.
MCPolicies == << DefaultSpaceSaver,
                 <<Rule([AnyFile EXCEPT !.videoIn = {"h264"}], SkipVideo)>> \o DefaultSpaceSaver >>
=============================================================================
