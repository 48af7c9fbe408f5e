----------------------------- MODULE Capability -----------------------------
(***************************************************************************)
(* What an agent says it can do and what a job asks for (capability.rs of   *)
(* transcodarr-core, the requirements of policy.rs), the form in which the  *)
(* document crosses to the server (convert.rs of transcodarr-proto) and     *)
(* which agent may install (session.rs).                                    *)
(*                                                                          *)
(* The evidence text, the core count, free bytes and labels are left out:   *)
(* no requirement that next_job writes reads them.                          *)
(* An operator named Mut... is a mutated form of the definition after it.   *)
(***************************************************************************)
EXTENDS Selection

\* The vocabularies both ends share.
Encoders == {"hevc_nvenc", "libx265", "libx264", "eac3", "ac3", "aac"}
Muxers   == {"matroska", "mp4"}
Classes  == {"cpu", "gpu", "audio"}
Kinds    == {"software", "nvdec"}
Verdicts == {"ok", "soft", "fail", "untested"}

Refused == [classes |-> {}]

-----------------------------------------------------------------------------
(* The document.                                                            *)

Triple(codec, profile, depth, kind) ==
    [codec |-> codec, profile |-> profile, depth |-> depth, kind |-> kind]

\* The first verdict that was recorded for exactly this triple.
DecoderStatus(cap, triple) ==
    LET told == {i \in DOMAIN cap.decoders : cap.decoders[i].triple = triple} IN
    IF told = {} THEN "untested" ELSE cap.decoders[First(told)].status

\* Only a verified decode on the path that was asked for.
Decodes(status) == status = "ok"

-----------------------------------------------------------------------------
(* What a job asks for.                                                     *)

ClassOf(encoder) == IF encoder = "hevc_nvenc" THEN "gpu" ELSE "cpu"

\* An audio pass copies the video; a video pass decodes in software, whatever
\* encodes it.
Requirements(job) ==
    IF job.kind = "audio"
    THEN << [needs |-> "class", of |-> "audio"], [needs |-> "encoder", of |-> job.encoder],
            [needs |-> "muxer", of |-> "matroska"] >>
    ELSE << [needs |-> "class", of |-> ClassOf(job.encoder)],
            [needs |-> "encoder", of |-> job.encoder], [needs |-> "muxer", of |-> "matroska"],
            [needs |-> "decoder", of |-> Triple(job.codec, "", job.depth, "software")] >>

Meets(cap, r) ==
    \/ r.needs = "class" /\ r.of \in cap.classes
    \/ r.needs = "encoder" /\ r.of \in cap.encoders
    \/ r.needs = "muxer" /\ r.of \in cap.muxers
    \/ r.needs = "decoder" /\ Decodes(DecoderStatus(cap, r.of))

Satisfies(cap, reqs) == \A i \in DOMAIN reqs : Meets(cap, reqs[i])

-----------------------------------------------------------------------------
(* Across the wire.  Everything is a name there; what is unknown is an      *)
(* error among classes and verdicts, and is passed over among encoders and  *)
(* muxers.                                                                  *)

MutToWire(cap) == \* as it once was
    [transport |-> cap.transport, classes |-> cap.classes, encoders |-> cap.encoders,
     muxers |-> {}, decoders |-> cap.decoders, mounts |-> cap.mounts]

ToWire(cap) ==
    [transport |-> cap.transport, classes |-> cap.classes, encoders |-> cap.encoders,
     muxers |-> cap.muxers, decoders |-> cap.decoders, mounts |-> cap.mounts]

Understood(wire) ==
    /\ wire.classes \subseteq Classes
    /\ \A i \in DOMAIN wire.decoders : /\ wire.decoders[i].status \in Verdicts
                                       /\ wire.decoders[i].triple.kind \in Kinds

FromWire(wire) ==
    IF Understood(wire)
    THEN [transport |-> wire.transport, classes |-> wire.classes,
          encoders |-> wire.encoders \cap (Encoders \cup {"copy"}),
          muxers |-> wire.muxers \cap Muxers,
          decoders |-> wire.decoders, mounts |-> wire.mounts]
    ELSE Refused

\* A streaming agent installs nothing, so it needs nothing demonstrated; every
\* mount of another must have passed, and there must be one.
CommitEligible(transport, verdicts) ==
    transport = "stream" \/ (verdicts # <<>> /\ \A i \in DOMAIN verdicts : verdicts[i] = "atomic")
=============================================================================
