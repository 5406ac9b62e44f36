------------------------------ MODULE GopCache ------------------------------
(***************************************************************************)
(* The GOP cache of a media source (core/src/gop_cache.rs): the last       *)
(* metadata and codec-configuration frames, and a queue of media frames    *)
(* that always holds the newest group of pictures.                         *)
(*                                                                         *)
(* A frame is a record with an id (its place in the order of caching) and  *)
(* a kind; the kind stands for frame_type, key_frame and is_config_frame,  *)
(* the only parts of a frame that the cache looks at.  An Option<Frame> is *)
(* a sequence of length at most one.                                       *)
(***************************************************************************)
EXTENDS Integers, Sequences, Functions

CONSTANT MaxGopFrames   \* max_gop_count * 30

ASSUME MaxGopAssumption == MaxGopFrames \in Nat \ {0}

ConfigKinds == {"video_config", "audio_config"}
GopKinds == {"key", "video", "audio"}
Kinds == {"metadata"} \cup ConfigKinds \cup GopKinds

IsKey(f) == f.kind = "key"
IsConfig(f) == f.kind \in ConfigKinds
IsGop(f) == f.kind \in GopKinds

NewCache == [metadata |-> << >>, video_config |-> << >>,
             audio_config |-> << >>, frames |-> << >>]

\* while frames.len() >= max_gop_count * 30 { pop_front() }
PopOld(q) == IF Len(q) < MaxGopFrames
             THEN q
             ELSE SubSeq(q, Len(q) - MaxGopFrames + 2, Len(q))

\* Mutant: the queue is trimmed for every frame, not only for a key frame.
cache_frame_trims_always(c, f) ==
  CASE f.kind = "metadata"     -> [c EXCEPT !.metadata = <<f>>]
    [] f.kind = "video_config" -> [c EXCEPT !.video_config = <<f>>]
    [] f.kind = "audio_config" -> [c EXCEPT !.audio_config = <<f>>]
    [] OTHER                   -> [c EXCEPT !.frames = Append(PopOld(@), f)]

cache_frame(c, f) ==
  CASE f.kind = "metadata"     -> [c EXCEPT !.metadata = <<f>>]
    [] f.kind = "video_config" -> [c EXCEPT !.video_config = <<f>>]
    [] f.kind = "audio_config" -> [c EXCEPT !.audio_config = <<f>>]
    [] f.kind = "key"          -> [c EXCEPT !.frames = Append(PopOld(@), f)]
    [] OTHER                   -> [c EXCEPT !.frames = Append(@, f)]

get_config_frames(c) == c.video_config \o c.audio_config

\* start_idx: the last video key frame of the queue, past its end if none.
StartIdx(q) == CHOOSE i \in 1 .. Len(q) + 1 :
                 /\ \A j \in i + 1 .. Len(q) : ~ IsKey(q[j])
                 /\ IF \E j \in 1 .. Len(q) : IsKey(q[j])
                    THEN i <= Len(q) /\ IsKey(q[i])
                    ELSE i = Len(q) + 1

\* Mutant: the replay starts after the key frame.
LatestGop_after_key(q) == SubSeq(q, StartIdx(q) + 1, Len(q))

LatestGop(q) == SubSeq(q, StartIdx(q), Len(q))

\* Mutant: the replay leaves out the configuration frames.
get_latest_gop_frames_bare(c) == c.metadata \o LatestGop(c.frames)

get_latest_gop_frames(c) ==
  c.metadata \o get_config_frames(c) \o LatestGop(c.frames)
=============================================================================
