----------------------------- MODULE Recording -----------------------------
(***************************************************************************)
(* The recorders of one stream key, over the publishers of Publishing:     *)
(* RecorderControl (core/src/recorder.rs), run_recorder_supervisor and     *)
(* spawn_recorders (server/src/main.rs) and the recorder tasks, which have *)
(* one shape in the FLV, HLS and MP4 crates.                               *)
(*                                                                         *)
(* A recording stands for the Notify that its recorders share.  There is   *)
(* no flag beside it: a recorder that is not waiting misses the signal.    *)
(* What the supervisor does with player events (hooks) is left out.        *)
(***************************************************************************)
EXTENDS Publishing

CONSTANTS Recordings, NoRecording,
          Formats,      \* the recorders there are: hls, flv, mp4
          AutoRecord,   \* the formats that the configuration records
          MaxCmds       \* bound: startRecord and stopRecord calls

ASSUME NoRecordingAssumption == NoRecording \notin Recordings
ASSUME AutoAssumption == AutoRecord \subseteq Formats /\ MaxCmds \in Nat
ASSUME RecorderWatches == "recorder" \in Watchers

VARIABLES stops,     \* the recording the supervisor holds for the key
          state,     \* the formats that is_recording reports; {} for None
          recCmds,   \* commands of the API; {} asks to stop
          cmdCount,
          rec,       \* rec[r][f]: where the recorder of r for format f is
          taken,     \* taken[r]: the source that r records
          told       \* told[r]: the Notify of r was signalled

recVars == <<stops, state, recCmds, cmdCount, rec, taken, told>>

\* "starting": making files and replaying the cache; "busy": writing a frame.
RecPlaces == {"none", "starting", "busy", "parked", "ended"}
Running(r, f) == rec[r][f] \in {"starting", "busy", "parked"}

RecInit ==
  /\ stops = NoRecording
  /\ state = {}
  /\ recCmds = << >>
  /\ cmdCount = 0
  /\ rec = [r \in Recordings |-> [f \in Formats |-> "none"]]
  /\ taken = [r \in Recordings |-> 0]
  /\ told = [r \in Recordings |-> FALSE]

----------------------------------------------------------------------------
\* startRecord, of a live stream only, and stopRecord of the API send a command.
SendRecorderCommand ==
  /\ "recorder" \in started
  /\ cmdCount < MaxCmds
  /\ cmdCount' = cmdCount + 1
  /\ \E formats \in SUBSET Formats :
       /\ formats # {} => src # 0
       /\ recCmds' = Append(recCmds, formats)
  /\ UNCHANGED <<pubVars, stops, state, rec, taken, told>>

\* Mutant: recorders are started beside the ones that run.
StartRecording_again(formats) ==
  \/ /\ formats # {} /\ src # 0
     /\ \E r \in Recordings :
          /\ taken[r] = 0
          /\ stops' = r
          /\ taken' = [taken EXCEPT ![r] = src]
          /\ rec' = [rec EXCEPT ![r] = [f \in Formats |-> IF f \in formats THEN "starting" ELSE "none"]]
     /\ state' = formats
     /\ UNCHANGED told
  \/ /\ formats = {} \/ src = 0
     /\ UNCHANGED <<stops, state, rec, taken, told>>

\* The supervisor starts recorders of the registered source unless it holds a
\* recording of the key.
StartRecording(formats) ==
  \/ /\ formats # {} /\ stops = NoRecording /\ src # 0
     /\ \E r \in Recordings :
          /\ taken[r] = 0
          /\ stops' = r
          /\ taken' = [taken EXCEPT ![r] = src]
          /\ rec' = [rec EXCEPT ![r] = [f \in Formats |-> IF f \in formats THEN "starting" ELSE "none"]]
     /\ state' = formats
     /\ UNCHANGED told
  \/ /\ formats = {} \/ stops # NoRecording \/ src = 0
     /\ UNCHANGED <<stops, state, rec, taken, told>>

\* The recording is forgotten and its waiting recorders are woken.
StopRecording ==
  /\ stops' = NoRecording
  /\ state' = {}
  /\ told' = [r \in Recordings |-> told[r] \/ r = stops]
  /\ rec' = [r \in Recordings |-> [f \in Formats |->
               IF r = stops /\ rec[r][f] = "parked" THEN "ended" ELSE rec[r][f]]]
  /\ UNCHANGED taken

TakeRecorderEvent ==
  /\ bus["recorder"] # << >>
  /\ bus' = [bus EXCEPT !["recorder"] = Tail(@)]
  /\ \/ Head(bus["recorder"]) = "pub" /\ StartRecording(AutoRecord)
     \/ Head(bus["recorder"]) = "unpub" /\ StopRecording
  /\ UNCHANGED <<registry, session, started, missed, last, closes, recCmds, cmdCount>>

TakeRecorderCmd ==
  /\ recCmds # << >>
  /\ recCmds' = Tail(recCmds)
  /\ \/ Head(recCmds) # {} /\ StartRecording(Head(recCmds))
     \/ Head(recCmds) = {} /\ StopRecording
  /\ UNCHANGED <<pubVars, cmdCount>>

----------------------------------------------------------------------------
\* FlvRecorder, HlsRecorder and Mp4Recorder::record

GoRec(r, f, place) ==
  /\ rec' = [rec EXCEPT ![r][f] = place]
  /\ UNCHANGED <<pubVars, stops, state, recCmds, cmdCount, taken, told>>

\* The files are made and the cache replayed, or an error ends the recorder.
RecStart(r, f) ==
  /\ rec[r][f] = "starting"
  /\ GoRec(r, f, "parked") \/ GoRec(r, f, "ended")

\* A frame is taken; the recorder does not wait for the signal while it writes.
\* The frames left when the source closes count as received before.
RecFrame(r, f) ==
  /\ rec[r][f] = "parked"
  /\ ~ closed[taken[r]]
  /\ GoRec(r, f, "busy")

RecWritten(r, f) ==
  /\ rec[r][f] = "busy"
  /\ GoRec(r, f, "parked") \/ GoRec(r, f, "ended")

\* Mutant: a closed channel is taken for a lagging one.
RecClosed_continues(r, f) ==
  /\ rec[r][f] = "parked"
  /\ closed[taken[r]]
  /\ GoRec(r, f, "busy")

RecClosed(r, f) ==
  /\ rec[r][f] = "parked"
  /\ closed[taken[r]]
  /\ GoRec(r, f, "ended")

RecStep(r, f) == RecStart(r, f) \/ RecFrame(r, f) \/ RecWritten(r, f) \/ RecClosed(r, f)

RecNext ==
  \/ SendRecorderCommand \/ TakeRecorderEvent \/ TakeRecorderCmd
  \/ \E r \in Recordings, f \in Formats : RecStep(r, f)

----------------------------------------------------------------------------
RecTypeOK ==
  /\ stops \in Recordings \cup {NoRecording}
  /\ state \subseteq Formats
  /\ recCmds \in Seq(SUBSET Formats)
  /\ cmdCount \in 0 .. MaxCmds
  /\ rec \in [Recordings -> [Formats -> RecPlaces]]
  /\ taken \in [Recordings -> 0 .. made]
  /\ told \in [Recordings -> BOOLEAN]

\* At most one recording of the key is under way that was not told to stop, and
\* it is the one that the supervisor holds: two would write the same segment
\* files.
OneRecording ==
  \A r \in Recordings :
    (\E f \in Formats : Running(r, f)) /\ ~ told[r] => stops = r

\* A recorder whose source is closed comes to its end, told to or not.
RecordersEnd ==
  \A r \in Recordings, f \in Formats :
    (taken[r] # 0 /\ closed[taken[r]]) ~> ~ Running(r, f)
=============================================================================
