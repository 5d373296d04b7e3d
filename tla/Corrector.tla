----------------------------- MODULE Corrector -----------------------------
(***************************************************************************)
(* SsmsTimestampCorrector (src/Media/SsmsTimestampCorrector.cpp): the      *)
(* timestamps of the audio and video packets on their way to one player.   *)
(*                                                                         *)
(* The members are signed and wide, a timestamp is unsigned and has        *)
(* Modulus values, so a difference is exact and a sum wraps when it is     *)
(* returned.  A packet whose chunks do not fit is corrected again when the *)
(* player is woken up: to the corrector that is one more packet.           *)
(*                                                                         *)
(* StreamProofs extends this module beside Stream, so no name here is one  *)
(* of Stream's.                                                            *)
(***************************************************************************)
EXTENDS Integers

CONSTANTS
  Modulus,                                    \* 2^32 in the code
  AUDIO_MAX_DELTA, VIDEO_MAX_DELTA,           \* 67 and 87
  AUDIO_DEFAULT_DELTA, VIDEO_DEFAULT_DELTA,   \* 23 and 40
  MaxAudio                                    \* bound: audios between two videos

ASSUME DeltaAssumption ==
  /\ Modulus \in Nat /\ MaxAudio \in Nat \ {0}
  /\ AUDIO_MAX_DELTA \in Nat /\ VIDEO_MAX_DELTA \in Nat
  /\ AUDIO_DEFAULT_DELTA \in 1 .. AUDIO_MAX_DELTA
  /\ VIDEO_DEFAULT_DELTA \in 1 .. VIDEO_MAX_DELTA
  /\ VIDEO_MAX_DELTA + MaxAudio * AUDIO_MAX_DELTA < Modulus

VARIABLES
  last_audio_ori_timestamp_, last_corrected_audio_timestamp_,
  last_video_ori_timestamp_, last_corrected_video_timestamp_,
  audio_num_between_video,
  regular,   \* auxiliary: no timestamp so far was in need of correction
  joined     \* auxiliary: there was an audio before the last video

audioVars     == <<last_audio_ori_timestamp_, last_corrected_audio_timestamp_>>
videoVars     == <<last_video_ori_timestamp_, last_corrected_video_timestamp_>>
correctorVars == <<audioVars, videoVars, audio_num_between_video, regular, joined>>

PacketTime == 0 .. Modulus - 1

CorrectorInit ==
  /\ last_audio_ori_timestamp_ = -1 /\ last_corrected_audio_timestamp_ = -1
  /\ last_video_ori_timestamp_ = -1 /\ last_corrected_video_timestamp_ = -1
  /\ audio_num_between_video = 0
  /\ regular = TRUE /\ joined = FALSE

----------------------------------------------------------------------------

\* Mutant of Corrected: a step of exactly max is taken for a jump.
MutCorrected(ori, last, max, default) ==
  IF ori - last >= 1 /\ ori - last < max THEN ori ELSE (last + default) % Modulus

\* A timestamp that is not at most max after the last one becomes the last one
\* plus the default.
Corrected(ori, last, max, default) ==
  IF ori - last \in 1 .. max THEN ori ELSE (last + default) % Modulus

\* Mutant of CorrectAudioByAudio: the first audio after a video goes by the
\* audio before it.
MutCorrectAudioByAudio(ori) ==
  IF last_audio_ori_timestamp_ < 0 THEN ori
  ELSE Corrected(ori, last_corrected_audio_timestamp_, AUDIO_MAX_DELTA, AUDIO_DEFAULT_DELTA)

CorrectAudioByVideo(ori) ==
  IF last_video_ori_timestamp_ < 0 THEN ori
  ELSE Corrected(ori, last_corrected_video_timestamp_, VIDEO_MAX_DELTA, VIDEO_DEFAULT_DELTA)

\* By the audio before it, unless it is the first since the last video; the
\* first of all is left as it is.
CorrectAudioByAudio(ori) ==
  IF audio_num_between_video > 0
    THEN Corrected(ori, last_corrected_audio_timestamp_, AUDIO_MAX_DELTA, AUDIO_DEFAULT_DELTA)
  ELSE IF last_audio_ori_timestamp_ < 0 THEN ori
  ELSE CorrectAudioByVideo(ori)

\* The first video joins the audio when it is too far from it.
CorrectVideoByVideo(ori) ==
  IF last_video_ori_timestamp_ < 0
    THEN IF /\ last_corrected_audio_timestamp_ >= 0
            /\ ori - last_corrected_audio_timestamp_ \notin -VIDEO_MAX_DELTA .. VIDEO_MAX_DELTA
         THEN last_corrected_audio_timestamp_
         ELSE ori
    ELSE Corrected(ori, last_corrected_video_timestamp_, VIDEO_MAX_DELTA, VIDEO_DEFAULT_DELTA)

\* What the source promises of an audio, by the originals alone.
RegularAudio(ori) ==
  IF audio_num_between_video > 0
    THEN ori - last_audio_ori_timestamp_ \in 1 .. AUDIO_MAX_DELTA
    ELSE \/ last_audio_ori_timestamp_ < 0 \/ last_video_ori_timestamp_ < 0
         \/ ori - last_video_ori_timestamp_ \in 1 .. VIDEO_MAX_DELTA

\* ... and of a video.
RegularVideo(ori) ==
  IF last_video_ori_timestamp_ < 0
    THEN \/ last_audio_ori_timestamp_ < 0
         \/ ori - last_audio_ori_timestamp_ \in -VIDEO_MAX_DELTA .. VIDEO_MAX_DELTA
    ELSE ori - last_video_ori_timestamp_ \in 1 .. VIDEO_MAX_DELTA

CorrectAudio(ori) ==
  /\ audio_num_between_video < MaxAudio
  /\ audio_num_between_video' = audio_num_between_video + 1
  /\ last_corrected_audio_timestamp_' = CorrectAudioByAudio(ori)
  /\ last_audio_ori_timestamp_' = ori
  /\ regular' = (regular /\ RegularAudio(ori))
  /\ UNCHANGED <<videoVars, joined>>

CorrectVideo(ori) ==
  /\ audio_num_between_video' = 0
  /\ last_corrected_video_timestamp_' = CorrectVideoByVideo(ori)
  /\ last_video_ori_timestamp_' = ori
  /\ regular' = (regular /\ RegularVideo(ori))
  /\ joined' = (last_audio_ori_timestamp_ >= 0)
  /\ UNCHANGED audioVars

\* CorrectTimestamp; it would answer 0 for a sequence header, none of which gets here.
CorrectorNext == \E ori \in PacketTime : CorrectAudio(ori) \/ CorrectVideo(ori)

CorrectorSpec == CorrectorInit /\ [][CorrectorNext]_correctorVars

----------------------------------------------------------------------------

(* Audio keeps to the video: the n-th audio since a video is at least n and  *)
(* at most VIDEO_MAX_DELTA and n - 1 times AUDIO_MAX_DELTA after it, counted *)
(* around the wrap, whatever the source sends.  This needs an audio before   *)
(* that video: the first audio of all is not corrected even when videos have *)
(* gone ahead.                                                               *)
AudioFollows ==
  joined /\ audio_num_between_video > 0 =>
    (last_corrected_audio_timestamp_ - last_corrected_video_timestamp_) % Modulus
      \in audio_num_between_video ..
          VIDEO_MAX_DELTA + (audio_num_between_video - 1) * AUDIO_MAX_DELTA

(* A regular source is passed on as it is: the corrector compares with what  *)
(* it has answered, not with what it was given, and the two never part.      *)
RegularKept ==
  regular => /\ last_corrected_audio_timestamp_ = last_audio_ori_timestamp_
             /\ last_corrected_video_timestamp_ = last_video_ori_timestamp_

=============================================================================
