------------------------------ MODULE MCPhones ------------------------------
(***************************************************************************)
(* What comes of a phone, for TLC: the sessions of Android, of which this  *)
(* module is an extension, the commands of adb, the packets of a mirror    *)
(* stream, and what a decoder converts.  They share no state, so they are  *)
(* not multiplied: `part' is chosen by Init and never changes, and only    *)
(* the part it names moves.                                                *)
(***************************************************************************)
EXTENDS AndroidSessions, Integers, TLC

CONSTANTS Calls, MaxConns, MaxPackets

ASSUME MediaAssumption == MaxConns \in Nat /\ MaxPackets \in Nat

VARIABLES
    part,
    command, step, handles, process, inherited, input, printed, code, told,
    mirrored, stream, wire, device, setup, keyed, overlap, decoded,
    video_ctx, audio_ctx, extradata, asked, sws_ctx, output, swr_ctx, swr_src, given

Adb == INSTANCE AdbController WITH open <- handles
Mirror == INSTANCE MirrorStream WITH source <- mirrored
Decoder == INSTANCE MediaDecoder

adbV == <<command, step, handles, process, inherited, input, printed, code, told>>
mirrorV == <<mirrored, stream, wire, device, setup, keyed, overlap, decoded>>
decoderV == <<video_ctx, audio_ctx, extradata, asked, sws_ctx, output, swr_ctx, swr_src,
              given>>
phoneVars == <<part, vars, adbV, mirrorV, decoderV>>

PhonesInit ==
    /\ part \in {"android", "adb", "mirror", "decoder"}
    /\ Init /\ Adb!Init /\ Mirror!Init /\ Decoder!Init
    /\ part # "adb" => \A c \in Calls : command[c] = "devices"

PhonesNext ==
    /\ UNCHANGED part
    /\ \/ part = "android" /\ Next /\ UNCHANGED <<adbV, mirrorV, decoderV>>
       \/ part = "adb" /\ Adb!Next /\ UNCHANGED <<vars, mirrorV, decoderV>>
       \/ part = "mirror" /\ Mirror!Next /\ UNCHANGED <<vars, adbV, decoderV>>
       \/ part = "decoder" /\ Decoder!Next /\ UNCHANGED <<vars, adbV, mirrorV>>

PhonesSpec == PhonesInit /\ [][PhonesNext]_phoneVars

\* Phones are interchangeable, and so are receivers.
PhoneSymmetry == Permutations(Phones) \cup Permutations(Slots)

\* The types of the parts.
PartsTypeOK ==
    CASE part = "android" -> TypeOK
      [] part = "adb"     -> Adb!TypeOK
      [] part = "mirror"  -> Mirror!TypeOK
      [] part = "decoder" -> Decoder!TypeOK

\* AdbController: a call leaves no handle behind, reports only what a command
\* that succeeded has printed, and waits for no process that has ended.
AdbSafe ==
    part = "adb" => Adb!HandlesClosed /\ Adb!ToldOfSuccess /\ Adb!NobodyWaits

\* MirrorStream: a picture of a stream set up with the key is decrypted where it
\* was encrypted, each is decoded after the parameter sets sent for it, and a pause
\* is shown while it lasts.  MediaDecoder: sound is converted as what it is, a
\* picture as large as it is; sound is announced as what it is.
StreamSafe ==
    CASE part = "mirror"  -> Mirror!InStep /\ Mirror!ParamsInFront /\ Mirror!PausedMeansPaused
      [] part = "decoder" -> Decoder!ConvertedAsDecoded /\ Decoder!ConfigReadBack
      [] OTHER            -> TRUE
=============================================================================
