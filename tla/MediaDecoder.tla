---------------------------- MODULE MediaDecoder ----------------------------
(***************************************************************************)
(* media::Decoder (src/src/media/decoder.cpp): pictures are converted by a *)
(* scaler and sound by a resampler, which are made when the first frame    *)
(* comes and again when the frames change; and the configuration that      *)
(* tells FFmpeg what the sound of AirPlay is (build_audio_specific_config  *)
(* in src/src/airplay/airplay_server.cpp).  What FFmpeg decodes is a       *)
(* choice.  How threads share a decoder is in AirPlaySources.              *)
(***************************************************************************)
EXTENDS Naturals, Sequences

VARIABLES
    video_ctx, \* whether there is a codec for pictures
    audio_ctx, \* and one for sound
    extradata, \* the audio_ctx_'s extradata, as bits
    asked,     \* what the sound was announced to be
    sws_ctx,   \* the size and format of pictures the scaler is for, or <<>>
    output,    \* output_width_ and output_height_
    swr_ctx,   \* the format, rate and channels the resampler is for, or <<>>
    swr_src,   \* swr_src_fmt_, swr_src_rate_, swr_src_channels_
    given      \* the last frame handed to a callback: what it was and what
               \* converted it

decoderVars == <<video_ctx, audio_ctx, extradata, asked, sws_ctx, output, swr_ctx, swr_src, given>>

\* What FFmpeg may decode: pictures by size and format, sound by format, rate
\* and channels.
Pictures == {"small", "large"} \X {"yuv420p", "nv12"}
Sounds == {"fltp", "s16"} \X {44100, 48000} \X {1, 2}

-----------------------------------------------------------------------------
(* build_audio_specific_config()                                           *)

\* kRates
Rates == <<96000, 88200, 64000, 48000, 44100, 32000, 24000, 22050, 16000, 12000,
           11025, 8000, 7350>>

\* The value shifted right, by each of 0 to so many bits.
Shifted(value, bits) ==
    LET shifted[k \in 0..bits] == IF k = 0 THEN value ELSE shifted[k - 1] \div 2 IN shifted

\* Mutant: the lowest bit first.
PutLowFirst(value, bits) == [i \in 1..bits |-> Shifted(value, bits)[i - 1] % 2]

\* BitWriter::put()
Put(value, bits) == [i \in 1..bits |-> Shifted(value, bits)[bits - i] % 2]

Config(aot, rate, channels, short) ==
    LET known == {i \in DOMAIN Rates : Rates[i] = rate}
        sfi == IF known = {} THEN 15 ELSE (CHOOSE i \in known : TRUE) - 1
    IN  (IF aot < 31 THEN Put(aot, 5) ELSE Put(31, 5) \o Put(aot - 32, 6))
        \o Put(sfi, 4) \o (IF sfi = 15 THEN Put(rate, 24) ELSE <<>>) \o Put(channels, 4)
        \o IF aot = 39 THEN Put(IF short THEN 1 ELSE 0, 1) \o Put(0, 8) ELSE Put(0, 3)

\* As ISO 14496-3 has it read.
Number(bits) ==
    LET upto[k \in 0..Len(bits)] == IF k = 0 THEN 0 ELSE 2 * upto[k - 1] + bits[k]
    IN  upto[Len(bits)]
ReadConfig(bits) ==
    LET Field(at, n) == Number(SubSeq(bits, at, at + n - 1))
        escape == Field(1, 5) = 31
        aot == IF escape THEN 32 + Field(6, 6) ELSE Field(1, 5)
        at == IF escape THEN 12 ELSE 6
    IN  [aot |-> aot, rate |-> Rates[Field(at, 4) + 1], channels |-> Field(at + 4, 4),
         short |-> Field(at + 8, 1) = 1]

\* start_audio_stream_locked(): AAC-ELD, of 480 or 512 samples, or AAC-LC.
AirPlayRate == 44100
Streams == [aot : {39}, rate : {AirPlayRate}, channels : {2}, short : BOOLEAN]
           \cup [aot : {2}, rate : {AirPlayRate}, channels : {2}, short : {FALSE}]

-----------------------------------------------------------------------------

Init ==
    /\ video_ctx = FALSE /\ audio_ctx = FALSE /\ extradata = <<>> /\ asked = <<>>
    /\ sws_ctx = <<>> /\ output = "none" /\ swr_ctx = <<>> /\ swr_src = <<>>
    /\ given = <<>>

\* init_video(), which may find no codec or not open it.
InitVideo ==
    /\ ~video_ctx /\ video_ctx' \in BOOLEAN
    /\ UNCHANGED <<audio_ctx, extradata, asked, sws_ctx, output, swr_ctx, swr_src, given>>

\* init_audio(), with a configuration; or as start() does, without.
InitAudio ==
    /\ ~audio_ctx
    /\ \/ /\ audio_ctx' = TRUE
          /\ \/ UNCHANGED <<extradata, asked>>
             \/ \E s \in Streams :
                   /\ asked' = <<s>>
                   /\ extradata' = Config(s.aot, s.rate, s.channels, s.short)
       \/ UNCHANGED <<audio_ctx, extradata, asked>>
    /\ UNCHANGED <<video_ctx, sws_ctx, output, swr_ctx, swr_src, given>>

\* Mutant: the first scaler is kept.
ScalerFirst(p) == IF sws_ctx = <<>> THEN p ELSE sws_ctx

\* A scaler for this size and the picture's format, if the last one's size was
\* another.
Scaler(p) == IF p[1] # output THEN p ELSE sws_ctx

\* decode_video() of a packet with which FFmpeg has a picture ready.  The size
\* is noted even if no scaler could be made; what sws_scale() makes of none is
\* undefined: the picture is given with nothing drawn, or the program ends, which
\* is no step.
DecodeVideo ==
    /\ video_ctx
    /\ \E p \in Pictures :
          /\ sws_ctx' = Scaler(p) \/ (p[1] # output /\ sws_ctx' = <<>>)
          /\ output' = p[1]
          /\ given' = <<[sound |-> FALSE, was |-> p, by |-> sws_ctx']>>
    /\ UNCHANGED <<video_ctx, audio_ctx, extradata, asked, swr_ctx, swr_src>>

\* Mutant: the channels are not compared.
StaleButChannels(s) ==
    swr_ctx = <<>> \/ <<swr_src>> \notin {<<s>>, <<<<s[1], s[2], 3 - s[3]>>>>}

\* The resampler is none, or for another kind of sound.
Stale(s) == swr_ctx = <<>> \/ swr_src # s

\* decode_audio() of a packet with which sound is ready: the resampler is made
\* again if need be, which may fail; it may not have enough to convert yet.
DecodeAudio ==
    /\ audio_ctx
    /\ \E s \in Sounds :
          \/ /\ swr_ctx' = IF Stale(s) THEN s ELSE swr_ctx
             /\ swr_src' = IF Stale(s) THEN s ELSE swr_src
             /\ given' \in {given, <<[sound |-> TRUE, was |-> s, by |-> swr_ctx']>>}
          \/ /\ Stale(s)
             /\ swr_ctx' = <<>> /\ UNCHANGED <<swr_src, given>>
    /\ UNCHANGED <<video_ctx, audio_ctx, extradata, asked, sws_ctx, output>>

\* flush() throws frames away that FFmpeg holds: nothing that is kept here.
Next == InitVideo \/ InitAudio \/ DecodeVideo \/ DecodeAudio

-----------------------------------------------------------------------------
(* Properties *)

TypeOK ==
    /\ video_ctx \in BOOLEAN /\ audio_ctx \in BOOLEAN
    /\ \A i \in DOMAIN extradata : extradata[i] \in {0, 1}
    /\ output \in {"none", "small", "large"}
    /\ sws_ctx = <<>> \/ sws_ctx \in Pictures
    /\ swr_ctx = <<>> \/ swr_ctx \in Sounds

\* Sound that a callback is given was converted as what it was, and a picture
\* by a scaler of its own size if by any, whatever changed, and whichever attempt
\* failed, before.
ConvertedAsDecoded ==
    given # <<>> =>
        IF given[1].sound THEN given[1].by = given[1].was
        ELSE given[1].by # <<>> => given[1].by[1] = given[1].was[1]

\* What one would expect of pictures too, and the code does not keep: the scaler
\* is remade for another size only (165), so that of the format before, or none
\* after one attempt that failed (167), goes on being used.
PictureAsDecoded == given # <<>> => given[1].by = given[1].was

\* FFmpeg reads of the configuration what the device announced.
ConfigReadBack == extradata # <<>> => ReadConfig(extradata) = asked[1]
=============================================================================
