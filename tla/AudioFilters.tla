---------------------------- MODULE AudioFilters ----------------------------
(***************************************************************************)
(* The chains of audio filters of a call (src/audio.c, src/aufilt.c):      *)
(* made by audio_start once encoder and decoder are known, walked for      *)
(* every frame, and thrown away by stop_tx, stop_rx and a change of the    *)
(* decoder.                                                                *)
(***************************************************************************)
EXTENDS Integers, Sequences, SequencesExt

CONSTANTS
    Codec,     \* audio codecs
    Rate,      \* the sample rate and channels of each
    Filter,    \* baresip_aufiltl: the registered filters, in order
    Encodes,   \* the filters with an encupdh
    Decodes    \* the filters with a decupdh

\* What is assumed of the constants; the module that gives them values asserts it.
AudioFiltersAssumption ==
    /\ Rate \in [Codec -> Nat]
    /\ Filter \in Seq(ToSet(Filter)) /\ IsInjective(Filter)
    /\ Encodes \cup Decodes \subseteq ToSet(Filter)

VARIABLES
    enc, dec,    \* tx->ac and rx->ac
    txl, rxl,    \* tx->filtl and rx->filtl
    at,          \* the filter at which the loop of aufilt_setup is, or 0
    source,      \* tx->ausrc is there
    failed,      \* history: a filter could not be made for the chains there are
    sent         \* history: the filters the last outgoing and incoming frame went through

chains == <<txl, rxl>>
vars == <<enc, dec, chains, at, source, failed, sent>>

None == "none"

\* audio_alloc.
Init ==
    /\ enc = None /\ dec = None
    /\ txl = <<>> /\ rxl = <<>> /\ at = 0
    /\ source = FALSE /\ failed = FALSE
    /\ sent = [tx |-> <<>>, rx |-> <<>>]

-----------------------------------------------------------------------------
(* audio_start: the chains are made filter by filter, while the source's thread may be  *)
(* walking one of them; then the source is started.                                     *)

\* Mutant: chains that are there are built again.
CanSetupAgain(e, d, rx) == e # None /\ d # None

\* aufilt_setup has something to do only with both codecs and two empty chains.
CanSetup(e, d, rx) == e # None /\ d # None /\ txl = <<>> /\ rx = <<>>

\* start_source, with src for the source there is: it needs an encoder, and may not open.
StartSource(e, src) == source' \in IF e = None THEN {src} ELSE {src, TRUE}

\* audio_start up to the first filter, with rx for rx->filtl and src for tx->ausrc.
AudioStart(e, d, rx, src) ==
    /\ txl' = txl /\ rxl' = rx
    /\ IF CanSetup(e, d, rx) /\ Filter # <<>>
       THEN at' = 1 /\ failed' = FALSE /\ source' = src
       ELSE at' = 0 /\ UNCHANGED failed /\ StartSource(e, src)

\* Mutant: both chains get every filter.
MadeAll(f) == txl' = Append(txl, f) /\ rxl' = Append(rxl, f)

\* A filter of which both parts could be made.
Made(f) ==
    /\ txl' = IF f \in Encodes THEN Append(txl, f) ELSE txl
    /\ rxl' = IF f \in Decodes THEN Append(rxl, f) ELSE rxl

\* One that could not: its encoding part may be in the chain by then.
Failed(f) ==
    /\ txl' \in IF f \in Encodes /\ f \in Decodes THEN {txl, Append(txl, f)} ELSE {txl}
    /\ f \in Encodes \cup Decodes
    /\ UNCHANGED rxl

\* The next filter of the loop of aufilt_setup, which ends with the last one or the first
\* that cannot be made; the source is started in either case.
SetupFilter ==
    /\ at > 0
    /\ \/ Made(Filter[at]) /\ at < Len(Filter) /\ at' = at + 1 /\ UNCHANGED <<source, failed>>
       \/ /\ Made(Filter[at]) /\ at = Len(Filter)
          /\ at' = 0 /\ UNCHANGED failed /\ StartSource(enc, source)
       \/ Failed(Filter[at]) /\ at' = 0 /\ failed' = TRUE /\ StartSource(enc, source)
    /\ UNCHANGED <<enc, dec, sent>>

-----------------------------------------------------------------------------
(* The main loop. *)

Differ(a, b) == IF None \in {a, b} THEN TRUE ELSE Rate[a] # Rate[b]

\* audio_encoder_set: a codec of another rate closes the source; audio_start follows when
\* there is none, unless the state of the encoder cannot be made.
EncoderSet(c) ==
    /\ at = 0
    /\ enc' = c
    /\ LET src == source /\ ~Differ(enc, c)
       IN  \/ ~src /\ AudioStart(c, dec, rxl, src)
           \/ source' = src /\ UNCHANGED <<chains, at, failed>>
    /\ UNCHANGED <<dec, sent>>

\* audio_decoder_set: a codec of another rate empties rx->filtl and starts again, unless
\* the state of the decoder cannot be made.
DecoderSet(c) ==
    /\ at = 0
    /\ dec' = c
    /\ \/ Differ(dec, c) /\ AudioStart(enc, c, <<>>, source)
       \/ UNCHANGED <<chains, at, source, failed>>
    /\ UNCHANGED <<enc, sent>>

\* audio_start from call_stream_start.
Start ==
    /\ at = 0
    /\ AudioStart(enc, dec, rxl, source)
    /\ UNCHANGED <<enc, dec, sent>>

\* audio_stop: both chains are flushed.
Stop ==
    /\ at = 0
    /\ txl' = <<>> /\ rxl' = <<>>
    /\ source' = FALSE /\ failed' = FALSE
    /\ UNCHANGED <<enc, dec, at, sent>>

\* poll_aubuf_tx, on the source's thread, walks its chain from the head.
Transmit ==
    /\ source
    /\ sent' = [sent EXCEPT !.tx = txl]
    /\ UNCHANGED <<enc, dec, chains, at, source, failed>>

\* aurx_stream_decode, on the main loop, walks its chain from the tail; without a decoder
\* it does nothing.
Decode ==
    /\ at = 0 /\ dec # None
    /\ sent' = [sent EXCEPT !.rx = Reverse(rxl)]
    /\ UNCHANGED <<enc, dec, chains, at, source, failed>>

Next ==
    \/ \E c \in Codec : EncoderSet(c) \/ DecoderSet(c)
    \/ SetupFilter
    \/ Start \/ Stop \/ Transmit \/ Decode

Spec == Init /\ [][Next]_vars

-----------------------------------------------------------------------------
Position(f) == CHOOSE i \in DOMAIN Filter : Filter[i] = f

TypeOK ==
    /\ {enc, dec} \subseteq Codec \cup {None}
    /\ ToSet(txl) \subseteq Encodes /\ ToSet(rxl) \subseteq Decodes
    /\ at \in 0 .. Len(Filter)
    /\ {source, failed} \subseteq BOOLEAN

\* "Process exactly one audio-frame in list order": a frame goes through each
\* filter at most once, outgoing in the order of registration and incoming in the
\* reverse one, however often the codecs changed and whatever failed.
FramesInOrder ==
    /\ \A i, j \in DOMAIN sent.tx : i < j => Position(sent.tx[i]) < Position(sent.tx[j])
    /\ \A i, j \in DOMAIN sent.rx : i < j => Position(sent.rx[i]) > Position(sent.rx[j])

\* "Reset audio filter chain" (audio_decoder_set): after a change of the decoder
\* the chain is there again; it is not lost while the encoding chain lives on.
ChainIsReset == at = 0 /\ txl # <<>> /\ ~failed /\ Encodes = Decodes => rxl # <<>>
=============================================================================
