----------------------------- MODULE MCDecoderC -----------------------------
(* DecoderC over all payloads of the bytes and lengths of its cfg.  The    *)
(* string of the one character 7 is taken for the decimal number 0.        *)
EXTENDS DecoderC

MCSymtableKey(s) == IF s = <<7>> THEN <<"int", 0>> ELSE <<"str", s>>
=============================================================================
