------------------------------ MODULE TermCodes ------------------------------
(***************************************************************************)
(* How the parts of a term are packed into the integer that keys a list.   *)
(* Elsewhere a term is the tuple of its parts; here is why that is right.  *)
(*                                                                         *)
(* The code counts the bits of a part, here are the values they can take:  *)
(* 2^WORD_BITS is PowerFor(Kmed).  Shifting by them is multiplying, and    *)
(* the | of parts that do not overlap is their sum (XTerms, STerms: what   *)
(* the parts are; TermsApart of OccurrenceIndex checks it).                *)
(***************************************************************************)
EXTENDS Terms

CONSTANTS
  Kmed,   \* codewords
  Nbands  \* frequency bands

Ceil(a, b) == (a + b - 1) \div b

Vpf_max == Ceil(qB, qF)

Vpt_max == Ceil(Tmax, qT)

Powers == {1, 2, 4, 8, 16, 32, 64, 128, 256, 512, 1024}

\* The least power of two that is n or more.
PowerFor(n) == CHOOSE p \in Powers : n <= p /\ \A q \in Powers : n <= q => p <= q

\* The mask 0x3F is made for 6 bits of Vpf.  Were Tmax a multiple of qT, the
\* greatest Vpt would be Vpt_max, which may have a bit too many.
ASSUME TermCodesAssumption ==
  /\ {Kmed, Nbands, Vpt_max} \subseteq 1..1024 /\ Vpf_max \in 17..32
  /\ Tmax % qT # 0

-----------------------------------------------------------------------------
\* No bit for the sign.
Bug_VpfValues == PowerFor(Vpf_max)

\* VPF_BITS has one more for negatives.
VpfValues == 2 * PowerFor(Vpf_max)

VPT_UNIT == VpfValues

W2_UNIT == VPT_UNIT * PowerFor(Vpt_max)

B_UNIT == W2_UNIT * PowerFor(Kmed)

W1_UNIT == B_UNIT * PowerFor(Nbands)

XCode(t) == t[1] * W1_UNIT + t[2] * B_UNIT + t[3] * W2_UNIT + t[4] * VPT_UNIT + (t[5] % 64)

SCode(t) == t[1] * 64 + t[2]

-----------------------------------------------------------------------------
\* The parts of a pair's term, as BTerm makes them of LFs of one band.
XTerms ==
  (0..Kmed - 1) \X (0..Nbands - 1) \X (0..Kmed - 1) \X (0..Tmax \div qT) \X (1 - Vpf_max..Vpf_max - 1)

\* The parts of an LF's term: GetChannelsCount is below 64.
STerms == (0..Kmed - 1) \X (0..63)
==============================================================================
