-------------------------------- MODULE Tso --------------------------------
(***************************************************************************)
(* How wil_tx_vring_tso (txrx.c) cuts a GSO frame into descriptors: one    *)
(* for the headers, one for what else the linear part holds, and one per   *)
(* chunk of a fragment, a chunk ending where its fragment or its packet    *)
(* of gso_size octets does.  TxVring has what the descriptors then go      *)
(* through; here it is what they say that matters.                         *)
(*                                                                         *)
(* A descriptor is                                                         *)
(*   buf  "hdr", "linear" or the index of a fragment;                      *)
(*   off, len  the octets of it;                                           *)
(*   kind the TSO type: 0 header, 1 first data, 2 middle, 3 last;          *)
(*   eop  end of packet (wil_tx_last_desc);                                *)
(*   cnt  the descriptors of the packet it begins.                         *)
(*                                                                         *)
(* The names differ from those of TxVring, so that a module may have both. *)
(*                                                                         *)
(* A definition named X_m_... is X with a plausible slip; no specification *)
(* uses it, it stands in for X when a property is tested against it.       *)
(***************************************************************************)
EXTENDS Integers, Sequences, SequencesExt

CONSTANTS
  Mss,           (* values of gso_size                                        *)
  LinearLens,    (* octets of the linear part besides the headers             *)
  Frags,         (* sequences of fragment sizes                               *)
  Avail,         (* free descriptors                                          *)
  MapFails       (* TRUE: mapping a buffer may fail                           *)

ASSUME MssAssumption == Mss \subseteq Nat \ {0}
ASSUME FrameAssumption == LinearLens \subseteq Nat /\ Frags \subseteq Seq(Nat \ {0})
ASSUME AvailAssumption == Avail \subseteq Nat
ASSUME MapFailsAssumption == MapFails \in BOOLEAN

VARIABLES
  skb,           (* the frame: mss, lin, frags                                *)
  avail,
  descs,         (* the descriptors filled: descs_used = Len(descs)           *)
  frag, len,     (* the fragment, and what is left of it                      *)
  rem_data,      (* what is left of the packet                                *)
  sg_desc,       (* 0, or the first data descriptor of the packet             *)
  sg_desc_cnt,
  first_chunk,   (* end_of_first_chunck                                       *)
  pc

tsoVars == <<skb, avail, descs, frag, len, rem_data, sg_desc, sg_desc_cnt, first_chunk, pc>>

packet == <<sg_desc, sg_desc_cnt, first_chunk>>

TsoInit ==
  /\ skb \in [mss : Mss, lin : LinearLens, frags : Frags]
  /\ avail \in Avail
  /\ descs = <<>> /\ frag = 0 /\ len = 0 /\ rem_data = 0
  /\ sg_desc = 0 /\ sg_desc_cnt = 0 /\ first_chunk = 1
  /\ pc = "start"

-----------------------------------------------------------------------------
\* wil_tx_desc_map and wil_tx_desc_offload_setup with a TSO type.
TsoDesc(buf, off, n, kind) ==
  [buf |-> buf, off |-> off, len |-> n, kind |-> kind, eop |-> FALSE, cnt |-> 1]

\* wil_tx_last_desc for the descriptor filled last.
wil_tx_last_desc(ds) == [ds EXCEPT ![Len(ds)].eop = TRUE]

\* wil_set_tx_desc_count for the packet's first descriptor; the header counts
\* in the first packet.
CountPacket(ds) ==
  IF sg_desc = 0 THEN ds ELSE [ds EXCEPT ![sg_desc].cnt = sg_desc_cnt + first_chunk]

\* "Tx ring full": NETDEV_TX_BUSY.
RingFull ==
  /\ pc = "start" /\ avail < 3 * Len(skb.frags) + 1
  /\ pc' = "busy"
  /\ UNCHANGED <<skb, avail, descs, frag, len, rem_data, packet>>

Header ==
  /\ pc = "start" /\ avail >= 3 * Len(skb.frags) + 1
  /\ descs' = <<[TsoDesc("hdr", 0, 0, 0) EXCEPT !.eop = TRUE]>>
  /\ rem_data' = skb.mss
  /\ pc' = IF skb.lin > 0 THEN "linear" ELSE "frag"
  /\ UNCHANGED <<skb, avail, frag, len, packet>>

LinearPart_m_keeps_rem ==
  /\ pc = "linear"
  /\ descs' = Append(descs, TsoDesc("linear", 0, skb.lin, 1))
  /\ sg_desc' = 2 /\ sg_desc_cnt' = 1
  /\ pc' = "frag"
  /\ UNCHANGED <<skb, avail, frag, len, rem_data, first_chunk>>

\* The rest of the linear part, whole: it is taken to fit in the first packet.
LinearPart ==
  /\ pc = "linear"
  /\ descs' = Append(descs, TsoDesc("linear", 0, skb.lin, 1))
  /\ sg_desc' = 2 /\ sg_desc_cnt' = 1
  /\ rem_data' = skb.mss - skb.lin
  /\ pc' = "frag"
  /\ UNCHANGED <<skb, avail, frag, len, first_chunk>>

NextFrag ==
  /\ pc = "frag" /\ frag < Len(skb.frags)
  /\ frag' = frag + 1
  /\ len' = skb.frags[frag + 1]
  /\ pc' = "chunk"
  /\ UNCHANGED <<skb, avail, descs, rem_data, packet>>

EndFrag ==
  /\ pc = "chunk" /\ len <= 0
  /\ pc' = "frag"
  /\ UNCHANGED <<skb, avail, descs, frag, len, rem_data, packet>>

EndPacket_m_header_again ==
  /\ pc = "chunk" /\ len > 0 /\ rem_data = 0
  /\ descs' = CountPacket(wil_tx_last_desc(descs))
  /\ rem_data' = skb.mss
  /\ sg_desc' = 0 /\ sg_desc_cnt' = 0
  /\ UNCHANGED <<skb, avail, frag, len, first_chunk, pc>>

\* "got full mss descs chain.  Complete the previous descriptor".
EndPacket ==
  /\ pc = "chunk" /\ len > 0 /\ rem_data = 0
  /\ descs' = CountPacket(wil_tx_last_desc(descs))
  /\ rem_data' = skb.mss
  /\ sg_desc' = 0 /\ sg_desc_cnt' = 0 /\ first_chunk' = 0
  /\ UNCHANGED <<skb, avail, frag, len, pc>>

\* The octets of the next chunk, and where it begins in its fragment.
ChunkLen == IF len > rem_data THEN rem_data ELSE len

ChunkOff_m_after == skb.frags[frag] - (len - ChunkLen)

ChunkOff == skb.frags[frag] - len

\* firstdata: a data descriptor has been filled.
ChunkKind == IF Len(descs) > 1 THEN 2 ELSE 1

Chunk ==
  /\ pc = "chunk" /\ len > 0 /\ rem_data # 0 /\ Len(descs) # avail
  /\ descs' = Append(descs, TsoDesc(frag, ChunkOff, ChunkLen, ChunkKind))
  /\ sg_desc' = IF sg_desc = 0 THEN Len(descs) + 1 ELSE sg_desc
  /\ sg_desc_cnt' = sg_desc_cnt + 1
  /\ len' = len - ChunkLen
  /\ rem_data' = rem_data - ChunkLen
  /\ UNCHANGED <<skb, avail, frag, first_chunk, pc>>

\* "Tx: ring overflow TSO", a buffer that cannot be mapped, or a frame that is
\* not TCP: the frame is given up, as TxVring has it.
GiveUp ==
  /\ \/ pc = "chunk" /\ len > 0 /\ rem_data # 0 /\ (Len(descs) = avail \/ MapFails)
     \/ pc = "linear" /\ MapFails
     \/ pc = "start" /\ avail >= 3 * Len(skb.frags) + 1
  /\ pc' = "dma_error"
  /\ UNCHANGED <<skb, avail, descs, frag, len, rem_data, packet>>

\* After the last fragment; the type of the last descriptor is or-ed with 3, and
\* the header counts all.
Finish ==
  /\ pc = "frag" /\ frag = Len(skb.frags)
  /\ LET counted == CountPacket(wil_tx_last_desc(descs))
     IN  descs' = [counted EXCEPT ![Len(descs)].kind = 3, ![1].cnt = Len(descs)]
  /\ pc' = "done"
  /\ UNCHANGED <<skb, avail, frag, len, rem_data, packet>>

TsoNext ==
  \/ RingFull \/ Header \/ LinearPart \/ NextFrag \/ EndFrag
  \/ EndPacket \/ Chunk \/ GiveUp \/ Finish

TsoSpec == TsoInit /\ [][TsoNext]_tsoVars

-----------------------------------------------------------------------------
(* Properties. *)

\* The type of the state.
TsoTypeOK ==
  /\ avail \in Avail
  /\ frag \in 0..Len(skb.frags) /\ len \in Int /\ rem_data \in Int
  /\ sg_desc \in 0..Len(descs) /\ sg_desc_cnt \in Nat /\ first_chunk \in {0, 1}
  /\ pc \in {"start", "linear", "frag", "chunk", "done", "busy", "dma_error"}

Octets(buf, off, n) == [i \in 1..n |-> <<buf, off + i - 1>>]

Payload ==
  Octets("linear", 0, skb.lin)
    \o FlattenSeq([i \in DOMAIN skb.frags |-> Octets(i, 0, skb.frags[i])])

Covered(n) == FlattenSeq([i \in 1..n |-> Octets(descs[i].buf, descs[i].off, descs[i].len)])

\* The descriptors cover the payload, every octet once and in order.
CutExactly ==
  /\ IsPrefix(Covered(Len(descs)), Payload)
  /\ pc = "done" => Covered(Len(descs)) = Payload

\* A packet ends, in the finished frame, after every mss octets and with the
\* last one: the last may be short, no other is ("Data segments. split each
\* fragment to chunks with mss size", txrx.c:971).
PacketsOfMss ==
  pc = "done" =>
    \A i \in 2..Len(descs) : descs[i].eop <=> Len(Covered(i)) % skb.mss = 0 \/ i = Len(descs)

\* The descriptors of the packet that begins with descriptor i.
PacketSize(i) ==
  (CHOOSE j \in i..Len(descs) : descs[j].eop /\ \A k \in i..(j - 1) : ~descs[k].eop) - i + 1

\* The first descriptor of a packet tells the device how many the packet has,
\* the header added to the first; the header tells how many there are in all,
\* and only the last descriptor is of the type that says so.
CountsTrue ==
  pc = "done" =>
    /\ descs[1].cnt = Len(descs) /\ descs[1].eop
    /\ \A i \in 2..Len(descs) :
         /\ descs[i - 1].eop => descs[i].cnt = PacketSize(i) + (IF i = 2 THEN 1 ELSE 0)
         /\ descs[i].kind = 3 <=> i = Len(descs)
=============================================================================
