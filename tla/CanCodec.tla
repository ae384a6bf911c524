------------------------------- MODULE CanCodec -------------------------------
(***************************************************************************)
(* One frame from end to end: Axis::send() encodes a message signal by     *)
(* signal into an uninitialized can_frame, the link carries as many bytes  *)
(* as the frame says it has, and the other side picks the structure by the *)
(* command in the identifier and decodes it unless the frame is too short. *)
(* The plugin sends the Set messages and takes the Get ones; the firmware  *)
(* of the drive, generated from the same definitions, does the reverse.    *)
(***************************************************************************)
EXTENDS CanMessages

\* Signals whose value may be beyond the integer type they are sent as.
ScaledSignals(m) == {s \in DOMAIN m.signals : m.signals[s].scaled}

\* encode_buf into a frame without an initializer: the calls of can_set_signal_raw,
\* of which the signals in wild get a value that does not fit their type.
Encoded(m, wild) ==
  LET after[s \in 0..Len(m.signals)] ==
        IF s = 0 THEN JunkPayload ELSE SetSignal(after[s - 1], s, m.signals[s], s \in wild)
  IN  after[Len(m.signals)]

\* send(): an eleven bit identifier has six bits for the node.
CanId(n, m) == (n * 32 + m.cmd_id) % 2048

\* The link delivers the first dlc bytes; the others of the receiver's frame are
\* its own.
OnWire(payload, dlc) == [b \in Bits |-> IF b < 8 * dlc THEN payload[b] ELSE {Junk}]

\* decode_buf.
Decoded(payload, m) == [s \in DOMAIN m.signals |-> GetSignal(payload, m.signals[s])]

\* The signals that hold what their type can carry come out as they were set.
DecodedAsEncoded(m, wild, dlc) ==
  \A s \in DOMAIN m.signals \ wild :
    Decoded(OnWire(Encoded(m, wild), dlc), m)[s] = AsSet(s, m.signals[s])

===============================================================================
