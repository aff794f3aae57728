-------------------------- MODULE Interpretations --------------------------
(***************************************************************************)
(* The driver that shows the request and each permitted decode of it to an *)
(* analysis (interpretations), with the decode loop it runs                *)
(* (Interpretation::decode): one action per byte consumed.                 *)
(***************************************************************************)
EXTENDS Percent

CONSTANTS
  Requests,     \* the request paths under analysis
  PassLimits   \* numbers of decode passes a configuration may permit

ASSUME RequestsAssumption == Requests \subseteq Seq(Byte)
ASSUME PassLimitsAssumption == PassLimits \subseteq {1, 2}

VARIABLES
  passes,    \* decode passes the configuration permits (1 or 2)
  visited,   \* the views shown to the analysis, in order
  position,  \* next byte of the current view to decode
  out,       \* bytes decoded so far in this pass
  origins,   \* their source offsets
  pc         \* "choose" | "decode" | "done"

driverVars == <<passes, visited, position, out, origins, pc>>

Path == visited[1].original
Current == visited[Len(visited)]

DriverInit ==
  /\ passes \in PassLimits
  /\ \E p \in Requests : visited = <<Original(p)>>
  /\ position = 1
  /\ out = << >>
  /\ origins = << >>
  /\ pc = "choose"

\* Slip: the original's escapes asked for in place of the view's.
MayDecodeByOriginal == Len(visited) <= passes /\ HasEscape(Path)

\* Another pass is permitted and the view holds a complete escape.
MayDecode == Len(visited) <= passes /\ HasEscape(Current.bytes)

\* Slip: a pass goes on with the provenance of the last one.
StartPassKeepsOrigins ==
  /\ pc = "choose" /\ MayDecode
  /\ position' = 1 /\ out' = << >> /\ pc' = "decode"
  /\ UNCHANGED <<passes, visited, origins>>

StartPass ==
  /\ pc = "choose"
  /\ MayDecode
  /\ position' = 1
  /\ out' = << >>
  /\ origins' = << >>
  /\ pc' = "decode"
  /\ UNCHANGED <<passes, visited>>

\* Passes are used up, or decoding cannot change the path.
Stop ==
  /\ pc = "choose"
  /\ ~MayDecode
  /\ pc' = "done"
  /\ UNCHANGED <<passes, visited, position, out, origins>>

\* Slip: the offset in the current view taken for the offset in the request.
EmitViewOffset(byte, width) ==
  /\ out' = Append(out, byte)
  /\ origins' = Append(origins, position)
  /\ position' = position + width
  /\ UNCHANGED <<passes, visited, pc>>

Emit(byte, width) ==
  /\ out' = Append(out, byte)
  /\ origins' = Append(origins, SourceOffset(Current, position))
  /\ position' = position + width
  /\ UNCHANGED <<passes, visited, pc>>

DecodeEscape ==
  /\ pc = "decode"
  /\ EscapeAt(Current.bytes, position)
  /\ Emit(ByteAt(Current.bytes, position), 3)

\* Slip: no way past a malformed escape.
CopyByteNoPercent ==
  /\ pc = "decode"
  /\ position <= Len(Current.bytes)
  /\ Current.bytes[position] # PercentSign
  /\ Emit(Current.bytes[position], 1)

CopyByte ==
  /\ pc = "decode"
  /\ position <= Len(Current.bytes)
  /\ ~EscapeAt(Current.bytes, position)
  /\ Emit(Current.bytes[position], 1)

FinishPass ==
  /\ pc = "decode"
  /\ position > Len(Current.bytes)
  /\ visited' = Append(visited, [bytes |-> out, origins |-> origins, decoded |-> TRUE,
                                 original |-> Path])
  /\ pc' = "choose"
  /\ UNCHANGED <<passes, position, out, origins>>

DriverNext == StartPass \/ Stop \/ DecodeEscape \/ CopyByte \/ FinishPass

\* The visitor is a plain loop of one thread: it runs whenever it can.
DriverSpec == DriverInit /\ [][DriverNext]_driverVars /\ WF_driverVars(DriverNext)

-----------------------------------------------------------------------------
(***************************************************************************)
(* Properties.                                                             *)
(***************************************************************************)

\* Every view is well formed: provenance has one entry per byte, stays inside
\* the request and never goes backwards, across any number of passes
\* (Interpretation::decode composing origins with source_offset).
ProvenanceSound == \A k \in DOMAIN visited : WellFormed(visited[k])

\* A byte of a decoded view is the request's own byte at its origin, unless its
\* origin is a percent sign: nothing a decode produced, at any depth, can pass
\* for a byte the request spelled out (what Interpretation::escaped answers).
DecodedBytesAreEscaped ==
  \A k \in DOMAIN visited : \A i \in DOMAIN visited[k].bytes :
    \/ visited[k].bytes[i] = Path[SourceOffset(visited[k], i)]
    \/ Escaped(visited[k], i)

\* The loops compute the declarative interpretations: no escape is decoded
\* twice in a pass, none is missed, and no pass is skipped or repeated.
VisitsEveryInterpretation ==
  pc = "done" => visited = Interpretations(Path, passes = 2)

\* The driver always returns.
DriverReturns == <>(pc = "done")
=============================================================================
