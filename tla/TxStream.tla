------------------------------- MODULE TxStream -------------------------------
(***************************************************************************)
(* The stream between commands of grafaincli: a session of commands that   *)
(* write a transaction each, one after the other, into the pipe from which *)
(* another one reads.  writeTx and readTx are those of                     *)
(* cmd/grafaincli/common.go; the readers are the loop of as-batch,         *)
(* set-validators, which reads what it extends, and as-proposal.           *)
(*                                                                         *)
(* A transaction is a size, written at once, and data the system cuts as   *)
(* it likes.  The session may end between any two writes; a command that   *)
(* refuses its arguments writes nothing, and the next one goes on.  Out of *)
(* scope: one command of a session that is killed between its size and its *)
(* data while the shell starts the next.  The reader then takes the size   *)
(* and the data of that one for the missing data.                          *)
(***************************************************************************)
EXTENDS CliValues

CONSTANTS
  Sessions,  \* sequences of commands
  Size       \* Size[i]: length of the data of the i-th transaction of a session

ASSUME TxStreamAssumption ==
  /\ Size \in Seq(Nat \ {0})
  /\ \A s \in Sessions : s \in Seq(Range(s)) /\ Len(s) <= Len(Size)

VARIABLES
  typed,    \* the commands of the session
  reader,   \* "as-batch", "set-validators", "as-proposal"
  piped,    \* whether anything is connected to the input
  writing,  \* index of the command that writes, and what of its data is left
  closed,   \* "no", "finished", "died"
  pipe,     \* what was written and not yet read: <<i, "size">>, <<i, "data">>
  reading,  \* "size", "data", "done", "failed"
  raw,      \* data read for the transaction at hand
  need,     \* its length, by the size that was read
  msgs      \* messages the reader has taken

vars == <<typed, reader, piped, writing, closed, pipe, reading, raw, need, msgs>>
session == <<typed, reader, piped>>
writer == <<writing, closed>>

Init ==
  /\ typed \in Sessions /\ reader \in {"as-batch", "set-validators", "as-proposal"}
  /\ piped \in BOOLEAN
  /\ writing = [cmd |-> 1, left |-> 0] /\ closed = "no"
  /\ pipe = << >>
  /\ reading = "size" /\ raw = << >> /\ need = 0 /\ msgs = << >>

Running == piped /\ closed = "no" /\ writing.left = 0 /\ writing.cmd <= Len(typed)

(* flagDie, ExitOnError, or an error before the transaction is written. *)
Refuse ==
  /\ Running /\ Message(typed[writing.cmd]) = {}
  /\ writing' = [writing EXCEPT !.cmd = @ + 1]
  /\ UNCHANGED <<session, closed, pipe, reading, raw, need, msgs>>

(* writeTx, the size. *)
WriteSize ==
  /\ Running /\ Message(typed[writing.cmd]) # {}
  /\ pipe' = Append(pipe, <<writing.cmd, "size">>)
  /\ writing' = [writing EXCEPT !.left = Size[writing.cmd]]
  /\ UNCHANGED <<session, closed, reading, raw, need, msgs>>

(* writeTx, some of the data. *)
WriteData ==
  /\ closed = "no" /\ writing.left > 0
  /\ \E n \in 1 .. writing.left :
       /\ pipe' = pipe \o [k \in 1 .. n |-> <<writing.cmd, "data">>]
       /\ writing' = [left |-> writing.left - n,
                      cmd |-> IF n = writing.left THEN writing.cmd + 1 ELSE writing.cmd]
  /\ UNCHANGED <<session, closed, reading, raw, need, msgs>>

Close ==
  /\ piped /\ closed = "no" /\ writing.cmd > Len(typed)
  /\ closed' = "finished"
  /\ UNCHANGED <<session, writing, pipe, reading, raw, need, msgs>>

(* The session as a whole is killed, the command that writes with it. *)
Die ==
  /\ piped /\ closed = "no"
  /\ closed' = "died"
  /\ UNCHANGED <<session, writing, pipe, reading, raw, need, msgs>>

AtEnd == pipe = << >> /\ closed # "no"
End(how) == reading' = how /\ UNCHANGED <<session, writer, pipe, raw, need, msgs>>

(* Mutant: the input is read without asking what it is. *)
ReadFromTerminal == FALSE /\ UNCHANGED vars

(* readTx, an input nothing is piped into; as-proposal reads it before     *)
(* readTx can ask, and waits for the terminal.                             *)
NotPiped == ~piped /\ reader # "as-proposal" /\ reading = "size" /\ End("done")

(* readTx, the size: a transaction that was read left nothing behind, so   *)
(* the next thing in the pipe is a size.  io.EOF ends the loop of as-batch *)
(* and is the beginning of the chain for set-validators.                   *)
ReadSize ==
  /\ piped /\ reader # "as-proposal" /\ reading = "size"
  /\ \/ AtEnd /\ End("done")
     \/ /\ pipe # << >> /\ Head(pipe)[2] = "size"
        /\ pipe' = Tail(pipe) /\ need' = Size[Head(pipe)[1]]
        /\ raw' = << >> /\ reading' = "data"
        /\ UNCHANGED <<session, writer, msgs>>

(* Unmarshal accepts all of the data of one transaction. *)
Decodes(r, n) == Len(r) = n /\ \A k \in DOMAIN r : r[k] = <<r[1][1], "data">>

(* Kinds of messages a reader takes from a transaction: the switches of    *)
(* as-batch and of toOption, the type of set-validators.                   *)
Supported(kind) ==
  CASE reader = "as-batch" -> kind # "gov/updateElectionRule"
    [] reader = "set-validators" -> kind = "validators/applyDiff"
    [] reader = "as-proposal" -> TRUE

(* The reader, with the n bytes of a transaction read. *)
Extract(r, n) ==
  \E m \in IF Decodes(r, n) THEN Message(typed[r[1][1]]) ELSE {} :
    /\ Supported(m.kind)
    /\ msgs' = Append(msgs, m)
    /\ reading' = IF reader = "as-batch" THEN "size" ELSE "done"

Rejects(r, n) == Decodes(r, n) => \A m \in Message(typed[r[1][1]]) : ~Supported(m.kind)

Take(r, n) ==
  \/ Extract(r, n)
  \/ Rejects(r, n) /\ UNCHANGED msgs /\ reading' = "failed"

Chunk(n) == pipe' = SubSeq(pipe, n + 1, Len(pipe)) /\ raw' = raw \o SubSeq(pipe, 1, n)
Available == 1 .. (IF need - Len(raw) < Len(pipe) THEN need - Len(raw) ELSE Len(pipe))

(* Mutant: data that is cut short ends the batch like no data at all. *)
ReadDataLeniently ==
  /\ reading = "data"
  /\ \/ \E n \in Available :
          /\ Chunk(n)
          /\ \/ Len(raw') < need /\ UNCHANGED <<msgs, reading>>
             \/ Len(raw') = need /\ Take(raw', need)
          /\ UNCHANGED <<session, writer, need>>
     \/ AtEnd /\ End("done")

(* readTx, io.ReadFull; at the end of the input its error is io.EOF when   *)
(* it has read nothing at all, and the reader goes on content.             *)
ReadData ==
  /\ reading = "data"
  /\ \/ \E n \in Available :
          /\ Chunk(n)
          /\ \/ Len(raw') < need /\ UNCHANGED <<msgs, reading>>
             \/ Len(raw') = need /\ Take(raw', need)
          /\ UNCHANGED <<session, writer, need>>
     \/ AtEnd /\ End(IF raw = << >> THEN "done" ELSE "failed")

(* as-proposal copies its input to the end. *)
Collect ==
  /\ piped /\ reader = "as-proposal" /\ reading = "size" /\ pipe # << >>
  /\ pipe' = << >> /\ raw' = raw \o pipe
  /\ UNCHANGED <<session, writer, reading, need, msgs>>

EmptyResolution == [kind |-> "gov/createTextResolution", value |-> << >>]

(* readProposalPayloadMsg: the first transaction of the input.  What is no *)
(* transaction is read as a text resolution: nothing at all is one with an *)
(* empty text, and the size of a transaction is never one.                 *)
Propose ==
  /\ piped /\ reader = "as-proposal" /\ reading = "size" /\ AtEnd
  /\ IF raw = << >>
       THEN msgs' = <<EmptyResolution>> /\ reading' = "done"
       ELSE LET n == Size[raw[1][1]] IN Take(SubSeq(raw, 2, IF Len(raw) > n THEN n + 1 ELSE Len(raw)), n)
  /\ UNCHANGED <<session, writer, pipe, raw, need>>

Next ==
  \/ Refuse \/ WriteSize \/ WriteData \/ Close \/ Die
  \/ NotPiped \/ ReadSize \/ ReadData \/ Collect \/ Propose

Spec == Init /\ [][Next]_vars

(* The session ends, one way or the other; the reader runs. *)
FairSpec ==
  /\ Spec
  /\ WF_vars(Close \/ Die)
  /\ WF_vars(NotPiped \/ ReadSize \/ ReadData \/ Collect \/ Propose)
-----------------------------------------------------------------------------
(* What a reader takes of the transactions it could read. *)
Taken(s) == IF reader = "as-batch" THEN s ELSE SubSeq(s, 1, IF s = << >> THEN 0 ELSE 1)

(* Of the first n commands those that write a transaction. *)
printed[n \in 0 .. Len(typed)] ==
  IF n = 0 THEN << >>
  ELSE IF Message(typed[n]) = {} THEN printed[n - 1] ELSE Append(printed[n - 1], typed[n])

Written == printed[writing.cmd - 1]
Meant == SelectSeq(typed, Sensible)

(* A session of numbers that are not too wide, with commands the reader    *)
(* takes, was written to its end.                                          *)
Fitting ==
  /\ closed = "finished" /\ Taken(Meant) # << >>
  /\ \A i \in DOMAIN typed : ~TooWide(typed[i])
  /\ \A i \in DOMAIN Taken(Meant) : \A m \in Message(Taken(Meant)[i]) : Supported(m.kind)

Arrived ==
  /\ reading = "done"
  /\ Len(msgs) = Len(Taken(Meant))
  /\ \A i \in DOMAIN msgs : Denotes(msgs[i], Taken(Meant)[i])

(* A session that runs to its end arrives as it was typed, however the     *)
(* pipe cuts it: the reader has a message for each sensible command that   *)
(* it takes and for no other, with the numbers that were typed (writeTx,   *)
(* readTx, and the conversions before).                                    *)
ArrivesAsTyped == Fitting ~> Arrived

(* A command that reads ends, also with nothing connected to its input;    *)
(* as-proposal ends unless it waits for a terminal.                        *)
ReaderEnds ==
  (piped \/ reader # "as-proposal") ~> reading \in {"done", "failed"}

(* What is passed on has every transaction of which any data was written,  *)
(* whole and in order: the reader fails if the last one was cut, or leaves *)
(* it out if all that came was its size.                                   *)
CutDataIsNoticed ==
  piped /\ reading = "done" =>
    /\ \/ Len(msgs) = Len(Taken(Written))
          /\ \A i \in DOMAIN msgs : msgs[i] \in Message(Taken(Written)[i])
       \/ reader = "as-proposal" /\ Written = << >> /\ msgs = <<EmptyResolution>>
    /\ reader = "as-batch" \/ Written = << >> =>
         writing.left \in {0} \cup {Size[i] : i \in {writing.cmd} \cap DOMAIN typed}
=============================================================================
