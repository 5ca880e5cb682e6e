-------------------------- MODULE PasswordRecovery --------------------------
(***************************************************************************)
(* Recovery of a customer's password by a code.  The code is stored before *)
(* it is sent, outside any transaction, and withdrawn when the delivery    *)
(* fails; a request with a code has read the whole account before the code *)
(* is checked, and saves the whole account after it.  Requests overlap.    *)
(***************************************************************************)
EXTENDS Naturals, FiniteSets

CONSTANTS
    Sends,       \* requests for a code
    Resets,      \* requests that bring a code and a new password
    MaxWrong,    \* 5, the attempts of a code
    MaxCodes,    \* bound: codes
    MaxChanges   \* bound: other changes of the account

ASSUME RecoveryAssumption ==
    /\ MaxCodes \in Nat
    /\ MaxWrong \in Nat
    /\ IsFiniteSet(Resets)

VARIABLES
    challenge,  \* the VerificationChallenge of the customer and the purpose
    lastCode,   \* codes are numbered as they are stored
    send,       \* the code that a request has to send, or 0
    reset,      \* what a request with a code is doing
    customer,   \* password, numbered, and a version of every other field
    expired,    \* codes that are older than ten minutes
    wrong,      \* history: wrong codes counted against a code
    used        \* history: codes that were accepted

recoveryVars == <<challenge, lastCode, send, reset, customer, 
                  expired, wrong, used>>

Codes == 1..MaxCodes

(* One row at most: customer and purpose are unique together.               *)
NoChallenge == {}

RecoveryTypeOK ==
    /\ challenge \subseteq [code : Codes, attempts : 0..MaxWrong]
    /\ Cardinality(challenge) <= 1
    /\ lastCode \in 0..MaxCodes
    /\ send \in [Sends -> 0..MaxCodes]
    /\ reset \in [Resets ->
                    [pc : {"idle", "read", "verified"}, rest : Nat]]
    /\ customer \in [password : Nat, rest : Nat]
    /\ expired \subseteq Codes
    /\ wrong \in [Codes -> Nat]
    /\ used \subseteq Codes

RecoveryInit ==
    /\ challenge = NoChallenge
    /\ lastCode = 0
    /\ send = [q \in Sends |-> 0]
    /\ reset = [r \in Resets |-> [pc |-> "idle", rest |-> 0]]
    /\ customer = [password |-> 0, rest |-> 0]
    /\ expired = {}
    /\ wrong = [c \in Codes |-> 0]
    /\ used = {}

---------------------------------------------------------------------------
(* send_verification_code.                                                  *)

StoredBeside(code) == challenge \cup {[code |-> code, attempts |-> 0]}
Stored(code) == {[code |-> code, attempts |-> 0]}

StoreCode(q) ==
    /\ send[q] = 0
    /\ lastCode < MaxCodes
    /\ lastCode' = lastCode + 1
    /\ challenge' = Stored(lastCode + 1)
    /\ send' = [send EXCEPT ![q] = lastCode + 1]
    /\ UNCHANGED <<reset, customer, expired, wrong, used>>

DeliverCode(q) ==
    /\ send[q] # 0
    /\ send' = [send EXCEPT ![q] = 0]
    /\ UNCHANGED <<challenge, lastCode, reset, customer, expired, wrong, used>>

(* The challenge that is deleted is the one that is there by now.           *)
WithdrawCode(q) ==
    /\ send[q] # 0
    /\ challenge' = NoChallenge
    /\ send' = [send EXCEPT ![q] = 0]
    /\ UNCHANGED <<lastCode, reset, customer, expired, wrong, used>>

ExpireCode(c) ==
    /\ c <= lastCode
    /\ c \notin expired
    /\ expired' = expired \cup {c}
    /\ UNCHANGED <<challenge, lastCode, send, reset, customer, 
                   wrong, used>>

---------------------------------------------------------------------------
(* ResetPasswordWithCodeView.                                               *)

ReadCustomer(r) ==
    /\ reset[r].pc = "idle"
    /\ reset' = [reset EXCEPT ![r] = [pc |-> "read", rest |-> customer.rest]]
    /\ UNCHANGED <<challenge, lastCode, send, customer, expired,
                   wrong, used>>

ExhaustedAfter(row) == row.code \in expired \/ row.attempts > MaxWrong
Exhausted(row) == row.code \in expired \/ row.attempts >= MaxWrong

SpendChallenge(row) == NoChallenge

Refused(r) == [reset EXCEPT ![r] = [pc |-> "idle", rest |-> 0]]

(* verify_code, under the lock of the challenge.                            *)
FindNoCode(r) ==
    /\ reset[r].pc = "read"
    /\ challenge = NoChallenge
    /\ reset' = Refused(r)
    /\ UNCHANGED <<challenge, lastCode, send, customer, expired,
                   wrong, used>>

DropCode(r, row) ==
    /\ reset[r].pc = "read"
    /\ Exhausted(row)
    /\ challenge' = challenge \ {row}
    /\ reset' = Refused(r)
    /\ UNCHANGED <<lastCode, send, customer, expired, wrong, used>>

CountWrong(r, row) ==
    /\ reset[r].pc = "read"
    /\ ~Exhausted(row)
    /\ challenge' = (challenge \ {row}) \cup
                       {[row EXCEPT !.attempts = @ + 1]}
    /\ wrong' = [wrong EXCEPT ![row.code] = @ + 1]
    /\ reset' = Refused(r)
    /\ UNCHANGED <<lastCode, send, customer, expired, used>>

AcceptCode(r, row) ==
    /\ reset[r].pc = "read"
    /\ ~Exhausted(row)
    /\ challenge' = SpendChallenge(row)
    /\ used' = used \cup {row.code}
    /\ reset' = [reset EXCEPT ![r].pc = "verified"]
    /\ UNCHANGED <<lastCode, send, customer, expired, wrong>>

VerifyCode(r) ==
    \/ FindNoCode(r)
    \/ \E row \in challenge :
          DropCode(r, row) \/ CountWrong(r, row) \/ AcceptCode(r, row)

(* customer.save() writes every column of the row that was read.            *)
SavePassword(r) ==
    /\ reset[r].pc = "verified"
    /\ customer' = [password |-> customer.password + 1,
                    rest |-> reset[r].rest]
    /\ reset' = Refused(r)
    /\ UNCHANGED <<challenge, lastCode, send, expired, wrong, used>>

(* Another email than the saved one was given: the code is spent.           *)
RefuseContact(r) ==
    /\ reset[r].pc = "verified"
    /\ reset' = Refused(r)
    /\ UNCHANGED <<challenge, lastCode, send, customer, expired,
                   wrong, used>>

(* The customer's email, coins or settings change.                          *)
ChangeAccount ==
    /\ customer.rest < MaxChanges
    /\ customer' = [customer EXCEPT !.rest = @ + 1]
    /\ UNCHANGED <<challenge, lastCode, send, reset, expired,
                   wrong, used>>

RecoveryNext ==
    \/ \E q \in Sends : StoreCode(q) \/ DeliverCode(q) \/ WithdrawCode(q)
    \/ \E c \in Codes : ExpireCode(c)
    \/ \E r \in Resets : ReadCustomer(r) \/ VerifyCode(r) \/ SavePassword(r)
                         \/ RefuseContact(r)
    \/ ChangeAccount

RecoverySpec == RecoveryInit /\ [][RecoveryNext]_recoveryVars

---------------------------------------------------------------------------
(* A code has to be known.  It is guessed wrong at most MaxWrong times, over *)
(* all requests and however often one is sent again                         *)
(* (verification_service.py 263-269), and every change of the password has  *)
(* used up a code of its own.                                               *)
CodesEarned ==
    /\ \A c \in Codes : wrong[c] <= MaxWrong
    /\ customer.password <= Cardinality(used)

(* A code that was replaced by a newer one is never accepted, nor one that  *)
(* has expired.                                                             *)
OnlyCurrentAccepted ==
    [][\A c \in used' \ used : c = lastCode /\ c \notin expired]_recoveryVars
=============================================================================
