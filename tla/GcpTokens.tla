------------------------------ MODULE GcpTokens ------------------------------
(***************************************************************************)
(* The Google access tokens of one service account on one replica: the     *)
(* slot that keeps the token and the last failure, the callers that queue  *)
(* for its lock and mint while they hold it, and the refusals that empty   *)
(* it.  A token is known by its number; Google's end of it, its real       *)
(* expiry and whether it is still good, is external.                       *)
(***************************************************************************)
EXTENDS Integers, Sequences, FiniteSets

CONSTANTS
    Askers,        \* requests that want a token
    Lifetimes,     \* expires_in of an answer
    RefreshSkew,   \* REFRESH_SKEW_SECS
    LastResort,    \* LAST_RESORT_SECS
    FailureTtl,    \* FAILURE_TTL_SECS
    MintTimeout,   \* MINT_TIMEOUT
    MaxMintClock, MaxMints   \* bounds: the clock, and the tokens issued

(* A token handed out by a mint that failed was judged before the mint:    *)
(* it has to outlast the longest one.  Of Google it is assumed that no     *)
(* token it issues is already within the last resort of its end.           *)
ASSUME GcpAssumption ==
    /\ RefreshSkew \in Nat /\ LastResort \in Nat /\ FailureTtl \in Nat /\ MintTimeout \in Nat
    /\ MaxMintClock \in Nat /\ MaxMints \in Nat
    /\ MintTimeout < LastResort /\ LastResort < RefreshSkew
    /\ Lifetimes \subseteq Nat /\ \A life \in Lifetimes : life > LastResort
    /\ "free" \notin Askers

VARIABLES
    mintClock,
    slot,      \* [minted, expires_at, failed_at] of the account
    holder,    \* the caller that holds the slot's lock, or Free
    asker,     \* each caller: [pc, now, token]
    issued,    \* Google's: real expiry of each token, by number
    refused,   \* tokens an upstream answered 401 to
    began,     \* ghost: when each mint that failed began, or -1 once one has worked
    wasted     \* ghost: tokens thrown away that nobody had refused
gcpVars == <<mintClock, slot, holder, asker, issued, refused, began, wasted>>

NoToken == 0
NeverMinted == -100
Free == "free"
EmptySlot == [minted |-> NoToken, expires_at |-> 0, failed_at |-> NeverMinted]
Asker(pc, now, token) == [pc |-> pc, now |-> now, token |-> token]
AskerAt(a, pc) == asker[a].pc = pc
AskerGoes(a, to) == asker' = [asker EXCEPT ![a] = to]

(* What the slot offers at a time.                                         *)
IsFresh(now) == slot.minted # NoToken /\ now < slot.expires_at - RefreshSkew
Remembered(now) == now < slot.failed_at + FailureTtl
LastsUntilExpiry(now) == slot.minted # NoToken /\ now < slot.expires_at
LastsToSetOut(now) == slot.minted # NoToken /\ now < slot.expires_at - LastResort
Given(a) == Asker("given", mintClock, slot.minted)
Told(a) == Asker("told", 0, NoToken)

Ask(a) ==
    /\ AskerAt(a, "idle")
    /\ AskerGoes(a, Asker("queued", 0, NoToken))
    /\ UNCHANGED <<mintClock, slot, holder, issued, refused, began, wasted>>

(* token: under the lock, the time read after it is taken.                 *)
TakeSlot(a) ==
    /\ AskerAt(a, "queued") /\ holder = Free
    /\ IF IsFresh(mintClock) \/ (Remembered(mintClock) /\ LastsToSetOut(mintClock))
       THEN AskerGoes(a, Given(a)) /\ UNCHANGED holder
       ELSE IF Remembered(mintClock) THEN AskerGoes(a, Told(a)) /\ UNCHANGED holder
       ELSE AskerGoes(a, Asker("minting", mintClock, NoToken)) /\ holder' = a
    /\ UNCHANGED <<mintClock, slot, issued, refused, began, wasted>>

(* mint: counted from before the request went out.                         *)
Expiry(a, life) == asker[a].now + life
MintWorks(a) ==
    /\ AskerAt(a, "minting") /\ Len(issued) < MaxMints
    /\ \E life \in Lifetimes, late \in 0..(mintClock - asker[a].now) :
          /\ issued' = Append(issued, mintClock - late + life)
          /\ slot' = [EmptySlot EXCEPT !.minted = Len(issued) + 1, !.expires_at = Expiry(a, life)]
    /\ AskerGoes(a, Asker("given", mintClock, Len(issued) + 1)) /\ holder' = Free
    /\ began' = << >>
    /\ UNCHANGED <<mintClock, refused, wasted>>

(* A key Google refuses and a way to Google that is shut are remembered    *)
(* alike, and the token in hand is used while it lasts.                    *)
FailedAt(a) == asker[a].now
MintFails(a) ==
    /\ AskerAt(a, "minting")
    /\ slot' = [slot EXCEPT !.failed_at = FailedAt(a)]
    /\ AskerGoes(a, IF LastsToSetOut(asker[a].now) THEN Given(a) ELSE Told(a))
    /\ holder' = Free /\ began' = Append(began, asker[a].now)
    /\ UNCHANGED <<mintClock, issued, refused, wasted>>

(* The request is gone: its mint with it, and nothing is remembered of it. *)
Cancelled(a) ==
    /\ asker[a].pc \in {"queued", "minting"}
    /\ holder' = IF holder = a THEN Free ELSE holder
    /\ AskerGoes(a, Asker("idle", 0, NoToken))
    /\ UNCHANGED <<mintClock, slot, issued, refused, began, wasted>>

(* The upstream takes the token, or answers 401 to it and it is forgotten  *)
(* if it is still the one held.                                            *)
Used(a) ==
    /\ asker[a].pc \in {"given", "told"}
    /\ AskerGoes(a, Asker("idle", 0, NoToken))
    /\ UNCHANGED <<mintClock, slot, holder, issued, refused, began, wasted>>
TokenRefused(a) ==
    /\ AskerAt(a, "given")
    /\ refused' = refused \cup {asker[a].token}
    /\ AskerGoes(a, Asker("forget", 0, asker[a].token))
    /\ UNCHANGED <<mintClock, slot, holder, issued, began, wasted>>
Forgets(token) == slot.minted # NoToken /\ slot.minted = token
Forget(a) ==
    /\ AskerAt(a, "forget") /\ holder = Free
    /\ slot' = IF Forgets(asker[a].token) THEN [slot EXCEPT !.minted = NoToken] ELSE slot
    /\ wasted' = IF Forgets(asker[a].token) /\ slot.minted \notin refused THEN wasted \cup {slot.minted} ELSE wasted
    /\ AskerGoes(a, Asker("idle", 0, NoToken))
    /\ UNCHANGED <<mintClock, holder, issued, refused, began>>

(* Time, which no mint outlasts.                                           *)
ClockTicks ==
    /\ mintClock < MaxMintClock /\ mintClock' = mintClock + 1
    /\ \A a \in Askers : AskerAt(a, "minting") => mintClock < asker[a].now + MintTimeout
    /\ UNCHANGED <<slot, holder, asker, issued, refused, began, wasted>>

------------------------------------------------------------------------------
GcpInit ==
    /\ mintClock = 0 /\ slot = EmptySlot /\ holder = Free
    /\ asker = [a \in Askers |-> Asker("idle", 0, NoToken)]
    /\ issued = << >> /\ refused = {} /\ began = << >> /\ wasted = {}
AskerStep(a) ==
    \/ Ask(a) \/ TakeSlot(a) \/ MintWorks(a) \/ MintFails(a) \/ Cancelled(a)
    \/ Used(a) \/ TokenRefused(a) \/ Forget(a)
GcpNext == ClockTicks \/ \E a \in Askers : AskerStep(a)
GcpSpec == GcpInit /\ [][GcpNext]_gcpVars

(* No request is given a token Google has stopped honouring, or will       *)
(* within the margin a mint can eat into, however long it queued and       *)
(* however slowly Google answered; and none is given one that had been     *)
(* refused and forgotten, nor does a late refusal throw away a token       *)
(* minted since.                                                           *)
TokensAlive ==
    /\ \A a \in Askers : AskerAt(a, "given") => issued[asker[a].token] > asker[a].now + LastResort - MintTimeout
    /\ slot.minted # NoToken /\ slot.minted \in refused => \E a \in Askers : asker[a].pc = "forget"
    /\ wasted = {}

(* A token endpoint that fails is asked again no sooner than FAILURE_TTL   *)
(* after it was last asked, by any number of callers, until it works.      *)
FailuresSpaced == \A i \in DOMAIN began : i > 1 => began[i] - began[i - 1] >= FailureTtl

(* Tokens handed out are alive, and a token endpoint that fails is not     *)
(* hammered.                                                               *)
MintsHold == TokensAlive /\ FailuresSpaced
=============================================================================
