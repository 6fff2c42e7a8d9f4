------------------------- MODULE PaperTradingProofs -------------------------
(***************************************************************************)
(* Proofs about PaperTrading, for any number of concurrent calls, symbols, *)
(* books, faults and restarts: no balance and no position is ever          *)
(* negative, a readonly process buys nothing, the books agree with the     *)
(* trades unless a write was lost or a call cut off, and an order gets     *)
(* what the book offers at its best. The first invariant says that every   *)
(* value a call read or computed is itself a non-negative number: what is  *)
(* written then is, however old the reads behind it are.                   *)
(***************************************************************************)
EXTENDS PaperTrading, TLAPS

\* A call is well-formed and holds no negative value.
CallOK(r) ==
  /\ r \in Call
  /\ r.saw >= 0 /\ r.held >= 0 /\ r.balance >= 0 /\ r.amount >= 0
  /\ r.pc \in {"idle", "done"} \/ r.side = "create" \/ r.symbol \in Symbols
  /\ r.side = "create" => r.pc = "account"

\* The inductive invariant.
IInv == TypeOK /\ Solvent /\ \A c \in Calls : CallOK(call[c])

\* The product of two naturals is one (what an order pays at a level).
LEMMA Product == ASSUME NEW a \in Nat, NEW b \in Nat PROVE a * b \in Nat
  OBVIOUS

\* A fee is at most what it is charged on.
LEMMA FeeIsPart == ASSUME NEW g \in Nat
                   PROVE FeeDen * g \in Nat /\ FeeNum * g \in Nat /\ FeeNum * g <= FeeDen * g
<1>1. FeeNum \in Nat /\ FeeDen \in Nat /\ FeeNum <= FeeDen
  BY TradingBounds
<1>2. PICK d \in Nat : FeeDen = FeeNum + d
  <2>1. FeeDen - FeeNum \in Nat /\ FeeDen = FeeNum + (FeeDen - FeeNum)
    BY <1>1
  <2> QED BY <2>1
<1>3. FeeDen * g = FeeNum * g + d * g
  BY <1>1, <1>2
<1>4. FeeNum * g \in Nat /\ d * g \in Nat
  BY <1>1, <1>2, Product
<1> QED BY <1>3, <1>4

\* The amounts taken from a book are naturals.
LEMMA Takes == ASSUME NEW b \in Side, NEW n \in Nat
               PROVE TakeFirst(b, n) \in Nat /\ TakeSecond(b, n) \in Nat
<1>1. b \in Seq(Level) /\ Len(b) <= 2
  BY DEF Side
<1>2. b # <<>> => b[1] \in Level
  BY <1>1
<1>3. Len(b) >= 2 => b[2] \in Level
  BY <1>1
<1>4. TakeFirst(b, n) \in Nat /\ TakeFirst(b, n) <= n
  BY <1>2 DEF TakeFirst, Lesser, Level
<1>5. TakeSecond(b, n) \in Nat
  BY <1>1, <1>3, <1>4 DEF TakeSecond, Lesser, Level
<1> QED BY <1>4, <1>5

\* So are the amount filled and the notional.
LEMMA Fills == ASSUME NEW b \in Side, NEW n \in Nat
               PROVE Filled(b, n) \in Nat /\ Notional(b, n) \in Nat
<1>1. b \in Seq(Level) /\ Len(b) <= 2
  BY DEF Side
<1>2. TakeFirst(b, n) \in Nat /\ TakeSecond(b, n) \in Nat
  BY Takes
<1>3. b # <<>> => b[1].price * TakeFirst(b, n) \in Nat
  <2>1. b # <<>> => b[1] \in Level
    BY <1>1
  <2> QED BY <1>2, <2>1, Product DEF Level
<1>4. Len(b) >= 2 => b[2].price * TakeSecond(b, n) \in Nat
  <2>1. Len(b) >= 2 => b[2] \in Level
    BY <1>1
  <2> QED BY <1>2, <2>1, Product DEF Level
<1>5. (IF b = <<>> THEN 0 ELSE b[1].price * TakeFirst(b, n)) \in Nat
  BY <1>3
<1>6. (IF Len(b) < 2 THEN 0 ELSE b[2].price * TakeSecond(b, n)) \in Nat
  BY <1>1, <1>4
<1>7. Notional(b, n) \in Nat
  BY <1>5, <1>6 DEF Notional
<1>8. Filled(b, n) \in Nat
  BY <1>2 DEF Filled
<1> QED BY <1>7, <1>8

\* A record of a call stays one when a field is given a value of its type.
LEMMA Update ==
  ASSUME NEW r \in Call
  PROVE  /\ \A v \in {"none", "buy", "sell", "close", "create"} : [r EXCEPT !.side = v] \in Call
         /\ \A v \in Symbols : [r EXCEPT !.symbol = v] \in Call
         /\ \A v \in Nat : /\ [r EXCEPT !.size = v] \in Call
                          /\ [r EXCEPT !.filled = v] \in Call
                          /\ [r EXCEPT !.gross = v] \in Call
         /\ \A v \in Int : /\ [r EXCEPT !.saw = v] \in Call
                          /\ [r EXCEPT !.held = v] \in Call
                          /\ [r EXCEPT !.balance = v] \in Call
                          /\ [r EXCEPT !.amount = v] \in Call
         /\ \A v \in Side : [r EXCEPT !.book = v] \in Call
         /\ \A v \in {"idle", "book", "held", "toclose", "closebook", "done"} \union Writing :
              [r EXCEPT !.pc = v] \in Call
  BY DEF Call

\* A call that starts, or has ended, holds nothing.
LEMMA Ended == CallOK(None) /\ CallOK([None EXCEPT !.pc = "done"])
<1>1. <<>> \in Side
  BY DEF Side
<1> QED BY <1>1 DEF CallOK, None, Call, Writing

\* A call about to write a balance and an amount.
LEMMA Ready == ASSUME NEW r, CallOK(r), r.pc \notin {"idle", "done"},
                      NEW b \in Nat, NEW a \in Nat
               PROVE CallOK([[[r EXCEPT !.balance = b] EXCEPT !.amount = a] EXCEPT !.pc = "account"])
<1> DEFINE r1 == [r EXCEPT !.balance = b]
           r2 == [r1 EXCEPT !.amount = a]
           r3 == [r2 EXCEPT !.pc = "account"]
<1>1. r \in Call
  BY DEF CallOK
<1>2. r1 \in Call /\ r1.balance = b /\ r1.saw = r.saw /\ r1.held = r.held
      /\ r1.side = r.side /\ r1.symbol = r.symbol
  BY <1>1 DEF Call
<1>3. r2 \in Call /\ r2.balance = b /\ r2.amount = a /\ r2.saw = r.saw /\ r2.held = r.held
      /\ r2.side = r.side /\ r2.symbol = r.symbol
  <2> HIDE DEF r1
  <2> QED BY <1>2 DEF Call
<1>4. r3 \in Call /\ r3.balance = b /\ r3.amount = a /\ r3.saw = r.saw /\ r3.held = r.held
      /\ r3.side = r.side /\ r3.symbol = r.symbol /\ r3.pc = "account"
  <2> HIDE DEF r2
  <2> QED BY <1>3 DEF Call, Writing
<1>5. CallOK(r3)
  <2> HIDE DEF r3
  <2> QED BY <1>4 DEF CallOK
<1> QED BY <1>5

\* A call that begins: an order or a close, and a creation.
LEMMA Started ==
  ASSUME NEW r, CallOK(r), NEW x \in {"buy", "sell", "close"}, NEW s \in Symbols,
         NEW b \in Nat, NEW n \in Nat, NEW pc \in {"toclose", "book"}
  PROVE  CallOK([r EXCEPT !.side = x, !.symbol = s, !.saw = b, !.size = n, !.pc = pc])
<1> DEFINE r1 == [r EXCEPT !.side = x]
           r2 == [r1 EXCEPT !.symbol = s]
           r3 == [r2 EXCEPT !.saw = b]
           r4 == [r3 EXCEPT !.size = n]
           r5 == [r4 EXCEPT !.pc = pc]
<1> HIDE DEF r1, r2, r3, r4, r5
<1>0. r \in Call
  BY DEF CallOK
<1>1. r1 \in Call /\ r1.saw = r.saw /\ r1.held = r.held /\ r1.balance = r.balance
      /\ r1.amount = r.amount /\ r1.side = x /\ r1.symbol = r.symbol /\ r1.pc = r.pc
  BY <1>0 DEF r1, Call, Writing
<1>2. r2 \in Call /\ r2.saw = r.saw /\ r2.held = r.held /\ r2.balance = r.balance
      /\ r2.amount = r.amount /\ r2.side = x /\ r2.symbol = s /\ r2.pc = r.pc
  BY <1>1 DEF r2, Call, Writing
<1>3. r3 \in Call /\ r3.saw = b /\ r3.held = r.held /\ r3.balance = r.balance
      /\ r3.amount = r.amount /\ r3.side = x /\ r3.symbol = s /\ r3.pc = r.pc
  BY <1>2 DEF r3, Call, Writing
<1>4. r4 \in Call /\ r4.saw = b /\ r4.held = r.held /\ r4.balance = r.balance
      /\ r4.amount = r.amount /\ r4.side = x /\ r4.symbol = s /\ r4.pc = r.pc
  BY <1>3 DEF r4, Call, Writing
<1>5. r5 \in Call /\ r5.saw = b /\ r5.held = r.held /\ r5.balance = r.balance
      /\ r5.amount = r.amount /\ r5.side = x /\ r5.symbol = s /\ r5.pc = pc
  BY <1>4 DEF r5, Call, Writing
<1>6. CallOK(r5)
  BY <1>5 DEF CallOK
<1> QED BY <1>6 DEF r1, r2, r3, r4, r5

LEMMA Creating ==
  ASSUME NEW r, CallOK(r), NEW b \in Nat
  PROVE  CallOK([r EXCEPT !.side = "create", !.balance = b, !.pc = "account"])
<1> DEFINE r1 == [r EXCEPT !.side = "create"]
           r2 == [r1 EXCEPT !.balance = b]
           r3 == [r2 EXCEPT !.pc = "account"]
<1> HIDE DEF r1, r2, r3
<1>0. r \in Call
  BY DEF CallOK
<1>1. r1 \in Call /\ r1.saw = r.saw /\ r1.held = r.held /\ r1.balance = r.balance
      /\ r1.amount = r.amount /\ r1.side = "create" /\ r1.symbol = r.symbol /\ r1.pc = r.pc
  BY <1>0 DEF r1, Call, Writing
<1>2. r2 \in Call /\ r2.saw = r.saw /\ r2.held = r.held /\ r2.balance = b
      /\ r2.amount = r.amount /\ r2.side = "create" /\ r2.symbol = r.symbol /\ r2.pc = r.pc
  BY <1>1 DEF r2, Call, Writing
<1>3. r3 \in Call /\ r3.saw = r.saw /\ r3.held = r.held /\ r3.balance = b
      /\ r3.amount = r.amount /\ r3.side = "create" /\ r3.symbol = r.symbol /\ r3.pc = "account"
  BY <1>2 DEF r3, Call, Writing
<1>4. CallOK(r3)
  BY <1>3 DEF CallOK
<1> QED BY <1>4 DEF r1, r2, r3

\* A call that has seen a book, before the engine.
LEMMA Priced ==
  ASSUME NEW r, CallOK(r), r.pc \notin {"idle", "done", "account"},
         NEW b \in Side, NEW f \in Nat, NEW g \in Nat
  PROVE  CallOK([r EXCEPT !.book = b, !.filled = f, !.gross = g])
<1> DEFINE r1 == [r EXCEPT !.book = b]
           r2 == [r1 EXCEPT !.filled = f]
           r3 == [r2 EXCEPT !.gross = g]
<1> HIDE DEF r1, r2, r3
<1>0. r \in Call
  BY DEF CallOK
<1>1. r1 \in Call /\ r1.saw = r.saw /\ r1.held = r.held /\ r1.balance = r.balance
      /\ r1.amount = r.amount /\ r1.side = r.side /\ r1.symbol = r.symbol /\ r1.pc = r.pc
  BY <1>0 DEF r1, Call, Writing
<1>2. r2 \in Call /\ r2.saw = r.saw /\ r2.held = r.held /\ r2.balance = r.balance
      /\ r2.amount = r.amount /\ r2.side = r.side /\ r2.symbol = r.symbol /\ r2.pc = r.pc
  BY <1>1 DEF r2, Call, Writing
<1>3. r3 \in Call /\ r3.saw = r.saw /\ r3.held = r.held /\ r3.balance = r.balance
      /\ r3.amount = r.amount /\ r3.side = r.side /\ r3.symbol = r.symbol /\ r3.pc = r.pc
  BY <1>2 DEF r3, Call, Writing
<1>4. CallOK(r3)
  BY <1>3 DEF CallOK
<1> QED BY <1>3, <1>4 DEF r1, r2, r3

\* A call that has seen a book the policy allows.
LEMMA Seen ==
  ASSUME NEW r, CallOK(r), r.pc \notin {"idle", "done", "account"},
         NEW b \in Side, NEW f \in Nat, NEW g \in Nat
  PROVE  CallOK([r EXCEPT !.book = b, !.filled = f, !.gross = g, !.pc = "held"])
<1> DEFINE r1 == [r EXCEPT !.book = b]
           r2 == [r1 EXCEPT !.filled = f]
           r3 == [r2 EXCEPT !.gross = g]
           r4 == [r3 EXCEPT !.pc = "held"]
<1> HIDE DEF r1, r2, r3, r4
<1>0. r \in Call
  BY DEF CallOK
<1>1. r1 \in Call /\ r1.saw = r.saw /\ r1.held = r.held /\ r1.balance = r.balance
      /\ r1.amount = r.amount /\ r1.side = r.side /\ r1.symbol = r.symbol /\ r1.pc = r.pc
  BY <1>0 DEF r1, Call, Writing
<1>2. r2 \in Call /\ r2.saw = r.saw /\ r2.held = r.held /\ r2.balance = r.balance
      /\ r2.amount = r.amount /\ r2.side = r.side /\ r2.symbol = r.symbol /\ r2.pc = r.pc
  BY <1>1 DEF r2, Call, Writing
<1>3. r3 \in Call /\ r3.saw = r.saw /\ r3.held = r.held /\ r3.balance = r.balance
      /\ r3.amount = r.amount /\ r3.side = r.side /\ r3.symbol = r.symbol /\ r3.pc = r.pc
  BY <1>2 DEF r3, Call, Writing
<1>4. r4 \in Call /\ r4.saw = r.saw /\ r4.held = r.held /\ r4.balance = r.balance
      /\ r4.amount = r.amount /\ r4.side = r.side /\ r4.symbol = r.symbol /\ r4.pc = "held"
  BY <1>3 DEF r4, Call, Writing
<1>5. CallOK(r4)
  BY <1>4 DEF CallOK
<1> QED BY <1>5 DEF r1, r2, r3, r4

\* A call that goes on to its next await.
LEMMA Moved ==
  ASSUME NEW r, CallOK(r), r.pc \notin {"idle", "done", "account"}, NEW pc \in {"held", "trade"}
  PROVE  CallOK([r EXCEPT !.pc = pc])
<1> DEFINE r1 == [r EXCEPT !.pc = pc]
<1> HIDE DEF r1
<1>0. r \in Call
  BY DEF CallOK
<1>1. r1 \in Call /\ r1.saw = r.saw /\ r1.held = r.held /\ r1.balance = r.balance
      /\ r1.amount = r.amount /\ r1.side = r.side /\ r1.symbol = r.symbol /\ r1.pc = pc
  BY <1>0 DEF r1, Call, Writing
<1>2. CallOK(r1)
  BY <1>1 DEF CallOK
<1> QED BY <1>2 DEF r1

\* A call that has seen what it will close.
LEMMA Owned ==
  ASSUME NEW r, CallOK(r), r.pc \notin {"idle", "done", "account"}, NEW n \in Nat
  PROVE  CallOK([r EXCEPT !.held = n, !.size = n, !.pc = "closebook"])
<1> DEFINE r1 == [r EXCEPT !.held = n]
           r2 == [r1 EXCEPT !.size = n]
           r3 == [r2 EXCEPT !.pc = "closebook"]
<1> HIDE DEF r1, r2, r3
<1>0. r \in Call
  BY DEF CallOK
<1>1. r1 \in Call /\ r1.saw = r.saw /\ r1.held = n /\ r1.balance = r.balance
      /\ r1.amount = r.amount /\ r1.side = r.side /\ r1.symbol = r.symbol /\ r1.pc = r.pc
  BY <1>0 DEF r1, Call, Writing
<1>2. r2 \in Call /\ r2.saw = r.saw /\ r2.held = n /\ r2.balance = r.balance
      /\ r2.amount = r.amount /\ r2.side = r.side /\ r2.symbol = r.symbol /\ r2.pc = r.pc
  BY <1>1 DEF r2, Call, Writing
<1>3. r3 \in Call /\ r3.saw = r.saw /\ r3.held = n /\ r3.balance = r.balance
      /\ r3.amount = r.amount /\ r3.side = r.side /\ r3.symbol = r.symbol /\ r3.pc = "closebook"
  BY <1>2 DEF r3, Call, Writing
<1>4. CallOK(r3)
  BY <1>3 DEF CallOK
<1> QED BY <1>4 DEF r1, r2, r3

\* executeMarketOrder returns no negative balance and no negative amount.
LEMMA Executed == ASSUME NEW r, CallOK(r), r.pc \notin {"idle", "done"} PROVE CallOK(Execute(r))
<1>1. r.gross \in Nat /\ r.filled \in Nat /\ r.saw \in Int /\ r.saw >= 0
      /\ r.held \in Int /\ r.held >= 0
  BY DEF CallOK, Call
<1>2. Gross(r) \in Nat /\ Fee(r) \in Nat /\ Fee(r) <= Gross(r)
  BY <1>1, FeeIsPart DEF Gross, Fee
<1>3. CASE ~Executes(r)
  BY <1>3, Ended DEF Execute
<1>4. CASE Executes(r) /\ r.side = "buy"
  <2> DEFINE b == r.saw - (Gross(r) + Fee(r))
             a == r.held + r.filled
  <2>1. b \in Nat
    BY <1>1, <1>2, <1>4 DEF Executes, CanAfford
  <2>2. a \in Nat
    BY <1>1
  <2>3. Execute(r) = [[[r EXCEPT !.balance = b] EXCEPT !.amount = a] EXCEPT !.pc = "account"]
    BY <1>4 DEF Execute, Outcome
  <2> HIDE DEF a, b
  <2>4. CallOK([[[r EXCEPT !.balance = b] EXCEPT !.amount = a] EXCEPT !.pc = "account"])
    BY <2>1, <2>2, Ready
  <2> QED BY <2>3, <2>4
<1>5. CASE Executes(r) /\ r.side # "buy"
  <2> DEFINE b == r.saw + Gross(r) - Fee(r)
             a == r.held - r.filled
  <2>1. b \in Nat
    BY <1>1, <1>2
  <2>2. a \in Nat
    BY <1>1, <1>5 DEF Executes, CanSell
  <2>3. Execute(r) = [[[r EXCEPT !.balance = b] EXCEPT !.amount = a] EXCEPT !.pc = "account"]
    BY <1>5 DEF Execute, Outcome
  <2> HIDE DEF a, b
  <2>4. CallOK([[[r EXCEPT !.balance = b] EXCEPT !.amount = a] EXCEPT !.pc = "account"])
    BY <2>1, <2>2, Ready
  <2> QED BY <2>3, <2>4
<1> QED BY <1>3, <1>4, <1>5

\* A step that only changes the record of one call keeps the calls well-formed.
LEMMA OneCall == ASSUME IInv, NEW c \in Calls, NEW v, CallOK(v), Set(c, v)
                 PROVE call' \in [Calls -> Call] /\ \A d \in Calls : CallOK(call'[d])
<1>1. call \in [Calls -> Call] /\ v \in Call
  BY DEF IInv, TypeOK, CallOK
<1> QED BY <1>1 DEF IInv, Set

\* The books the exchange shows, the sizes and the constants are well-formed.
LEMMA Inputs == /\ \A n \in Sizes : n \in Nat
                /\ \A b \in Asks \union Bids : b \in Side
                /\ Initial \in Nat
  BY TradingBounds

\* The invariant holds at the start.
LEMMA InitIInv == Init => IInv
<1> SUFFICES ASSUME Init PROVE IInv
  OBVIOUS
<1>1. CallOK(None)
  BY Ended
<1>2. call \in [Calls -> Call]
  <2>1. None \in Call
    BY <1>1 DEF CallOK
  <2> HIDE DEF CallOK
  <2> QED BY <2>1 DEF Init
<1>3. mode \in {"readonly", "paper", "testnet"}
  BY TradingBounds DEF Init
<1>4. trades \in [spent : Int, earned : Int, bought : [Symbols -> Nat], sold : [Symbols -> Nat]]
  BY DEF Init
<1>5. account \in [open : BOOLEAN, balance : Int]
  BY DEF Init
<1>6. position \in [Symbols -> Int]
  BY DEF Init
<1>7. crashes \in Nat /\ faults \in Nat /\ torn \in BOOLEAN
  BY DEF Init
<1>8. TypeOK
  BY <1>2, <1>3, <1>4, <1>5, <1>6, <1>7 DEF TypeOK
<1> QED BY <1>1, <1>8 DEF Init, IInv, Solvent

\* What each handler holds after a step is well-formed, one lemma for the steps that read.
LEMMA Reads == ASSUME IInv, NEW c \in Calls,
                      ReadAccount(c) \/ AskCreate(c) \/ ReadBook(c) \/ ReadPosition(c)
                        \/ ReadToClose(c) \/ BookToClose(c)
               PROVE \E v : CallOK(v) /\ Set(c, v)
<1>1. CallOK(call[c])
  BY DEF IInv
<1>2. account.balance \in Nat
  BY DEF IInv, TypeOK, Solvent
<1>3. \A s \in Symbols : position[s] \in Nat
  BY DEF IInv, TypeOK, Solvent
<1>4. End(c) => \E v : CallOK(v) /\ Set(c, v)
  BY Ended DEF End
<1>5. CASE ReadAccount(c)
  <2>1. ASSUME NEW side \in {"buy", "sell", "close"}, NEW s \in Symbols, NEW n \in Sizes
        PROVE CallOK([None EXCEPT !.side = side, !.symbol = s, !.saw = account.balance,
                                  !.size = IF side = "close" THEN 0 ELSE n,
                                  !.pc = IF side = "close" THEN "toclose" ELSE "book"])
    <3> DEFINE size == IF side = "close" THEN 0 ELSE n
               next == IF side = "close" THEN "toclose" ELSE "book"
    <3>1. size \in Nat /\ next \in {"toclose", "book"}
      BY Inputs
    <3> HIDE DEF size, next
    <3> DEFINE b == account.balance
               r == None
    <3> HIDE DEF b, r
    <3>2. CallOK(r) /\ b \in Nat
      BY <1>2, Ended DEF b, r
    <3>3. CallOK([r EXCEPT !.side = side, !.symbol = s, !.saw = b, !.size = size, !.pc = next])
      BY <3>1, <3>2, Started
    <3> QED BY <3>3 DEF size, next, b, r
  <2>2. CASE ~account.open
    BY <2>2, <1>4, <1>5 DEF ReadAccount
  <2>3. CASE account.open
    BY <2>1, <2>3, <1>5 DEF ReadAccount
  <2> QED BY <2>2, <2>3
<1>6. CASE AskCreate(c)
  <2>1. Initial \in Nat
    BY Inputs
  <2>4. CallOK([None EXCEPT !.side = "create", !.balance = Initial, !.pc = "account"])
    BY <2>1, Ended, Creating
  <2> QED BY <2>4, <1>4, <1>6 DEF AskCreate
<1>7. CASE ReadBook(c)
  <2>1. ASSUME NEW b \in Asks \union Bids
        PROVE CallOK([call[c] EXCEPT !.book = b, !.filled = Filled(b, call[c].size),
                                     !.gross = Notional(b, call[c].size), !.pc = "held"])
    <3> DEFINE f == Filled(b, call[c].size)
               g == Notional(b, call[c].size)
    <3>1. b \in Side /\ call[c].size \in Nat
      BY <1>1, Inputs DEF CallOK, Call
    <3>2. f \in Nat /\ g \in Nat
      BY <3>1, Fills
    <3>3. call[c].pc \notin {"idle", "done"} /\ call[c].pc # "account"
      BY <1>7 DEF ReadBook
    <3> DEFINE r == call[c]
    <3> HIDE DEF f, g, r
    <3>4. CallOK(r) /\ r.pc \notin {"idle", "done", "account"}
      BY <1>1, <3>3 DEF r
    <3>5. CallOK([r EXCEPT !.book = b, !.filled = f, !.gross = g, !.pc = "held"])
      BY <3>1, <3>2, <3>4, Seen
    <3> QED BY <3>5 DEF f, g, r
  <2>2. \E v : CallOK(v) /\ Set(c, v)
    <3>1. PICK b \in Shown(call[c].side) :
            LET seen == [call[c] EXCEPT !.book = b, !.filled = Filled(b, call[c].size),
                                        !.gross = Notional(b, call[c].size), !.pc = "held"]
            IN  Set(c, seen) \/ End(c)
      BY <1>7 DEF ReadBook
    <3>2. b \in Asks \union Bids
      BY DEF Shown
    <3> QED BY <2>1, <3>1, <3>2, <1>4
  <2> QED BY <2>2
<1>8. CASE ReadPosition(c)
  <2> DEFINE v == [call[c] EXCEPT !.held = position[call[c].symbol]]
  <2>1. call[c].pc = "held" /\ call[c].symbol \in Symbols
    BY <1>1, <1>8 DEF ReadPosition, CallOK
  <2>2. CallOK(v) /\ v.pc = "held"
    BY <1>1, <1>3, <2>1 DEF CallOK, Call
  <2>3. CallOK(Execute(v))
    <3> HIDE DEF v
    <3> QED BY <2>2, Executed
  <2> QED BY <2>3, <1>8 DEF ReadPosition
<1>9. CASE ReadToClose(c)
  <2> DEFINE held == position[call[c].symbol]
             v == [call[c] EXCEPT !.held = held, !.size = held, !.pc = "closebook"]
  <2>1. call[c].pc = "toclose" /\ call[c].symbol \in Symbols
    BY <1>1, <1>9 DEF ReadToClose, CallOK
  <2>2. held \in Nat
    BY <1>3, <2>1
  <2>3. CallOK(v)
    <3> HIDE DEF held
    <3> QED BY <1>1, <2>1, <2>2, Owned
  <2> QED BY <2>3, <1>4, <1>9 DEF ReadToClose
<1>10. CASE BookToClose(c)
  <2>1. ASSUME NEW b \in Bids
        PROVE CallOK(Execute([call[c] EXCEPT !.book = b, !.filled = Filled(b, call[c].size),
                                             !.gross = Notional(b, call[c].size)]))
    <3> DEFINE f == Filled(b, call[c].size)
               g == Notional(b, call[c].size)
               v == [call[c] EXCEPT !.book = b, !.filled = f, !.gross = g]
    <3>1. b \in Side /\ call[c].size \in Nat
      BY <1>1, Inputs DEF CallOK, Call
    <3>2. f \in Nat /\ g \in Nat
      BY <3>1, Fills
    <3>3. call[c].pc = "closebook"
      BY <1>10 DEF BookToClose
    <3>4. CallOK(v) /\ v.pc = "closebook"
      <4> DEFINE r == call[c]
      <4> HIDE DEF f, g, r
      <4>1. CallOK(r) /\ r.pc = "closebook" /\ r.pc \notin {"idle", "done", "account"}
        BY <1>1, <3>3 DEF r
      <4>2. CallOK([r EXCEPT !.book = b, !.filled = f, !.gross = g])
        BY <3>1, <3>2, <4>1, Priced
      <4>3. [r EXCEPT !.book = b, !.filled = f, !.gross = g].pc = r.pc
        BY <4>1 DEF CallOK, Call
      <4> QED BY <4>1, <4>2, <4>3 DEF r
    <3>5. CallOK(Execute(v))
      <4> HIDE DEF v
      <4> QED BY <3>4, Executed
    <3> QED BY <3>5
  <2> QED BY <2>1, <1>10 DEF BookToClose
<1> QED BY <1>5, <1>6, <1>7, <1>8, <1>9, <1>10

\* The steps that write put the values of their call in the store.
LEMMA Writes == ASSUME IInv, NEW c \in Calls, PutAccount(c) \/ PutPosition(c) \/ AppendTrade(c)
                PROVE \E v : CallOK(v) /\ Set(c, v)
<1> DEFINE r == call[c]
<1> HIDE DEF r
<1>1. CallOK(r) /\ r \in Call
  BY DEF IInv, CallOK, r
<1>2. End(c) => \E v : CallOK(v) /\ Set(c, v)
  BY Ended DEF End
<1>3. CASE PutAccount(c)
  <2>1. CASE r.side = "create"
    BY <2>1, <1>2, <1>3 DEF PutAccount, r
  <2>2. CASE r.side # "create"
    <3>1. Set(c, [r EXCEPT !.pc = "position"]) /\ r.pc = "account"
      BY <2>2, <1>3 DEF PutAccount, r
    <3>2. CallOK([r EXCEPT !.pc = "position"])
      BY <1>1, <2>2, <3>1 DEF CallOK, Call, Writing
    <3> QED BY <3>1, <3>2
  <2> QED BY <2>1, <2>2
<1>4. CASE PutPosition(c)
  <2>1. Set(c, [r EXCEPT !.pc = "trade"]) /\ r.pc = "position"
    BY <1>4 DEF PutPosition, r
  <2>2. r.side # "create"
    BY <1>1, <2>1 DEF CallOK
  <2>3. CallOK([r EXCEPT !.pc = "trade"])
    BY <1>1, <2>1, <2>2 DEF CallOK, Call, Writing
  <2> QED BY <2>1, <2>3
<1>5. CASE AppendTrade(c)
  BY <1>2, <1>5 DEF AppendTrade
<1> QED BY <1>3, <1>4, <1>5

\* The invariant follows from its parts when the step changes the record of one call.
LEMMA Assemble == ASSUME IInv, NEW c \in Calls, \E v : CallOK(v) /\ Set(c, v),
                         account' \in [open : BOOLEAN, balance : Nat],
                         position' \in [Symbols -> Nat],
                         trades' \in [spent : Int, earned : Int, bought : [Symbols -> Nat],
                                      sold : [Symbols -> Nat]],
                         mode' = mode, crashes' = crashes, faults' \in Nat, torn' \in BOOLEAN
                  PROVE IInv'
<1>1. call' \in [Calls -> Call] /\ \A d \in Calls : CallOK(call'[d])
  BY OneCall
<1>2. account'.balance \in Nat /\ account' \in [open : BOOLEAN, balance : Int]
  OBVIOUS
<1>3. position' \in [Symbols -> Int] /\ \A s \in Symbols : position'[s] \in Nat
  OBVIOUS
<1>4. TypeOK'
  BY <1>1, <1>2, <1>3 DEF IInv, TypeOK
<1> QED BY <1>1, <1>2, <1>3, <1>4 DEF IInv, Solvent

\* What the store holds in a state of the invariant.
LEMMA Stored == ASSUME IInv
                PROVE /\ account \in [open : BOOLEAN, balance : Nat]
                      /\ position \in [Symbols -> Nat]
                      /\ trades \in [spent : Int, earned : Int, bought : [Symbols -> Nat],
                                     sold : [Symbols -> Nat]]
                      /\ faults \in Nat /\ torn \in BOOLEAN
<1>1. position \in [Symbols -> Int] /\ \A s \in Symbols : position[s] >= 0
  BY DEF IInv, TypeOK, Solvent
<1>2. position \in [Symbols -> Nat]
  BY <1>1
<1>3. account \in [open : BOOLEAN, balance : Int] /\ account.balance >= 0
  BY DEF IInv, TypeOK, Solvent
<1>4. account \in [open : BOOLEAN, balance : Nat]
  BY <1>3
<1> QED BY <1>2, <1>4 DEF IInv, TypeOK

\* The sums stay well-formed when a trade is added.
LEMMA Sums == ASSUME IInv, NEW c \in Calls, AppendTrade(c)
              PROVE trades' \in [spent : Int, earned : Int, bought : [Symbols -> Nat],
                                 sold : [Symbols -> Nat]]
<1> DEFINE r == call[c]
           paid == Gross(r) + Fee(r)
           got == Gross(r) - Fee(r)
<1>1. CallOK(r) /\ r.pc = "trade"
  BY DEF IInv, AppendTrade
<1>2. r.symbol \in Symbols /\ r.filled \in Nat /\ r.gross \in Nat
  BY <1>1 DEF CallOK, Call
<1>3. paid \in Int /\ got \in Int /\ Gross(r) \in Int /\ Fee(r) \in Int
  BY <1>2, FeeIsPart DEF Gross, Fee
<1> HIDE DEF r, paid, got
<1>4. trades \in [spent : Int, earned : Int, bought : [Symbols -> Nat], sold : [Symbols -> Nat]]
  BY Stored
<1>5. CASE r.side = "buy"
  <2>1. trades.spent + paid \in Int
        /\ [trades.bought EXCEPT ![r.symbol] = @ + r.filled] \in [Symbols -> Nat]
    BY <1>2, <1>3, <1>4
  <2>2. trades' = [spent |-> trades.spent + paid, earned |-> trades.earned,
                   bought |-> [trades.bought EXCEPT ![r.symbol] = @ + r.filled],
                   sold |-> trades.sold]
    <3>1. trades.spent + Gross(r) + Fee(r) = trades.spent + paid
      BY <1>3, <1>4 DEF paid
    <3>2. trades' = [trades EXCEPT !.spent = trades.spent + paid,
                                   !.bought[r.symbol] = @ + r.filled]
      BY <3>1, <1>5 DEF AppendTrade, Added, r
    <3> QED BY <3>2, <1>4
  <2> QED BY <1>4, <2>1, <2>2
<1>6. CASE r.side # "buy"
  <2>1. trades.earned + got \in Int
        /\ [trades.sold EXCEPT ![r.symbol] = @ + r.filled] \in [Symbols -> Nat]
    BY <1>2, <1>3, <1>4
  <2>2. trades' = [spent |-> trades.spent, earned |-> trades.earned + got,
                   bought |-> trades.bought,
                   sold |-> [trades.sold EXCEPT ![r.symbol] = @ + r.filled]]
    BY <1>3, <1>4, <1>6 DEF AppendTrade, Added, got, r
  <2> QED BY <1>4, <2>1, <2>2
<1> QED BY <1>5, <1>6

\* Every step keeps the invariant.
LEMMA NextIInv == IInv /\ [Next]_vars => IInv'
<1> SUFFICES ASSUME IInv, [Next]_vars PROVE IInv'
  OBVIOUS
<1>1. /\ account \in [open : BOOLEAN, balance : Nat] /\ position \in [Symbols -> Nat]
      /\ trades \in [spent : Int, earned : Int, bought : [Symbols -> Nat], sold : [Symbols -> Nat]]
      /\ faults \in Nat /\ torn \in BOOLEAN
  BY Stored
<1>2. ASSUME NEW c \in Calls,
             ReadAccount(c) \/ AskCreate(c) \/ ReadBook(c) \/ ReadPosition(c)
               \/ ReadToClose(c) \/ BookToClose(c)
      PROVE IInv'
  <2>1. UNCHANGED <<account, position, trades, mode, crashes, faults, torn>>
    BY <1>2 DEF ReadAccount, AskCreate, ReadBook, ReadPosition, ReadToClose, BookToClose
  <2>2. \E v : CallOK(v) /\ Set(c, v)
    BY <1>2, Reads
  <2> QED BY <1>1, <2>1, <2>2, Assemble
<1>3. ASSUME NEW c \in Calls, PutAccount(c) PROVE IInv'
  <2>1. \E v : CallOK(v) /\ Set(c, v)
    BY <1>3, Writes
  <2>2. account' \in [open : BOOLEAN, balance : Nat]
    <3>1. call[c].balance \in Nat
      BY DEF IInv, CallOK, Call
    <3> QED BY <3>1, <1>3 DEF PutAccount
  <2>3. torn' \in BOOLEAN
    BY <1>1, <1>3 DEF PutAccount
  <2>4. UNCHANGED <<position, trades, mode, crashes, faults>>
    BY <1>3 DEF PutAccount
  <2> QED BY <1>1, <2>1, <2>2, <2>3, <2>4, Assemble
<1>4. ASSUME NEW c \in Calls, PutPosition(c) PROVE IInv'
  <2>1. \E v : CallOK(v) /\ Set(c, v)
    BY <1>4, Writes
  <2>2. position' \in [Symbols -> Nat]
    <3>1. call[c].amount \in Nat
      BY DEF IInv, CallOK, Call
    <3> QED BY <1>1, <3>1, <1>4 DEF PutPosition
  <2>3. torn' \in BOOLEAN
    BY <1>1, <1>4 DEF PutPosition
  <2>4. UNCHANGED <<account, trades, mode, crashes, faults>>
    BY <1>4 DEF PutPosition
  <2> QED BY <1>1, <2>1, <2>2, <2>3, <2>4, Assemble
<1>5. ASSUME NEW c \in Calls, AppendTrade(c) PROVE IInv'
  <2>1. \E v : CallOK(v) /\ Set(c, v)
    BY <1>5, Writes
  <2>2. UNCHANGED <<account, position, mode, crashes, faults, torn>>
    BY <1>5 DEF AppendTrade
  <2> QED BY <1>1, <1>5, <2>1, <2>2, Sums, Assemble
<1>6. ASSUME NEW c \in Calls, Throw(c) PROVE IInv'
  <2>1. \E v : CallOK(v) /\ Set(c, v)
    BY <1>6, Ended DEF Throw, End
  <2>2. faults' \in Nat /\ torn' \in BOOLEAN
    BY <1>1, <1>6 DEF Throw
  <2>3. UNCHANGED <<account, position, trades, mode, crashes>>
    BY <1>6 DEF Throw
  <2> QED BY <1>1, <2>1, <2>2, <2>3, Assemble
<1>7. CASE Restart
  <2>1. call' \in [Calls -> Call] /\ \A d \in Calls : CallOK(call'[d])
    <3>1. CallOK(None) /\ CallOK([None EXCEPT !.pc = "done"])
      BY Ended
    <3>2. None \in Call /\ [None EXCEPT !.pc = "done"] \in Call
      BY <3>1 DEF CallOK
    <3> DEFINE dead == [None EXCEPT !.pc = "done"]
    <3>3. call' = [c \in Calls |-> IF call[c].pc = "idle" THEN None ELSE dead]
      BY <1>7 DEF Restart
    <3> HIDE DEF dead
    <3> QED BY <3>1, <3>2, <3>3 DEF dead
  <2>2. mode' \in {"readonly", "paper", "testnet"} /\ crashes' \in Nat /\ torn' \in BOOLEAN
    BY <1>1, <1>7, TradingBounds DEF Restart, IInv, TypeOK
  <2>3. UNCHANGED <<account, position, trades, faults>>
    BY <1>7 DEF Restart
  <2>4. TypeOK' /\ Solvent'
    BY <2>1, <2>2, <2>3 DEF IInv, TypeOK, Solvent
  <2> QED BY <2>1, <2>4 DEF IInv
<1>8. CASE UNCHANGED vars
  BY <1>8 DEF vars, IInv, TypeOK, Solvent
<1> QED BY <1>2, <1>3, <1>4, <1>5, <1>6, <1>7, <1>8 DEF Next

\* The inductive invariant holds in every behaviour.
THEOREM TradingInvariant == Spec => []IInv
<1>1. Init => IInv
  BY InitIInv
<1>2. IInv /\ [Next]_vars => IInv'
  BY NextIInv
<1> QED BY <1>1, <1>2, PTL DEF Spec

\* Every variable keeps its type.
THEOREM TradingTypes == Spec => []TypeOK
<1>1. IInv => TypeOK
  BY DEF IInv
<1> QED BY <1>1, TradingInvariant, PTL

\* No balance and no position is ever negative: the engine opens no shorts and spends no
\* money there is not, whatever runs at the same time, fails or dies.
THEOREM NeverNegative == Spec => []Solvent
<1>1. IInv => Solvent
  BY DEF IInv
<1> QED BY <1>1, TradingInvariant, PTL

\* In readonly mode no purchase is past the check of the policy.
NoPurchase == mode = "readonly" => \A c \in Calls : call[c].side = "buy" => call[c].pc = "book"

\* A step of a handler under readonly leaves its call outside of a purchase.
LEMMA CallBuysNothing ==
  ASSUME IInv, NoPurchase, mode = "readonly", NEW c \in Calls, NEW v, Set(c, v),
         v.side = "buy" => v.pc = "book", mode' = mode
  PROVE  NoPurchase'
<1>1. call \in [Calls -> Call]
  BY DEF IInv, TypeOK
<1> QED BY <1>1 DEF NoPurchase, Set

\* A call ends without a side, and the engine changes no side.
LEMMA Sides == /\ None.side = "none" /\ [None EXCEPT !.pc = "done"].side = "none"
               /\ \A r \in Call : r.side # "buy" => Execute(r).side # "buy"
<1>1. None.side = "none" /\ [None EXCEPT !.pc = "done"].side = "none"
  BY DEF None
<1>2. ASSUME NEW r \in Call, r.side # "buy" PROVE Execute(r).side # "buy"
  <2>1. CASE Executes(r)
    <3> DEFINE b == r.saw + Gross(r) - Fee(r)
               a == r.held - r.filled
               r1 == [r EXCEPT !.balance = b]
               r2 == [r1 EXCEPT !.amount = a]
    <3>1. Execute(r) = [r2 EXCEPT !.pc = "account"]
      BY <1>2, <2>1 DEF Execute, Outcome
    <3> HIDE DEF a, b
    <3>2. r1.side = r.side /\ DOMAIN r1 = DOMAIN r /\ "side" \in DOMAIN r
      BY DEF Call
    <3> HIDE DEF r1
    <3>3. r2.side = r.side /\ DOMAIN r2 = DOMAIN r
      BY <3>2
    <3> HIDE DEF r2
    <3>4. [r2 EXCEPT !.pc = "account"].side = r.side
      BY <3>2, <3>3
    <3> QED BY <3>1, <3>4, <1>2
  <2>2. CASE ~Executes(r)
    BY <2>2, <1>1 DEF Execute
  <2> QED BY <2>1, <2>2
<1> QED BY <1>1, <1>2

\* Every step keeps readonly processes free of purchases.
LEMMA NextNoPurchase == IInv /\ NoPurchase /\ [Next]_vars => NoPurchase'
<1> SUFFICES ASSUME IInv, NoPurchase, [Next]_vars PROVE NoPurchase'
  OBVIOUS
<1>1. call \in [Calls -> Call] /\ \A c \in Calls : CallOK(call[c])
  BY DEF IInv, TypeOK
<1>2. CASE Restart
  BY <1>2, Sides DEF Restart, NoPurchase
<1>3. CASE UNCHANGED vars
  BY <1>3 DEF vars, NoPurchase
<1>4. ASSUME NEW c \in Calls, mode # "readonly", mode' = mode PROVE NoPurchase'
  BY <1>4 DEF NoPurchase
<1>5. ASSUME NEW c \in Calls, mode = "readonly", mode' = mode, End(c) PROVE NoPurchase'
  BY <1>5, Sides, CallBuysNothing DEF End
<1>6. ASSUME NEW c \in Calls, ReadAccount(c), mode = "readonly" PROVE NoPurchase'
  <2>1. mode' = mode
    BY <1>6 DEF ReadAccount
  <2>2. CASE ~account.open
    BY <1>5, <1>6, <2>1, <2>2 DEF ReadAccount
  <2>3. CASE account.open
    <3>1. PICK side \in {"buy", "sell", "close"}, s \in Symbols, n \in Sizes :
            Set(c, [None EXCEPT !.side = side, !.symbol = s, !.saw = account.balance,
                                !.size = IF side = "close" THEN 0 ELSE n,
                                !.pc = IF side = "close" THEN "toclose" ELSE "book"])
      BY <1>6, <2>3 DEF ReadAccount
    <3> DEFINE v == [None EXCEPT !.side = side, !.symbol = s, !.saw = account.balance,
                                 !.size = IF side = "close" THEN 0 ELSE n,
                                 !.pc = IF side = "close" THEN "toclose" ELSE "book"]
    <3>2. v.side = side /\ (side # "close" => v.pc = "book")
      BY DEF None
    <3> QED BY <1>6, <2>1, <3>1, <3>2, CallBuysNothing
  <2> QED BY <2>2, <2>3
<1>7. ASSUME NEW c \in Calls, AskCreate(c), mode = "readonly" PROVE NoPurchase'
  <2>1. mode' = mode
    BY <1>7 DEF AskCreate
  <2> DEFINE v == [None EXCEPT !.side = "create", !.balance = Initial, !.pc = "account"]
  <2>2. v.side = "create"
    BY DEF None
  <2>3. End(c) \/ Set(c, v)
    BY <1>7 DEF AskCreate
  <2> QED BY <1>5, <1>7, <2>1, <2>2, <2>3, CallBuysNothing
<1>8. ASSUME NEW c \in Calls, ReadBook(c), mode = "readonly" PROVE NoPurchase'
  BY <1>5, <1>8 DEF ReadBook, Allowed
<1>9. ASSUME NEW c \in Calls, ReadPosition(c), mode = "readonly" PROVE NoPurchase'
  <2> DEFINE n == position[call[c].symbol]
             v == [call[c] EXCEPT !.held = n]
  <2>1. call[c].side # "buy" /\ mode' = mode
    BY <1>9 DEF ReadPosition, NoPurchase
  <2>2. n \in Int
    BY <1>1, <1>9 DEF ReadPosition, CallOK, IInv, TypeOK, Call
  <2> HIDE DEF n
  <2>3. v \in Call /\ v.side # "buy"
    <3>1. call[c] \in Call
      BY <1>1
    <3>2. v \in Call
      BY <3>1, <2>2, Update
    <3>3. v.side = call[c].side
      BY <3>1 DEF Call
    <3> QED BY <3>2, <3>3, <2>1
  <2>4. Set(c, Execute(v))
    BY <1>9 DEF ReadPosition, n
  <2> HIDE DEF v
  <2> QED BY <1>9, <2>1, <2>3, <2>4, Sides, CallBuysNothing
<1>10. ASSUME NEW c \in Calls, ReadToClose(c), mode = "readonly" PROVE NoPurchase'
  <2> DEFINE n == position[call[c].symbol]
             v == [call[c] EXCEPT !.held = n, !.size = n, !.pc = "closebook"]
  <2>1. call[c].side # "buy" /\ mode' = mode
    BY <1>10 DEF ReadToClose, NoPurchase
  <2>2. v.side = call[c].side
    BY <1>1 DEF Call
  <2>3. End(c) \/ Set(c, v)
    BY <1>10 DEF ReadToClose
  <2> HIDE DEF v
  <2> QED BY <1>5, <1>10, <2>1, <2>2, <2>3, CallBuysNothing
<1>11. ASSUME NEW c \in Calls, BookToClose(c), mode = "readonly" PROVE NoPurchase'
  <2>1. call[c].side # "buy" /\ mode' = mode
    BY <1>11 DEF BookToClose, NoPurchase
  <2>2. PICK b \in Bids :
          Set(c, Execute([call[c] EXCEPT !.book = b, !.filled = Filled(b, call[c].size),
                                         !.gross = Notional(b, call[c].size)]))
    BY <1>11 DEF BookToClose
  <2> DEFINE f == Filled(b, call[c].size)
             g == Notional(b, call[c].size)
             v1 == [call[c] EXCEPT !.book = b]
             v2 == [v1 EXCEPT !.filled = f]
             v3 == [v2 EXCEPT !.gross = g]
  <2>3. b \in Side /\ f \in Nat /\ g \in Nat
    BY <1>1, Inputs, Fills DEF Call
  <2> HIDE DEF f, g
  <2>4. v1 \in Call /\ v1.side # "buy"
    <3>1. call[c] \in Call
      BY <1>1
    <3>2. v1 \in Call
      BY <3>1, <2>3, Update
    <3>3. v1.side = call[c].side
      BY <3>1 DEF Call
    <3> QED BY <3>2, <3>3, <2>1
  <2> HIDE DEF v1
  <2>5. v2 \in Call /\ v2.side # "buy"
    BY <2>3, <2>4, Update DEF Call
  <2> HIDE DEF v2
  <2>6. v3 \in Call /\ v3.side # "buy"
    BY <2>3, <2>5, Update DEF Call
  <2>7. Set(c, Execute(v3))
    BY <2>2 DEF v1, v2, f, g
  <2> HIDE DEF v3
  <2> QED BY <1>11, <2>1, <2>6, <2>7, Sides, CallBuysNothing
<1>12. ASSUME NEW c \in Calls, PutAccount(c), mode = "readonly" PROVE NoPurchase'
  <2> DEFINE v == [call[c] EXCEPT !.pc = "position"]
  <2>1. call[c].side # "buy" /\ mode' = mode
    BY <1>12 DEF PutAccount, NoPurchase
  <2>2. v.side = call[c].side
    BY <1>1 DEF Call
  <2>3. End(c) \/ Set(c, v)
    BY <1>12 DEF PutAccount
  <2> HIDE DEF v
  <2> QED BY <1>5, <1>12, <2>1, <2>2, <2>3, CallBuysNothing
<1>13. ASSUME NEW c \in Calls, PutPosition(c), mode = "readonly" PROVE NoPurchase'
  <2> DEFINE v == [call[c] EXCEPT !.pc = "trade"]
  <2>1. call[c].side # "buy" /\ mode' = mode
    BY <1>13 DEF PutPosition, NoPurchase
  <2>2. v.side = call[c].side
    BY <1>1 DEF Call
  <2>3. Set(c, v)
    BY <1>13 DEF PutPosition
  <2> HIDE DEF v
  <2> QED BY <1>13, <2>1, <2>2, <2>3, CallBuysNothing
<1>14. ASSUME NEW c \in Calls, AppendTrade(c) \/ Throw(c), mode = "readonly" PROVE NoPurchase'
  BY <1>5, <1>14 DEF AppendTrade, Throw
<1>15. ASSUME NEW c \in Calls,
              \/ ReadAccount(c) \/ AskCreate(c) \/ ReadBook(c) \/ ReadPosition(c)
              \/ ReadToClose(c) \/ BookToClose(c) \/ PutAccount(c) \/ PutPosition(c)
              \/ AppendTrade(c) \/ Throw(c)
       PROVE mode' = mode
  BY <1>15 DEF ReadAccount, AskCreate, ReadBook, ReadPosition, ReadToClose, BookToClose,
               PutAccount, PutPosition, AppendTrade, Throw
<1> QED BY <1>2, <1>3, <1>4, <1>6, <1>7, <1>8, <1>9, <1>10, <1>11, <1>12, <1>13, <1>14, <1>15
        DEF Next

\* A step that records a purchase is not one of a readonly process.
LEMMA StepBuysNothing == IInv /\ NoPurchase /\ [Next]_vars =>
                           [mode = "readonly" => trades'.bought = trades.bought]_vars
<1> SUFFICES ASSUME IInv, NoPurchase, Next, mode = "readonly" PROVE trades'.bought = trades.bought
  OBVIOUS
<1>1. ASSUME NEW c \in Calls, AppendTrade(c) PROVE trades'.bought = trades.bought
  <2>1. call[c].side # "buy"
    BY <1>1 DEF AppendTrade, NoPurchase
  <2>2. trades \in [spent : Int, earned : Int, bought : [Symbols -> Nat], sold : [Symbols -> Nat]]
    BY Stored
  <2> QED BY <1>1, <2>1, <2>2 DEF AppendTrade, Added
<1>2. CASE \E c \in Calls : AppendTrade(c)
  BY <1>1, <1>2
<1>3. CASE ~\E c \in Calls : AppendTrade(c)
  BY <1>3 DEF Next, ReadAccount, AskCreate, ReadBook, ReadPosition, ReadToClose, BookToClose,
              PutAccount, PutPosition, Throw, Restart
<1> QED BY <1>2, <1>3

\* A readonly process buys nothing, whatever the process before it left under way.
THEOREM ReadonlySafe == Spec => ReadonlyBuysNothing
<1>1. Init => NoPurchase
  BY Sides DEF Init, NoPurchase
<1>2. IInv /\ NoPurchase /\ [Next]_vars => NoPurchase'
  BY NextNoPurchase
<1>3. IInv /\ NoPurchase /\ [Next]_vars => [mode = "readonly" => trades'.bought = trades.bought]_vars
  BY StepBuysNothing
<1> QED BY <1>1, <1>2, <1>3, TradingInvariant, PTL DEF Spec, ReadonlyBuysNothing

-----------------------------------------------------------------------------
(***************************************************************************)
(* Fills. A call keeps the book it saw; what it fills and what that costs  *)
(* are those of the book, and of all ways to take as much from the book,   *)
(* best price first is the best.                                           *)
(***************************************************************************)
BookOK(r) ==
  r.book # <<>> =>
    /\ r.book \in Shown(r.side)
    /\ r.filled = Filled(r.book, r.size) /\ r.gross = Notional(r.book, r.size)

\* What moves from one level to another costs the difference of the prices.
LEMMA Shift ==
  ASSUME NEW a \in Nat, NEW b \in Nat, NEW k \in Nat, NEW p \in Nat, NEW q \in Nat
  PROVE  /\ p <= q => (a * p) + ((b + k) * q) >= ((a + k) * p) + (b * q)
         /\ q <= p => (a * p) + ((b + k) * q) <= ((a + k) * p) + (b * q)
<1>1. ASSUME NEW x \in Nat, NEW y \in Nat, x <= y
      PROVE  k * x <= k * y
  <2>1. y - x \in Nat /\ y = x + (y - x)
    BY <1>1
  <2> DEFINE d == y - x
  <2> HIDE DEF d
  <2>2. d \in Nat /\ y = x + d
    BY <2>1 DEF d
  <2>3. k * y = k * x + k * d
    BY <2>2
  <2>4. k * d \in Nat /\ k * x \in Nat
    BY <2>2, Product
  <2> QED
    BY <2>3, <2>4
<1>2. (b + k) * q = b * q + k * q /\ (a + k) * p = a * p + k * p
  OBVIOUS
<1>3. a * p \in Nat /\ b * q \in Nat /\ k * p \in Nat /\ k * q \in Nat
  BY Product
<1>4. (p <= q => k * p <= k * q) /\ (q <= p => k * q <= k * p)
  BY <1>1
<1> QED
  BY <1>2, <1>3, <1>4

\* The amounts and prices of a book, the missing levels being empty.
Depth(b, i) == IF i \in DOMAIN b THEN b[i].available ELSE 0
Price(b, i) == IF i \in DOMAIN b THEN b[i].price ELSE 0

LEMMA Walk ==
  ASSUME NEW b \in Side, b # <<>>, NEW n \in Nat
  PROVE  /\ Depth(b, 1) \in Nat /\ Depth(b, 2) \in Nat
         /\ Price(b, 1) \in Nat /\ Price(b, 2) \in Nat
         /\ TakeFirst(b, n) = Lesser(n, Depth(b, 1))
         /\ TakeSecond(b, n) = Lesser(n - TakeFirst(b, n), Depth(b, 2))
         /\ Notional(b, n) = Price(b, 1) * TakeFirst(b, n) + Price(b, 2) * TakeSecond(b, n)
<1>1. b \in Seq(Level) /\ Len(b) \in {1, 2} /\ DOMAIN b = 1..Len(b)
  <2>1. b \in Seq(Level) /\ Len(b) <= 2
    BY DEF Side
  <2>2. Len(b) \in Nat /\ Len(b) # 0 /\ DOMAIN b = 1..Len(b)
    BY <2>1
  <2>3. \A l \in Nat : l # 0 /\ l <= 2 => l \in {1, 2}
    OBVIOUS
  <2> QED
    BY <2>1, <2>2, <2>3
<1>2. 1 \in DOMAIN b /\ b[1] \in Level
  BY <1>1
<1>3. TakeFirst(b, n) = Lesser(n, Depth(b, 1)) /\ Depth(b, 1) \in Nat /\ Price(b, 1) \in Nat
  BY <1>2 DEF TakeFirst, Depth, Price, Level
<1>4. TakeFirst(b, n) \in Nat /\ TakeFirst(b, n) <= n
  BY <1>3 DEF Lesser
<1>5. CASE Len(b) = 1
  <2>1. 2 \notin DOMAIN b
    BY <1>1, <1>5
  <2>2. Depth(b, 2) = 0 /\ Price(b, 2) = 0 /\ TakeSecond(b, n) = 0
    BY <1>5, <2>1 DEF Depth, Price, TakeSecond
  <2>3. Notional(b, n) = b[1].price * TakeFirst(b, n) + 0
    BY <1>5 DEF Notional
  <2>4. Price(b, 1) * TakeFirst(b, n) \in Nat
    BY <1>3, <1>4, Product
  <2> QED
    BY <1>2, <1>3, <1>4, <2>2, <2>3, <2>4 DEF Lesser, Price
<1>6. CASE Len(b) = 2
  <2>1. 2 \in DOMAIN b /\ b[2] \in Level
    BY <1>1, <1>6
  <2>2. /\ Depth(b, 2) \in Nat /\ Price(b, 2) \in Nat
        /\ TakeSecond(b, n) = Lesser(n - TakeFirst(b, n), Depth(b, 2))
    BY <1>6, <2>1 DEF Depth, Price, TakeSecond, Level
  <2>3. Notional(b, n) = b[1].price * TakeFirst(b, n) + b[2].price * TakeSecond(b, n)
    BY <1>6 DEF Notional
  <2> QED
    BY <1>2, <1>3, <2>1, <2>2, <2>3 DEF Price
<1> QED
  BY <1>1, <1>5, <1>6

\* fillFromBook takes what there is, and no other way to take it is better.
LEMMA BestFill ==
  ASSUME NEW b \in Side, b # <<>>, NEW n \in Nat
  PROVE  /\ Filled(b, n) = Lesser(n, Depth(b, 1) + Depth(b, 2))
         /\ \E v \in (0 .. Depth(b, 1)) \X (0 .. Depth(b, 2)) : v[1] + v[2] = Filled(b, n)
         /\ \A v \in (0 .. Depth(b, 1)) \X (0 .. Depth(b, 2)) : v[1] + v[2] = Filled(b, n) =>
              /\ b \in Asks => Notional(b, n) <= v[1] * Price(b, 1) + v[2] * Price(b, 2)
              /\ b \in Bids => Notional(b, n) >= v[1] * Price(b, 1) + v[2] * Price(b, 2)
<1> DEFINE d1 == Depth(b, 1)
           d2 == Depth(b, 2)
           p1 == Price(b, 1)
           p2 == Price(b, 2)
           t1 == TakeFirst(b, n)
           t2 == TakeSecond(b, n)
<1>1. /\ d1 \in Nat /\ d2 \in Nat /\ p1 \in Nat /\ p2 \in Nat
      /\ t1 = Lesser(n, d1) /\ t2 = Lesser(n - t1, d2)
      /\ Notional(b, n) = p1 * t1 + p2 * t2 /\ Filled(b, n) = t1 + t2
  BY Walk DEF Filled
<1>2. (b \in Asks /\ Len(b) = 2 => p1 <= p2) /\ (b \in Bids /\ Len(b) = 2 => p2 <= p1)
  <2>1. Len(b) = 2 => 1 \in DOMAIN b /\ 2 \in DOMAIN b
    BY DEF Side
  <2> QED
    BY <2>1, BestFirst, <1>1 DEF Price, Side, Level
<1>3. Len(b) # 2 => d2 = 0
  <2>1. b \in Seq(Level) /\ Len(b) <= 2
    BY DEF Side
  <2>3. Len(b) \in Nat /\ DOMAIN b = 1..Len(b)
    BY <2>1
  <2>4. \A l \in Nat : l <= 2 /\ l # 2 => 2 \notin 1..l
    OBVIOUS
  <2>2. Len(b) # 2 => 2 \notin DOMAIN b
    BY <2>1, <2>3, <2>4
  <2> QED
    BY <2>2 DEF Depth
<1> HIDE DEF d1, d2, p1, p2, t1, t2
<1>4. t1 \in 0..d1 /\ t2 \in 0..d2 /\ t1 + t2 = Lesser(n, d1 + d2) /\ t1 <= n
  BY <1>1 DEF Lesser
<1>5. <<t1, t2>> \in (0..d1) \X (0..d2) /\ <<t1, t2>>[1] + <<t1, t2>>[2] = Filled(b, n)
  BY <1>1, <1>4
<1>6. ASSUME NEW v \in (0..d1) \X (0..d2), v[1] + v[2] = Filled(b, n)
      PROVE  /\ b \in Asks => Notional(b, n) <= v[1] * p1 + v[2] * p2
             /\ b \in Bids => Notional(b, n) >= v[1] * p1 + v[2] * p2
  <2> DEFINE w1 == v[1]
             w2 == v[2]
             k == t1 - w1
  <2>1. w1 \in 0..d1 /\ w2 \in 0..d2 /\ w1 + w2 = t1 + t2
    BY <1>1, <1>6
  <2> HIDE DEF w1, w2
  <2>2. k \in Nat /\ t1 = w1 + k /\ w2 = t2 + k
    <3>1. w1 \in Nat /\ w2 \in Nat /\ t1 \in Nat /\ t2 \in Nat /\ d1 \in Nat /\ w1 <= d1
      BY <1>1, <1>4, <2>1
    <3>2. t1 = n \/ t1 = d1
      BY <1>1 DEF Lesser
    <3>3. w1 + w2 <= n
      BY <1>4, <2>1, <1>1 DEF Lesser
    <3>4. w1 <= t1
      BY <3>1, <3>2, <3>3
    <3> QED
      BY <2>1, <3>1, <3>4
  <2> HIDE DEF k
  <2>3. /\ p1 <= p2 => (w1 * p1) + ((t2 + k) * p2) >= ((w1 + k) * p1) + (t2 * p2)
        /\ p2 <= p1 => (w1 * p1) + ((t2 + k) * p2) <= ((w1 + k) * p1) + (t2 * p2)
    <3>1. w1 \in Nat /\ t2 \in Nat
      BY <1>1, <1>4, <2>1
    <3> QED
      BY <1>1, <2>2, <3>1, Shift
  <2>4. Notional(b, n) = (t1 * p1) + (t2 * p2)
    BY <1>1, <1>4
  <2>5. /\ p1 <= p2 => Notional(b, n) <= w1 * p1 + w2 * p2
        /\ p2 <= p1 => Notional(b, n) >= w1 * p1 + w2 * p2
    <3>0. w1 \in Nat /\ w2 \in Nat /\ t1 \in Nat /\ t2 \in Nat /\ p1 \in Nat /\ p2 \in Nat
      BY <1>1, <1>4, <2>1
    <3>1. w1 * p1 \in Nat /\ w2 * p2 \in Nat /\ t1 * p1 \in Nat /\ t2 * p2 \in Nat
      BY <3>0, Product
    <3> QED
      BY <2>2, <2>3, <2>4, <3>1
  <2>6. CASE Len(b) # 2
    <3>1. w2 = t2 /\ w1 = t1
      BY <1>3, <1>4, <2>1, <2>6
    <3> QED
      BY <1>1, <2>4, <3>1 DEF w1, w2
  <2> QED
    BY <1>2, <2>5, <2>6 DEF w1, w2
<1> QED
  BY <1>1, <1>4, <1>5, <1>6 DEF d1, d2, p1, p2

-----------------------------------------------------------------------------
(***************************************************************************)
(* The ledger. Between the writes of an order the balance is ahead of the  *)
(* trades by what the order has paid or got: the calls between their       *)
(* writes, in some order, explain the difference one by one. An order adds *)
(* itself at the end and may leave from anywhere.                          *)
(***************************************************************************)
Explained(from, to, S, d) ==
  \E n \in Nat : \E who \in [1..n -> S], sum \in [0..n -> Int] :
    /\ \A i, k \in 1..n : who[i] = who[k] => i = k
    /\ \A c \in S : \E i \in 1..n : who[i] = c
    /\ sum[0] = from /\ sum[n] = to
    /\ \A i \in 1..n : sum[i] = sum[i - 1] + d[who[i]]

LEMMA NothingLeft ==
  ASSUME NEW from, NEW to, NEW d, Explained(from, to, {}, d)
  PROVE  from = to
<1>1. PICK n \in Nat : \E who \in [1..n -> {}], sum \in [0..n -> Int] :
        sum[0] = from /\ sum[n] = to
  BY DEF Explained
<1>2. n = 0
  <2>1. SUFFICES ASSUME n # 0 PROVE FALSE
    OBVIOUS
  <2>2. 1 \in 1..n
    BY <2>1
  <2> QED
    BY <1>1, <2>2
<1> QED
  BY <1>1, <1>2

LEMMA NothingOwed ==
  ASSUME NEW from \in Int, NEW S, S = {}, NEW d
  PROVE  Explained(from, from, S, d)
<1> DEFINE who == [i \in 1..0 |-> i]
           sum == [i \in 0..0 |-> from]
<1>1. who \in [1..0 -> S] /\ sum \in [0..0 -> Int] /\ sum[0] = from
  OBVIOUS
<1> HIDE DEF who, sum
<1>2. /\ \A i, k \in 1..0 : who[i] = who[k] => i = k
      /\ \A c \in S : \E i \in 1..0 : who[i] = c
      /\ \A i \in 1..0 : sum[i] = sum[i - 1] + d[who[i]]
  OBVIOUS
<1> QED
  BY <1>1, <1>2 DEF Explained

LEMMA Unmoved ==
  ASSUME NEW from, NEW to, NEW S, NEW d, NEW e, Explained(from, to, S, d),
         \A c \in S : e[c] = d[c]
  PROVE  Explained(from, to, S, e)
<1>1. PICK n \in Nat : \E who \in [1..n -> S], sum \in [0..n -> Int] :
        /\ \A i, k \in 1..n : who[i] = who[k] => i = k
        /\ \A c \in S : \E i \in 1..n : who[i] = c
        /\ sum[0] = from /\ sum[n] = to
        /\ \A i \in 1..n : sum[i] = sum[i - 1] + d[who[i]]
  BY DEF Explained
<1>2. PICK who \in [1..n -> S], sum \in [0..n -> Int] :
        /\ \A i, k \in 1..n : who[i] = who[k] => i = k
        /\ \A c \in S : \E i \in 1..n : who[i] = c
        /\ sum[0] = from /\ sum[n] = to
        /\ \A i \in 1..n : sum[i] = sum[i - 1] + d[who[i]]
  BY <1>1
<1>3. \A i \in 1..n : sum[i] = sum[i - 1] + e[who[i]]
  BY <1>2
<1>4. \E w \in [1..n -> S], s \in [0..n -> Int] :
        /\ \A i, k \in 1..n : w[i] = w[k] => i = k
        /\ \A c \in S : \E i \in 1..n : w[i] = c
        /\ s[0] = from /\ s[n] = to
        /\ \A i \in 1..n : s[i] = s[i - 1] + e[w[i]]
  BY <1>2, <1>3
<1> QED
  BY <1>4 DEF Explained

LEMMA Owes ==
  ASSUME NEW from, NEW to \in Int, NEW S, NEW d, NEW e, Explained(from, to, S, d),
         NEW c, c \notin S, e[c] \in Int, \A x \in S : e[x] = d[x]
  PROVE  Explained(from, to + e[c], S \union {c}, e)
<1>1. PICK n \in Nat : \E who \in [1..n -> S], sum \in [0..n -> Int] :
        /\ \A i, k \in 1..n : who[i] = who[k] => i = k
        /\ \A x \in S : \E i \in 1..n : who[i] = x
        /\ sum[0] = from /\ sum[n] = to
        /\ \A i \in 1..n : sum[i] = sum[i - 1] + e[who[i]]
  <2>1. Explained(from, to, S, e)
    BY Unmoved
  <2> QED
    BY <2>1 DEF Explained
<1>2. PICK who \in [1..n -> S], sum \in [0..n -> Int] :
        /\ \A i, k \in 1..n : who[i] = who[k] => i = k
        /\ \A x \in S : \E i \in 1..n : who[i] = x
        /\ sum[0] = from /\ sum[n] = to
        /\ \A i \in 1..n : sum[i] = sum[i - 1] + e[who[i]]
  BY <1>1
<1> DEFINE m == n + 1
           T == S \union {c}
           last == to + e[c]
           who2 == [i \in 1..m |-> IF i = m THEN c ELSE who[i]]
           sum2 == [i \in 0..m |-> IF i = m THEN last ELSE sum[i]]
<1>3. /\ m \in Nat /\ last \in Int
      /\ \A i \in 1..m : i = m \/ i \in 1..n
      /\ \A i \in 0..m : i = m \/ i \in 0..n
      /\ \A i \in 1..n : i \in 1..m /\ i # m /\ i - 1 \in 0..m /\ i - 1 # m
      /\ m \in 1..m /\ m - 1 = n /\ 0 \in 0..m /\ 0 # m /\ m \in 0..m /\ n \in 0..m /\ n # m
  OBVIOUS
<1>4. who2 \in [1..m -> T] /\ sum2 \in [0..m -> Int]
  BY <1>2, <1>3
<1>10. /\ \A i \in 1..m : who2[i] = IF i = m THEN c ELSE who[i]
       /\ \A i \in 0..m : sum2[i] = IF i = m THEN last ELSE sum[i]
  OBVIOUS
<1> HIDE DEF m, T, last, who2, sum2
<1>5. /\ who2[m] = c /\ \A i \in 1..n : who2[i] = who[i] /\ who[i] \in S
      /\ sum2[m] = last /\ sum2[n] = to /\ sum2[0] = from
      /\ \A i \in 1..n : sum2[i] = sum[i] /\ sum2[i - 1] = sum[i - 1]
  BY <1>2, <1>3, <1>10
<1>11. \A i \in 1..m : i = m \/ i \in 1..n
  BY <1>3
<1>12. m \in 1..m /\ \A i \in 1..n : i \in 1..m
  BY <1>3
<1>6. \A i, k \in 1..m : who2[i] = who2[k] => i = k
  <2>1. \A i, k \in 1..n : who2[i] = who2[k] => i = k
    BY <1>2, <1>5
  <2>2. \A i \in 1..n : who2[i] # who2[m]
    BY <1>5
  <2> QED
    BY <1>11, <2>1, <2>2
<1>7. \A x \in T : \E i \in 1..m : who2[i] = x
  BY <1>2, <1>5, <1>12 DEF T
<1>8. \A i \in 1..m : sum2[i] = sum2[i - 1] + e[who2[i]]
  BY <1>2, <1>3, <1>5 DEF last
<1>9. Explained(from, last, T, e)
  <2>1. \E w \in [1..m -> T], s \in [0..m -> Int] :
          /\ \A i, k \in 1..m : w[i] = w[k] => i = k
          /\ \A x \in T : \E i \in 1..m : w[i] = x
          /\ s[0] = from /\ s[m] = last
          /\ \A i \in 1..m : s[i] = s[i - 1] + e[w[i]]
    BY <1>4, <1>5, <1>6, <1>7, <1>8
  <2> QED
    BY <1>3, <2>1 DEF Explained
<1> QED
  BY <1>9 DEF last, T

LEMMA Pays ==
  ASSUME NEW from \in Int, NEW to, NEW S, NEW d, NEW e, Explained(from, to, S, d),
         \A x \in S : d[x] \in Int,
         NEW c \in S, \A x \in S \ {c} : e[x] = d[x]
  PROVE  Explained(from + d[c], to, S \ {c}, e)
<1>1. PICK n \in Nat : \E who \in [1..n -> S], sum \in [0..n -> Int] :
        /\ \A i, k \in 1..n : who[i] = who[k] => i = k
        /\ \A x \in S : \E i \in 1..n : who[i] = x
        /\ sum[0] = from /\ sum[n] = to
        /\ \A i \in 1..n : sum[i] = sum[i - 1] + d[who[i]]
  BY DEF Explained
<1>2. PICK who \in [1..n -> S], sum \in [0..n -> Int] :
        /\ \A i, k \in 1..n : who[i] = who[k] => i = k
        /\ \A x \in S : \E i \in 1..n : who[i] = x
        /\ sum[0] = from /\ sum[n] = to
        /\ \A i \in 1..n : sum[i] = sum[i - 1] + d[who[i]]
  BY <1>1
<1>3. PICK k \in 1..n : who[k] = c
  BY <1>2
<1> DEFINE m == n - 1
           T == S \ {c}
           x == d[c]
           who2 == [i \in 1..m |-> IF i < k THEN who[i] ELSE who[i + 1]]
           sum2 == [i \in 0..m |-> IF i < k THEN sum[i] + x ELSE sum[i + 1]]
<1>4. /\ m \in Nat /\ x \in Int /\ n = m + 1
      /\ \A i \in 1..m : i \in 1..n /\ i + 1 \in 1..n /\ i - 1 \in 0..m
      /\ \A i \in 0..m : i \in 0..n /\ i + 1 \in 0..n
  BY <1>3
<1>5. \A i \in 1..n : i # k => who[i] \in T
  BY <1>2, <1>3
<1>6. who2 \in [1..m -> T]
  <2>1. \A i \in 1..m : (IF i < k THEN who[i] ELSE who[i + 1]) \in T
    BY <1>3, <1>4, <1>5
  <2> QED
    BY <2>1
<1>7. sum2 \in [0..m -> Int]
  <2>1. \A i \in 0..m : sum[i] \in Int /\ sum[i + 1] \in Int
    BY <1>2, <1>4
  <2> QED
    BY <1>4, <2>1
<1>8. /\ \A i \in 1..m : who2[i] = IF i < k THEN who[i] ELSE who[i + 1]
      /\ \A i \in 0..m : sum2[i] = IF i < k THEN sum[i] + x ELSE sum[i + 1]
  OBVIOUS
<1>9. sum[k] = sum[k - 1] + x /\ k - 1 \in 0..m
  BY <1>2, <1>3
<1> HIDE DEF T, x, who2, sum2
<1>10. \A i, j \in 1..m : who2[i] = who2[j] => i = j
  <2> DEFINE at(i) == IF i < k THEN i ELSE i + 1
  <2>1. \A i \in 1..m : at(i) \in 1..n /\ who2[i] = who[at(i)]
    BY <1>4, <1>8
  <2>2. \A i, j \in 1..m : at(i) = at(j) => i = j
    BY <1>3
  <2> HIDE DEF at
  <2> QED
    BY <1>2, <2>1, <2>2
<1>11. \A y \in T : \E i \in 1..m : who2[i] = y
  <2> SUFFICES ASSUME NEW y \in T PROVE \E i \in 1..m : who2[i] = y
    OBVIOUS
  <2>1. PICK j \in 1..n : who[j] = y
    BY <1>2 DEF T
  <2>2. j # k
    BY <1>3, <2>1 DEF T
  <2>3. CASE j < k
    <3>1. j \in 1..m /\ who2[j] = y
      BY <1>3, <1>8, <2>1, <2>3
    <3> QED
      BY <3>1
  <2>4. CASE j > k
    <3>1. j - 1 \in 1..m /\ ~(j - 1 < k) /\ (j - 1) + 1 = j
      BY <1>3, <2>4
    <3>2. who2[j - 1] = y
      BY <1>8, <2>1, <3>1
    <3> QED
      BY <3>1, <3>2
  <2> QED
    BY <1>3, <2>2, <2>3, <2>4
<1>12. sum2[0] = from + x
  BY <1>2, <1>3, <1>8
<1>13. sum2[m] = to
  <2>1. CASE m < k
    <3>1. k = n /\ m = k - 1
      BY <1>3, <2>1
    <3> QED
      BY <1>2, <1>4, <1>8, <1>9, <2>1, <3>1
  <2>2. CASE ~(m < k)
    <3>1. m \in 0..m /\ m + 1 = n
      BY <1>4
    <3> HIDE DEF m
    <3>2. sum2[m] = sum[m + 1]
      BY <1>8, <2>2, <3>1
    <3> QED
      BY <1>2, <3>1, <3>2
  <2> QED
    BY <2>1, <2>2
<1>14. ASSUME NEW i \in 1..m
       PROVE  sum2[i] = sum2[i - 1] + e[who2[i]]
  <2>1. e[who2[i]] = d[who2[i]]
    BY <1>6 DEF T
  <2>2. /\ i \in 0..m /\ i - 1 \in 0..m /\ i + 1 \in 0..n /\ i \in 0..n /\ i - 1 \in 0..n
        /\ i \in 1..n /\ i + 1 \in 1..n /\ i \in Int /\ k \in Int
        /\ (i + 1) - 1 = i /\ (i - 1) + 1 = i
    BY <1>3, <1>4
  <2>7. sum[i] \in Int /\ sum[i - 1] \in Int /\ sum[i + 1] \in Int
    BY <1>2, <2>2
  <2>8. /\ sum[i] = sum[i - 1] + d[who[i]]
        /\ sum[i + 1] = sum[i] + d[who[i + 1]]
    BY <1>2, <2>2
  <2>9. /\ who2[i] = IF i < k THEN who[i] ELSE who[i + 1]
        /\ sum2[i] = IF i < k THEN sum[i] + x ELSE sum[i + 1]
        /\ sum2[i - 1] = IF i - 1 < k THEN sum[i - 1] + x ELSE sum[i]
    BY <1>8, <2>2
  <2>3. CASE i < k
    <3>1. /\ sum2[i] = sum[i] + x /\ sum2[i - 1] = sum[i - 1] + x
          /\ e[who2[i]] = d[who[i]]
      BY <2>1, <2>2, <2>3, <2>9
    <3>2. d[who[i]] \in Int
      BY <1>2, <2>2
    <3> QED
      BY <1>4, <2>7, <2>8, <3>1, <3>2
  <2>4. CASE i = k
    <3>1. sum2[i] = sum[i + 1] /\ sum2[i - 1] = sum[i - 1] + x /\ who2[i] = who[i + 1]
      BY <2>2, <2>4, <2>9
    <3> QED
      BY <1>9, <2>1, <2>4, <2>8, <3>1
  <2>5. CASE i > k
    <3>1. sum2[i] = sum[i + 1] /\ sum2[i - 1] = sum[i] /\ who2[i] = who[i + 1]
      BY <2>2, <2>5, <2>9
    <3> QED
      BY <2>1, <2>8, <3>1
  <2> QED
    BY <2>2, <2>3, <2>4, <2>5
<1>15. Explained(from + x, to, T, e)
  <2>1. \E w \in [1..m -> T], s \in [0..m -> Int] :
          /\ \A i, j \in 1..m : w[i] = w[j] => i = j
          /\ \A y \in T : \E i \in 1..m : w[i] = y
          /\ s[0] = from + x /\ s[m] = to
          /\ \A i \in 1..m : s[i] = s[i - 1] + e[w[i]]
    BY <1>6, <1>7, <1>10, <1>11, <1>12, <1>13, <1>14
  <2> HIDE DEF m
  <2> QED
    BY <1>4, <2>1 DEF Explained
<1> QED
  BY <1>15 DEF x, T

\* What an order adds to the balance, and to the amount held.
Worth(r) == IF r.side = "buy" THEN 0 - (Gross(r) + Fee(r)) ELSE Gross(r) - Fee(r)
Taken(r) == IF r.side = "buy" THEN r.filled ELSE 0 - r.filled

\* What a call holds between its last read and its last write.
DealOK(r) ==
  /\ BookOK(r)
  /\ r.pc \in Writing /\ r.side # "create" =>
       r.balance = r.saw + Worth(r) /\ r.amount = r.held + Taken(r)
  /\ r.pc = "account" /\ r.side = "create" => r.balance = Initial
  /\ r.pc \in {"toclose", "closebook"} => r.side = "close" /\ r.book = <<>>
DealInv == \A c \in Calls : DealOK(call[c])

\* Without an account nothing was traded.
OpenInv ==
  ~account.open =>
    /\ \A c \in Calls : call[c].pc \in {"idle", "done"} \/ call[c].side = "create"
    /\ trades.spent = 0 /\ trades.earned = 0
    /\ \A s \in Symbols : position[s] = 0 /\ trades.bought[s] = 0 /\ trades.sold[s] = 0

Owing == {c \in Calls : call[c].pc \in {"position", "trade"}}
Moving(s) == {c \in Calls : call[c].pc = "trade" /\ call[c].symbol = s}
Worths == [c \in Calls |-> Worth(call[c])]
Moves == [c \in Calls |-> Taken(call[c])]

BooksInv ==
  ~torn /\ account.open =>
    /\ Explained(Initial - trades.spent + trades.earned, account.balance, Owing, Worths)
    /\ \A s \in Symbols :
         Explained(trades.bought[s] - trades.sold[s], position[s], Moving(s), Moves)

LedgerInv == DealInv /\ OpenInv /\ BooksInv

\* The fields of a record after a step of its handler.
Same(v, r) == /\ v.side = r.side /\ v.symbol = r.symbol /\ v.saw = r.saw
              /\ v.book = r.book /\ v.filled = r.filled /\ v.gross = r.gross

LEMMA Going ==
  ASSUME NEW r \in Call, NEW p
  PROVE  /\ Same([r EXCEPT !.pc = p], r) /\ [r EXCEPT !.pc = p].pc = p
         /\ [r EXCEPT !.pc = p].size = r.size /\ [r EXCEPT !.pc = p].held = r.held
         /\ [r EXCEPT !.pc = p].balance = r.balance /\ [r EXCEPT !.pc = p].amount = r.amount
  BY DEF Call, Same

LEMMA Reading ==
  ASSUME NEW r \in Call, NEW n
  PROVE  /\ Same([r EXCEPT !.held = n], r) /\ [r EXCEPT !.held = n].pc = r.pc
         /\ [r EXCEPT !.held = n].size = r.size
  BY DEF Call, Same

LEMMA Seeing ==
  ASSUME NEW r \in Call, NEW b, NEW f, NEW g, NEW p
  PROVE  LET v == [r EXCEPT !.book = b, !.filled = f, !.gross = g]
             w == [r EXCEPT !.book = b, !.filled = f, !.gross = g, !.pc = p]
         IN  /\ v.side = r.side /\ v.size = r.size /\ v.pc = r.pc /\ v.symbol = r.symbol
             /\ v.book = b /\ v.filled = f /\ v.gross = g
             /\ w.side = r.side /\ w.size = r.size /\ w.pc = p /\ w.symbol = r.symbol
             /\ w.book = b /\ w.filled = f /\ w.gross = g
  BY DEF Call

LEMMA Acting ==
  ASSUME NEW r \in Call, Executes(r)
  PROVE  /\ Same(Execute(r), r) /\ Execute(r).pc = "account"
         /\ Execute(r).size = r.size /\ Execute(r).held = r.held
         /\ Execute(r).balance = r.saw + Worth(r) /\ Execute(r).amount = r.held + Taken(r)
<1> DEFINE b == r.saw + Worth(r)
           a == r.held + Taken(r)
           r1 == [r EXCEPT !.balance = b]
           r2 == [r1 EXCEPT !.amount = a]
           r3 == [r2 EXCEPT !.pc = "account"]
<1>1. /\ r.gross \in Nat /\ r.filled \in Nat /\ r.saw \in Int /\ r.held \in Int
      /\ Gross(r) \in Nat /\ Fee(r) \in Nat
  BY FeeIsPart DEF Call, Gross, Fee
<1>2. Outcome(r) = r2
  <2>1. CASE r.side = "buy"
    <3>1. b = r.saw - (Gross(r) + Fee(r)) /\ a = r.held + r.filled
      BY <1>1, <2>1 DEF Worth, Taken
    <3> HIDE DEF a, b
    <3> QED
      BY <2>1, <3>1 DEF Outcome
  <2>2. CASE r.side # "buy"
    <3>1. b = r.saw + Gross(r) - Fee(r) /\ a = r.held - r.filled
      BY <1>1, <2>2 DEF Worth, Taken
    <3> HIDE DEF a, b
    <3> QED
      BY <2>2, <3>1 DEF Outcome
  <2> QED
    BY <2>1, <2>2
<1>3. Execute(r) = r3
  BY <1>2 DEF Execute
<1> HIDE DEF a, b
<1>4. /\ Same(r3, r) /\ r3.pc = "account" /\ r3.size = r.size /\ r3.held = r.held
      /\ r3.balance = b /\ r3.amount = a
  BY DEF Call, Same
<1> QED
  BY <1>3, <1>4 DEF a, b

LEMMA EndedDeal == DealOK([None EXCEPT !.pc = "done"]) /\ DealOK(None)
  BY DEF DealOK, BookOK, None, Writing

\* What a record of a call that acts on what it read is good for.
LEMMA ActedDeal ==
  ASSUME NEW r \in Call, BookOK(r), r.side # "create"
  PROVE  LET v == Execute(r) IN DealOK(v) /\ v.pc \in {"account", "done"}
<1>1. CASE Executes(r)
  <2> DEFINE v == Execute(r)
  <2>1. /\ Same(v, r) /\ v.pc = "account" /\ v.size = r.size /\ v.held = r.held
        /\ v.balance = r.saw + Worth(r) /\ v.amount = r.held + Taken(r)
    BY <1>1, Acting
  <2> HIDE DEF v
  <2>2. BookOK(v)
    BY <2>1 DEF BookOK, Same
  <2>3. Worth(v) = Worth(r) /\ Taken(v) = Taken(r)
    BY <2>1 DEF Same, Worth, Taken, Gross, Fee
  <2>4. DealOK(v) /\ v.pc \in {"account", "done"}
    BY <2>1, <2>2, <2>3 DEF DealOK, Same
  <2> QED
    BY <2>4 DEF v
<1>2. CASE ~Executes(r)
  BY <1>2, EndedDeal DEF Execute, None
<1> QED
  BY <1>1, <1>2

\* A handler that reads ends up before its writes.
LEMMA ReadsDeal ==
  ASSUME IInv, DealInv, NEW c \in Calls,
         ReadAccount(c) \/ AskCreate(c) \/ ReadBook(c) \/ ReadPosition(c)
           \/ ReadToClose(c) \/ BookToClose(c)
  PROVE  \E v : /\ Set(c, v) /\ DealOK(v) /\ v.pc \notin {"position", "trade"}
                /\ v.pc # "done" /\ v.side # "create" =>
                     account.open \/ (call[c].pc \notin {"idle", "done"} /\ call[c].side # "create")
<1> DEFINE r == call[c]
           Good(v) == /\ DealOK(v) /\ v.pc \notin {"position", "trade"}
                      /\ v.pc # "done" /\ v.side # "create" =>
                           account.open \/ (r.pc \notin {"idle", "done"} /\ r.side # "create")
<1>1. r \in Call /\ CallOK(r) /\ DealOK(r)
  BY DEF IInv, CallOK, DealInv
<1>2. End(c) => \E v : Set(c, v) /\ Good(v)
  BY EndedDeal DEF End, None
<1>3. CASE ReadAccount(c)
  <2>1. ASSUME NEW side \in {"buy", "sell", "close"}, NEW s \in Symbols, NEW n \in Sizes, account.open
        PROVE  Good([None EXCEPT !.side = side, !.symbol = s, !.saw = account.balance,
                                 !.size = IF side = "close" THEN 0 ELSE n,
                                 !.pc = IF side = "close" THEN "toclose" ELSE "book"])
    BY <2>1 DEF None, DealOK, BookOK, Writing
  <2> QED
    BY <1>2, <1>3, <2>1 DEF ReadAccount
<1>4. CASE AskCreate(c)
  <2>1. Good([None EXCEPT !.side = "create", !.balance = Initial, !.pc = "account"])
    BY DEF None, DealOK, BookOK, Writing
  <2> QED
    BY <1>2, <1>4, <2>1 DEF AskCreate
<1>5. CASE ReadBook(c)
  <2>1. r.pc = "book" /\ r.side # "create"
    BY <1>1, <1>5 DEF ReadBook, CallOK
  <2>2. ASSUME NEW b \in Shown(r.side)
        PROVE  Good([r EXCEPT !.book = b, !.filled = Filled(b, r.size),
                              !.gross = Notional(b, r.size), !.pc = "held"])
    <3> DEFINE v == [r EXCEPT !.book = b, !.filled = Filled(b, r.size),
                              !.gross = Notional(b, r.size), !.pc = "held"]
    <3>1. /\ v.side = r.side /\ v.size = r.size /\ v.pc = "held" /\ v.book = b
          /\ v.filled = Filled(b, r.size) /\ v.gross = Notional(b, r.size)
      BY <1>1, Seeing
    <3> HIDE DEF v, r
    <3>2. Good(v)
      BY <2>1, <2>2, <3>1 DEF DealOK, BookOK, Writing
    <3> QED
      BY <3>2 DEF v
  <2> QED
    BY <1>2, <1>5, <2>2 DEF ReadBook
<1>6. CASE ReadPosition(c)
  <2> DEFINE n == position[r.symbol]
             w == [r EXCEPT !.held = n]
  <2>1. r.pc = "held" /\ r.side # "create" /\ r.symbol \in Symbols
    BY <1>1, <1>6 DEF ReadPosition, CallOK
  <2>2. n \in Int
    BY <2>1 DEF IInv, TypeOK
  <2>3. w \in Call /\ Same(w, r) /\ w.pc = r.pc /\ w.size = r.size
    BY <1>1, <2>2, Update, Reading
  <2>4. Set(c, Execute(w))
    BY <1>6 DEF ReadPosition
  <2> HIDE DEF w
  <2>5. BookOK(w) /\ w.side # "create"
    BY <1>1, <2>1, <2>3 DEF DealOK, BookOK, Same
  <2>6. DealOK(Execute(w)) /\ Execute(w).pc \in {"account", "done"}
    BY <2>3, <2>5, ActedDeal
  <2>7. Good(Execute(w))
    BY <2>1, <2>6
  <2> QED
    BY <2>4, <2>7
<1>7. CASE ReadToClose(c)
  <2> DEFINE n == position[r.symbol]
             v == [r EXCEPT !.held = n, !.size = n, !.pc = "closebook"]
  <2>1. r.pc = "toclose" /\ r.side # "create"
    BY <1>1, <1>7 DEF ReadToClose, CallOK
  <2>2. End(c) \/ Set(c, v)
    BY <1>7 DEF ReadToClose
  <2>3. v.pc = "closebook" /\ v.book = r.book /\ v.side = r.side
    BY <1>1 DEF Call
  <2>4. r.book = <<>>
    BY <1>1, <2>1 DEF DealOK
  <2> HIDE DEF v
  <2>5. Good(v)
    BY <1>1, <2>1, <2>3, <2>4 DEF DealOK, BookOK, Writing
  <2> QED
    BY <1>2, <2>2, <2>5
<1>8. CASE BookToClose(c)
  <2>1. r.pc = "closebook" /\ r.side # "create"
    BY <1>1, <1>8 DEF BookToClose, CallOK
  <2>2. PICK b \in Bids : Set(c, Execute([r EXCEPT !.book = b, !.filled = Filled(b, r.size),
                                                    !.gross = Notional(b, r.size)]))
    BY <1>8 DEF BookToClose
  <2> DEFINE w == [r EXCEPT !.book = b, !.filled = Filled(b, r.size), !.gross = Notional(b, r.size)]
  <2>3. w \in Call
    <3> DEFINE f == Filled(b, r.size)
               g == Notional(b, r.size)
               w1 == [r EXCEPT !.book = b]
               w2 == [w1 EXCEPT !.filled = f]
    <3>1. b \in Side /\ f \in Nat /\ g \in Nat
      BY <1>1, Inputs, Fills DEF Call
    <3> HIDE DEF f, g
    <3>2. w1 \in Call
      BY <1>1, <3>1, Update
    <3> HIDE DEF w1
    <3>3. w2 \in Call
      BY <3>1, <3>2, Update
    <3> HIDE DEF w2
    <3>4. [w2 EXCEPT !.gross = g] \in Call
      BY <3>1, <3>3, Update
    <3> QED
      BY <3>4 DEF w1, w2, f, g
  <2>4. /\ w.side = r.side /\ w.size = r.size /\ w.book = b
        /\ w.filled = Filled(b, r.size) /\ w.gross = Notional(b, r.size)
    BY <1>1, Seeing
  <2>5. r.side = "close"
    BY <1>1, <2>1 DEF DealOK
  <2> HIDE DEF w
  <2>6. BookOK(w) /\ w.side # "create"
    BY <2>1, <2>4, <2>5 DEF BookOK, Shown
  <2>7. DealOK(Execute(w)) /\ Execute(w).pc \in {"account", "done"}
    BY <2>3, <2>6, ActedDeal
  <2>8. Good(Execute(w))
    BY <2>1, <2>7
  <2> QED
    BY <2>2, <2>8 DEF w
<1> QED
  BY <1>3, <1>4, <1>5, <1>6, <1>7, <1>8

\* A step before or after the writes of its call leaves the books alone.
LEMMA BooksKept ==
  ASSUME IInv, LedgerInv, NEW c \in Calls, NEW v, Set(c, v), DealOK(v),
         v.pc \notin {"position", "trade"}, call[c].pc \notin {"position", "trade"},
         v.pc \in {"idle", "done"} \/ v.side = "create" \/ account.open,
         UNCHANGED <<account, position, trades>>, torn' = torn
  PROVE  LedgerInv'
<1>1. /\ call \in [Calls -> Call] /\ call' = [call EXCEPT ![c] = v]
      /\ call'[c] = v /\ \A d \in Calls : d # c => call'[d] = call[d]
  BY DEF IInv, TypeOK, Set
<1>2. DealInv' /\ OpenInv'
  BY <1>1 DEF LedgerInv, DealInv, OpenInv
<1>3. Owing' = Owing /\ \A s \in Symbols : Moving(s)' = Moving(s)
  BY <1>1 DEF Owing, Moving
<1>4. /\ \A d \in Owing : d # c /\ Worths'[d] = Worths[d]
      /\ \A s \in Symbols : \A d \in Moving(s) : Moves'[d] = Moves[d]
  <2>1. \A d \in Calls : d # c => Worth(call'[d]) = Worth(call[d]) /\ Taken(call'[d]) = Taken(call[d])
    BY <1>1
  <2>2. \A d \in Owing : d # c /\ d \in Calls
    BY DEF Owing
  <2>3. \A s \in Symbols : \A d \in Moving(s) : d # c /\ d \in Calls
    BY DEF Moving
  <2> QED
    BY <2>1, <2>2, <2>3 DEF Worths, Moves
<1>5. BooksInv'
  <2> SUFFICES ASSUME ~torn, account.open
               PROVE  BooksInv'
    BY DEF BooksInv
  <2>1. Explained(Initial - trades.spent + trades.earned, account.balance, Owing, Worths')
    BY <1>4, Unmoved DEF LedgerInv, BooksInv
  <2>2. \A s \in Symbols :
          Explained(trades.bought[s] - trades.sold[s], position[s], Moving(s), Moves')
    BY <1>4, Unmoved DEF LedgerInv, BooksInv
  <2> QED
    BY <1>3, <2>1, <2>2 DEF BooksInv
<1> QED
  BY <1>2, <1>5 DEF LedgerInv

\* What a step of one call changes.
LEMMA OneRecord ==
  ASSUME IInv, DealInv, NEW c \in Calls, NEW v, Set(c, v), DealOK(v)
  PROVE  /\ DealInv' /\ call'[c] = v
         /\ \A d \in Calls : d # c => call'[d] = call[d]
         /\ \A d \in Calls : d # c => Worths'[d] = Worths[d] /\ Moves'[d] = Moves[d]
         /\ Worths[c] = Worth(call[c]) /\ Worths'[c] = Worth(v)
         /\ Moves[c] = Taken(call[c]) /\ Moves'[c] = Taken(v)
<1>1. /\ call'[c] = v /\ \A d \in Calls : d # c => call'[d] = call[d]
  BY DEF IInv, TypeOK, Set
<1>2. DealInv'
  BY <1>1 DEF DealInv
<1>3. \A d \in Calls : d # c => Worth(call'[d]) = Worth(call[d]) /\ Taken(call'[d]) = Taken(call[d])
  BY <1>1
<1> QED
  BY <1>1, <1>2, <1>3 DEF Worths, Moves

LEMMA Whole ==
  ASSUME IInv
  PROVE  \A c \in Calls : Worth(call[c]) \in Int /\ Taken(call[c]) \in Int
<1> SUFFICES ASSUME NEW c \in Calls PROVE Worth(call[c]) \in Int /\ Taken(call[c]) \in Int
  OBVIOUS
<1>1. call[c].gross \in Nat /\ call[c].filled \in Nat
  BY DEF IInv, TypeOK, Call
<1>2. Gross(call[c]) \in Nat /\ Fee(call[c]) \in Nat
  BY <1>1, FeeIsPart DEF Gross, Fee
<1> QED
  BY <1>1, <1>2 DEF Worth, Taken

\* A call that acts has an account.
LEMMA Opened ==
  ASSUME IInv, OpenInv, NEW c \in Calls, call[c].pc \notin {"idle", "done"}, call[c].side # "create"
  PROVE  account.open
  BY DEF OpenInv

LEMMA CreateKeeps ==
  ASSUME IInv, LedgerInv, NEW c \in Calls, PutAccount(c), call[c].side = "create"
  PROVE  LedgerInv'
<1>1. /\ Set(c, [None EXCEPT !.pc = "done"]) /\ UNCHANGED <<position, trades>>
      /\ account' = [open |-> TRUE, balance |-> Initial]
      /\ torn' = (torn \/ account.open)
  BY DEF PutAccount, End, LedgerInv, DealInv, DealOK
<1>2. DealInv' /\ call'[c].pc = "done" /\ \A d \in Calls : d # c => call'[d] = call[d]
  BY <1>1, EndedDeal, OneRecord DEF LedgerInv, None
<1>3. OpenInv'
  BY <1>1 DEF OpenInv
<1>4. BooksInv'
  <2> SUFFICES ASSUME ~torn, ~account.open
               PROVE  BooksInv'
    BY <1>1 DEF BooksInv
  <2>1. /\ trades.spent = 0 /\ trades.earned = 0
        /\ \A s \in Symbols : position[s] = 0 /\ trades.bought[s] = 0 /\ trades.sold[s] = 0
        /\ \A d \in Calls : call[d].pc \in {"idle", "done", "account"}
    BY DEF LedgerInv, OpenInv, IInv, CallOK
  <2>2. Owing' = {} /\ \A s \in Symbols : Moving(s)' = {}
    BY <1>2, <2>1 DEF Owing, Moving
  <2>3. Initial \in Int /\ Initial - 0 + 0 = Initial
    BY Inputs
  <2>4. Explained(Initial, Initial, Owing', Worths') /\ \A s \in Symbols : Explained(0, 0, Moving(s)', Moves')
    BY <2>2, <2>3, NothingOwed
  <2> QED
    BY <1>1, <2>1, <2>3, <2>4 DEF BooksInv
<1> QED
  BY <1>2, <1>3, <1>4 DEF LedgerInv

LEMMA OrderPays ==
  ASSUME IInv, LedgerInv, NEW c \in Calls, PutAccount(c), call[c].side # "create"
  PROVE  LedgerInv'
<1> DEFINE r == call[c]
           v == [r EXCEPT !.pc = "position"]
<1>1. /\ r.pc = "account" /\ Set(c, v) /\ UNCHANGED <<position, trades>>
      /\ account' = [open |-> TRUE, balance |-> r.balance]
      /\ torn' = (torn \/ account.balance # r.saw)
  BY DEF PutAccount
<1>2. r \in Call /\ DealOK(r) /\ r.balance = r.saw + Worth(r)
  BY <1>1 DEF IInv, CallOK, LedgerInv, DealInv, DealOK, Writing
<1>3. Same(v, r) /\ v.pc = "position" /\ v.size = r.size /\ v.balance = r.balance
      /\ v.amount = r.amount /\ v.held = r.held
  BY <1>2, Going
<1> HIDE DEF v
<1>4. DealOK(v) /\ Worth(v) = Worth(r) /\ Taken(v) = Taken(r)
  BY <1>1, <1>2, <1>3 DEF DealOK, BookOK, Same, Writing, Worth, Taken, Gross, Fee
<1>5. /\ DealInv' /\ call'[c] = v
      /\ \A d \in Calls : d # c => call'[d] = call[d] /\ Worths'[d] = Worths[d] /\ Moves'[d] = Moves[d]
      /\ Worths'[c] = Worth(r)
  BY <1>1, <1>4, OneRecord DEF LedgerInv
<1>6. OpenInv'
  BY <1>1 DEF OpenInv
<1>7. /\ c \notin Owing /\ Owing' = Owing \union {c}
      /\ \A s \in Symbols : c \notin Moving(s) /\ Moving(s)' = Moving(s)
  BY <1>1, <1>3, <1>5 DEF Owing, Moving
<1>8. BooksInv'
  <2> SUFFICES ASSUME ~torn, account.balance = r.saw
               PROVE  BooksInv'
    BY <1>1 DEF BooksInv
  <2>1. account.open
    BY <1>1, Opened DEF LedgerInv
  <2>2. /\ Explained(Initial - trades.spent + trades.earned, account.balance, Owing, Worths)
        /\ \A s \in Symbols :
             Explained(trades.bought[s] - trades.sold[s], position[s], Moving(s), Moves)
    BY <2>1 DEF LedgerInv, BooksInv
  <2>3. Explained(Initial - trades.spent + trades.earned, account.balance + Worths'[c],
                  Owing \union {c}, Worths')
    <3>1. account.balance \in Int /\ Worths'[c] \in Int /\ \A d \in Owing : Worths'[d] = Worths[d]
      BY <1>5, <1>7, Whole DEF IInv, TypeOK, Owing
    <3> QED
      BY <1>7, <2>2, <3>1, Owes
  <2>4. \A s \in Symbols :
          Explained(trades.bought[s] - trades.sold[s], position[s], Moving(s), Moves')
    <3>1. \A s \in Symbols : \A d \in Moving(s) : Moves'[d] = Moves[d]
      BY <1>5, <1>7 DEF Moving
    <3> QED
      BY <2>2, <3>1, Unmoved
  <2>5. account'.balance = account.balance + Worths'[c]
    BY <1>1, <1>2, <1>5
  <2> QED
    BY <1>1, <1>7, <2>3, <2>4, <2>5 DEF BooksInv
<1> QED
  BY <1>5, <1>6, <1>8 DEF LedgerInv

LEMMA PositionKeeps ==
  ASSUME IInv, LedgerInv, NEW c \in Calls, PutPosition(c)
  PROVE  LedgerInv'
<1> DEFINE r == call[c]
           v == [r EXCEPT !.pc = "trade"]
<1>1. /\ r.pc = "position" /\ Set(c, v) /\ UNCHANGED <<account, trades>>
      /\ position' = [position EXCEPT ![r.symbol] = r.amount]
      /\ torn' = (torn \/ position[r.symbol] # r.held)
  BY DEF PutPosition
<1>2. r \in Call /\ DealOK(r) /\ r.side # "create" /\ r.symbol \in Symbols
  BY <1>1 DEF IInv, CallOK, LedgerInv, DealInv
<1>3. Same(v, r) /\ v.pc = "trade" /\ v.size = r.size /\ v.balance = r.balance
      /\ v.amount = r.amount /\ v.held = r.held
  BY <1>2, Going
<1> HIDE DEF v
<1>4. DealOK(v) /\ Worth(v) = Worth(r) /\ Taken(v) = Taken(r) /\ r.amount = r.held + Taken(r)
  BY <1>1, <1>2, <1>3 DEF DealOK, BookOK, Same, Writing, Worth, Taken, Gross, Fee
<1>5. /\ DealInv' /\ call'[c] = v
      /\ \A d \in Calls : d # c => call'[d] = call[d] /\ Worths'[d] = Worths[d] /\ Moves'[d] = Moves[d]
      /\ Worths'[c] = Worths[c] /\ Moves'[c] = Taken(r)
  BY <1>1, <1>4, OneRecord DEF LedgerInv
<1>6. account.open
  BY <1>1, <1>2, Opened DEF LedgerInv
<1>7. OpenInv'
  BY <1>1, <1>6 DEF OpenInv
<1>8. /\ Owing' = Owing
      /\ \A s \in Symbols : c \notin Moving(s)
      /\ \A s \in Symbols : s = r.symbol => Moving(s)' = Moving(s) \union {c}
      /\ \A s \in Symbols : s # r.symbol => Moving(s)' = Moving(s)
  BY <1>1, <1>2, <1>3, <1>5 DEF Owing, Moving, Same
<1>9. BooksInv'
  <2> SUFFICES ASSUME ~torn, position[r.symbol] = r.held
               PROVE  BooksInv'
    BY <1>1 DEF BooksInv
  <2>1. /\ Explained(Initial - trades.spent + trades.earned, account.balance, Owing, Worths)
        /\ \A s \in Symbols :
             Explained(trades.bought[s] - trades.sold[s], position[s], Moving(s), Moves)
    BY <1>6 DEF LedgerInv, BooksInv
  <2>2. Explained(Initial - trades.spent + trades.earned, account.balance, Owing, Worths')
    <3>1. \A d \in Owing : Worths'[d] = Worths[d]
      BY <1>5 DEF Owing
    <3> QED
      BY <2>1, <3>1, Unmoved
  <2>3. ASSUME NEW s \in Symbols
        PROVE  Explained(trades.bought[s] - trades.sold[s], position'[s], Moving(s)', Moves')
    <3>1. c \notin Moving(s) /\ \A d \in Moving(s) : Moves'[d] = Moves[d]
      BY <1>5, <1>8 DEF Moving
    <3>2. CASE s = r.symbol
      <4>1. position[s] \in Int /\ Moves'[c] \in Int /\ position'[s] = position[s] + Moves'[c]
        BY <1>1, <1>2, <1>4, <1>5, <3>2, Whole DEF IInv, TypeOK
      <4>2. Explained(trades.bought[s] - trades.sold[s], position[s] + Moves'[c],
                      Moving(s) \union {c}, Moves')
        BY <2>1, <3>1, <4>1, Owes
      <4>3. Moving(s)' = Moving(s) \union {c}
        BY <1>8, <3>2
      <4> QED
        BY <4>1, <4>2, <4>3
    <3>3. CASE s # r.symbol
      <4>1. position'[s] = position[s]
        BY <1>1, <3>3 DEF IInv, TypeOK
      <4>2. Explained(trades.bought[s] - trades.sold[s], position[s], Moving(s), Moves')
        BY <1>8, <2>1, <3>1, <3>3, Unmoved
      <4> QED
        BY <1>8, <3>3, <4>1, <4>2
    <3> QED
      BY <3>2, <3>3
  <2> QED
    BY <1>1, <1>8, <2>2, <2>3 DEF BooksInv
<1> QED
  BY <1>5, <1>7, <1>9 DEF LedgerInv

LEMMA TradeKeeps ==
  ASSUME IInv, LedgerInv, NEW c \in Calls, AppendTrade(c)
  PROVE  LedgerInv'
<1> DEFINE r == call[c]
           v == [None EXCEPT !.pc = "done"]
<1>1. /\ r.pc = "trade" /\ Set(c, v) /\ UNCHANGED <<account, position, torn>>
      /\ trades' = Added(r)
  BY DEF AppendTrade, End
<1>2. r \in Call /\ DealOK(r) /\ r.side # "create" /\ r.symbol \in Symbols
  BY <1>1 DEF IInv, CallOK, LedgerInv, DealInv
<1>3. /\ r.filled \in Nat /\ Gross(r) \in Nat /\ Fee(r) \in Nat
      /\ trades \in [spent : Int, earned : Int, bought : [Symbols -> Nat], sold : [Symbols -> Nat]]
  BY <1>2, FeeIsPart, Stored DEF Call, Gross, Fee
<1>4. /\ DealInv' /\ call'[c] = v
      /\ \A d \in Calls : d # c => call'[d] = call[d] /\ Worths'[d] = Worths[d] /\ Moves'[d] = Moves[d]
      /\ Worths[c] = Worth(r) /\ Moves[c] = Taken(r)
  BY <1>1, EndedDeal, OneRecord DEF LedgerInv
<1>5. account.open
  BY <1>1, <1>2, Opened DEF LedgerInv
<1>6. OpenInv'
  BY <1>1, <1>5 DEF OpenInv
<1>7. v.pc = "done"
  BY DEF None
<1> HIDE DEF v
<1>8. /\ c \in Owing /\ Owing' = Owing \ {c}
      /\ \A s \in Symbols : s = r.symbol => c \in Moving(s) /\ Moving(s)' = Moving(s) \ {c}
      /\ \A s \in Symbols : s # r.symbol => Moving(s)' = Moving(s)
  BY <1>1, <1>2, <1>4, <1>7 DEF Owing, Moving
<1>9. /\ Initial - trades'.spent + trades'.earned = (Initial - trades.spent + trades.earned) + Worths[c]
      /\ \A s \in Symbols : trades'.bought[s] - trades'.sold[s] =
           IF s = r.symbol THEN (trades.bought[s] - trades.sold[s]) + Moves[c]
                           ELSE trades.bought[s] - trades.sold[s]
  <2> DEFINE paid == Gross(r) + Fee(r)
             got == Gross(r) - Fee(r)
  <2>0. paid \in Int /\ got \in Int /\ Initial \in Int
    BY <1>3, Inputs
  <2>1. CASE r.side = "buy"
    <3>1. Worths[c] = 0 - paid /\ Moves[c] = r.filled
      BY <1>4, <2>1 DEF Worth, Taken
    <3>2. trades.spent + Gross(r) + Fee(r) = trades.spent + paid
      BY <1>3
    <3> HIDE DEF paid
    <3>3. trades' = [trades EXCEPT !.spent = trades.spent + paid, !.bought[r.symbol] = @ + r.filled]
      BY <1>1, <2>1, <3>2 DEF Added
    <3>4. /\ trades'.spent = trades.spent + paid /\ trades'.earned = trades.earned
          /\ trades'.sold = trades.sold
          /\ trades'.bought = [trades.bought EXCEPT ![r.symbol] = @ + r.filled]
      BY <1>3, <3>3
    <3> QED
      BY <1>2, <1>3, <2>0, <3>1, <3>4
  <2>2. CASE r.side # "buy"
    <3>1. Worths[c] = got /\ Moves[c] = 0 - r.filled
      BY <1>4, <2>2 DEF Worth, Taken
    <3>2. trades.earned + Gross(r) - Fee(r) = trades.earned + got
      BY <1>3
    <3> HIDE DEF got
    <3>3. trades' = [trades EXCEPT !.earned = trades.earned + got, !.sold[r.symbol] = @ + r.filled]
      BY <1>1, <2>2, <3>2 DEF Added
    <3>4. /\ trades'.spent = trades.spent /\ trades'.earned = trades.earned + got
          /\ trades'.bought = trades.bought
          /\ trades'.sold = [trades.sold EXCEPT ![r.symbol] = @ + r.filled]
      BY <1>3, <3>3
    <3> QED
      BY <1>2, <1>3, <2>0, <3>1, <3>4
  <2> QED
    BY <2>1, <2>2
<1>10. BooksInv'
  <2> SUFFICES ASSUME ~torn
               PROVE  BooksInv'
    BY <1>1 DEF BooksInv
  <2>1. /\ Explained(Initial - trades.spent + trades.earned, account.balance, Owing, Worths)
        /\ \A s \in Symbols :
             Explained(trades.bought[s] - trades.sold[s], position[s], Moving(s), Moves)
    BY <1>5 DEF LedgerInv, BooksInv
  <2>2. Explained((Initial - trades.spent + trades.earned) + Worths[c], account.balance,
                  Owing \ {c}, Worths')
    <3>1. /\ Initial - trades.spent + trades.earned \in Int
          /\ \A d \in Owing : Worths[d] \in Int
          /\ \A d \in Owing \ {c} : Worths'[d] = Worths[d]
      BY <1>3, <1>4, Inputs, Whole DEF Owing, Worths
    <3> QED
      BY <1>8, <2>1, <3>1, Pays
  <2>3. ASSUME NEW s \in Symbols
        PROVE  Explained(trades'.bought[s] - trades'.sold[s], position[s], Moving(s)', Moves')
    <3>1. /\ \A d \in Moving(s) : Moves[d] \in Int
          /\ \A d \in Moving(s) \ {c} : Moves'[d] = Moves[d]
          /\ trades.bought[s] - trades.sold[s] \in Int
      BY <1>3, <1>4, Whole DEF Moving, Moves
    <3>2. CASE s = r.symbol
      <4>1. Explained((trades.bought[s] - trades.sold[s]) + Moves[c], position[s],
                      Moving(s) \ {c}, Moves')
        BY <1>8, <2>1, <3>1, <3>2, Pays
      <4>2. Moving(s)' = Moving(s) \ {c}
        BY <1>8, <3>2
      <4>3. trades'.bought[s] - trades'.sold[s] = (trades.bought[s] - trades.sold[s]) + Moves[c]
        BY <1>9, <3>2
      <4> QED
        BY <4>1, <4>2, <4>3
    <3>3. CASE s # r.symbol
      <4>0. c \notin Moving(s)
        BY <3>3 DEF Moving
      <4>1. Explained(trades.bought[s] - trades.sold[s], position[s], Moving(s), Moves')
        BY <2>1, <3>1, <4>0, Unmoved
      <4> QED
        BY <1>8, <1>9, <3>3, <4>1
    <3> QED
      BY <3>2, <3>3
  <2> QED
    BY <1>1, <1>8, <1>9, <2>2, <2>3 DEF BooksInv
<1> QED
  BY <1>4, <1>6, <1>10 DEF LedgerInv

LEMMA ThrowKeeps ==
  ASSUME IInv, LedgerInv, NEW c \in Calls, Throw(c)
  PROVE  LedgerInv'
<1>1. /\ Set(c, [None EXCEPT !.pc = "done"]) /\ UNCHANGED <<account, position, trades>>
      /\ torn' = (torn \/ call[c].pc \in {"position", "trade"})
      /\ [None EXCEPT !.pc = "done"].pc = "done"
  BY DEF Throw, End, None
<1>2. CASE call[c].pc \in {"position", "trade"}
  <2>1. DealInv' /\ \A d \in Calls : d # c => call'[d] = call[d]
    BY <1>1, EndedDeal, OneRecord DEF LedgerInv
  <2>2. call'[c].pc = "done"
    BY <1>1, EndedDeal, OneRecord DEF LedgerInv
  <2>3. OpenInv' /\ BooksInv'
    BY <1>1, <1>2, <2>1, <2>2 DEF LedgerInv, OpenInv, BooksInv
  <2> QED
    BY <2>1, <2>3 DEF LedgerInv
<1>3. CASE call[c].pc \notin {"position", "trade"}
  <2>1. torn' = torn
    BY <1>1, <1>3 DEF IInv, TypeOK
  <2> QED
    BY <1>1, <1>3, <2>1, EndedDeal, BooksKept
<1> QED
  BY <1>2, <1>3

LEMMA RestartKeeps ==
  ASSUME IInv, LedgerInv, Restart
  PROVE  LedgerInv'
<1> DEFINE dead == [None EXCEPT !.pc = "done"]
<1>1. /\ \A c \in Calls : call'[c] \in {None, dead}
      /\ UNCHANGED <<account, position, trades>>
      /\ torn' = (torn \/ \E c \in Calls : call[c].pc \in {"position", "trade"})
  BY DEF Restart
<1>2. dead.pc = "done" /\ None.pc = "idle" /\ DealOK(dead) /\ DealOK(None)
  BY EndedDeal DEF None
<1> HIDE DEF dead
<1>3. DealInv' /\ OpenInv'
  BY <1>1, <1>2 DEF LedgerInv, DealInv, OpenInv
<1>4. BooksInv'
  <2> SUFFICES ASSUME ~torn, \A c \in Calls : call[c].pc \notin {"position", "trade"}, account.open
               PROVE  BooksInv'
    BY <1>1 DEF BooksInv
  <2>1. Owing = {} /\ Owing' = {} /\ \A s \in Symbols : Moving(s) = {} /\ Moving(s)' = {}
    BY <1>1, <1>2 DEF Owing, Moving
  <2>2. /\ Explained(Initial - trades.spent + trades.earned, account.balance, Owing, Worths')
        /\ \A s \in Symbols :
             Explained(trades.bought[s] - trades.sold[s], position[s], Moving(s), Moves')
    <3>1. /\ \A d \in Owing : Worths'[d] = Worths[d]
          /\ \A s \in Symbols : \A d \in Moving(s) : Moves'[d] = Moves[d]
      BY <2>1
    <3> QED
      BY <3>1, Unmoved DEF LedgerInv, BooksInv
  <2> QED
    BY <1>1, <2>1, <2>2 DEF BooksInv
<1> QED
  BY <1>3, <1>4 DEF LedgerInv

LEMMA NextLedger ==
  ASSUME IInv, LedgerInv, [Next]_vars
  PROVE  LedgerInv'
<1>1. ASSUME NEW c \in Calls,
             ReadAccount(c) \/ AskCreate(c) \/ ReadBook(c) \/ ReadPosition(c)
               \/ ReadToClose(c) \/ BookToClose(c)
      PROVE  LedgerInv'
  <2>1. UNCHANGED <<account, position, trades, torn>> /\ call[c].pc \notin {"position", "trade"}
    BY <1>1 DEF ReadAccount, AskCreate, ReadBook, ReadPosition, ReadToClose, BookToClose
  <2>2. PICK v : /\ Set(c, v) /\ DealOK(v) /\ v.pc \notin {"position", "trade"}
                 /\ v.pc # "done" /\ v.side # "create" =>
                      account.open \/ (call[c].pc \notin {"idle", "done"} /\ call[c].side # "create")
    BY <1>1, ReadsDeal DEF LedgerInv
  <2>3. v.pc \in {"idle", "done"} \/ v.side = "create" \/ account.open
    BY <2>2, Opened DEF LedgerInv
  <2> QED
    BY <2>1, <2>2, <2>3, BooksKept
<1>2. CASE UNCHANGED vars
  BY <1>2 DEF vars, LedgerInv, DealInv, OpenInv, BooksInv, Owing, Moving, Worths, Moves
<1> QED
  BY <1>1, <1>2, CreateKeeps, OrderPays, PositionKeeps, TradeKeeps, ThrowKeeps, RestartKeeps
  DEF Next

LEMMA InitLedger == Init => LedgerInv
<1> SUFFICES ASSUME Init PROVE LedgerInv
  OBVIOUS
<1>1. DealInv
  BY EndedDeal DEF Init, DealInv
<1> QED
  BY <1>1 DEF Init, None, OpenInv, BooksInv, LedgerInv

\* Whatever orders are between their writes, the balance and the positions are what the
\* trades and these orders explain, unless a write was lost or a call cut off.
THEOREM LedgerInvariant == Spec => []LedgerInv
<1>1. LedgerInv /\ IInv /\ [Next]_vars => LedgerInv'
  BY NextLedger
<1> QED
  BY InitLedger, <1>1, TradingInvariant, PTL DEF Spec

\* With no order between its writes, the balance and the positions are exactly what the
\* recorded trades explain: a value written over one not read, and a call cut off
\* between its writes, are the only ways by which the books come apart.
THEOREM BooksAgree == Spec => []LedgerAgrees
<1>1. LedgerInv => LedgerAgrees
  <2> SUFFICES ASSUME LedgerInv, ~torn, account.open,
                      \A c \in Calls : call[c].pc \notin {"position", "trade"}
               PROVE  /\ account.balance = Initial - trades.spent + trades.earned
                      /\ \A s \in Symbols : position[s] = trades.bought[s] - trades.sold[s]
    BY DEF LedgerAgrees
  <2>1. Owing = {} /\ \A s \in Symbols : Moving(s) = {}
    BY DEF Owing, Moving
  <2>2. /\ Explained(Initial - trades.spent + trades.earned, account.balance, {}, Worths)
        /\ \A s \in Symbols :
             Explained(trades.bought[s] - trades.sold[s], position[s], {}, Moves)
    BY <2>1 DEF LedgerInv, BooksInv
  <2> QED
    BY <2>2, NothingLeft
<1> QED
  BY <1>1, LedgerInvariant, PTL

\* An order is filled as far as the book goes, and at the best price for that amount, for
\* all books of two levels that list the best price first.
THEOREM FillsAreBest == Spec => []FillIsBest
<1>1. ASSUME IInv, LedgerInv, NEW c \in Calls, call[c].book # <<>>
      PROVE  LET o == call[c]
                 depth(i) == IF i \in DOMAIN o.book THEN o.book[i].available ELSE 0
                 price(i) == IF i \in DOMAIN o.book THEN o.book[i].price ELSE 0
                 ways == {w \in (0 .. depth(1)) \X (0 .. depth(2)) : w[1] + w[2] = o.filled}
             IN  /\ o.filled = Lesser(o.size, depth(1) + depth(2))
                 /\ ways # {}
                 /\ \A v \in ways : LET paid == v[1] * price(1) + v[2] * price(2)
                                    IN  IF o.side = "buy" THEN o.gross <= paid ELSE o.gross >= paid
  <2> DEFINE o == call[c]
  <2>1. o \in Call /\ o.book \in Side /\ o.size \in Nat
    BY <1>1 DEF IInv, CallOK, Call
  <2>2. /\ o.filled = Filled(o.book, o.size) /\ o.gross = Notional(o.book, o.size)
        /\ o.side = "buy" => o.book \in Asks
        /\ o.side # "buy" => o.book \in Bids
    BY <1>1 DEF LedgerInv, DealInv, DealOK, BookOK, Shown
  <2> HIDE DEF o
  <2>3. /\ o.filled = Lesser(o.size, Depth(o.book, 1) + Depth(o.book, 2))
        /\ \E v \in (0 .. Depth(o.book, 1)) \X (0 .. Depth(o.book, 2)) : v[1] + v[2] = o.filled
        /\ \A v \in (0 .. Depth(o.book, 1)) \X (0 .. Depth(o.book, 2)) : v[1] + v[2] = o.filled =>
             /\ o.side = "buy" => o.gross <= v[1] * Price(o.book, 1) + v[2] * Price(o.book, 2)
             /\ o.side # "buy" => o.gross >= v[1] * Price(o.book, 1) + v[2] * Price(o.book, 2)
    BY <1>1, <2>1, <2>2, BestFill DEF o
  <2> QED
    BY <2>3 DEF Depth, Price, o
<1>2. IInv /\ LedgerInv => FillIsBest
  BY <1>1 DEF FillIsBest
<1> QED
  BY <1>2, TradingInvariant, LedgerInvariant, PTL
=============================================================================
