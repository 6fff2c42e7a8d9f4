---------------------------- MODULE PaperTrading ----------------------------
(***************************************************************************)
(* Simulated trading: paperAccount, paperOrder and paperClose of           *)
(* mcp-trading/src/handlers.ts over the engine of paper-engine.ts, the     *)
(* limits of policy.ts and the store of core/src/tools/trading/store.ts.   *)
(*                                                                         *)
(* A call runs from one await to the next; its writes are unconditional,   *)
(* and it writes what it computed from what it read, whatever others wrote *)
(* in between. Agents, the HTTP routes and MCP clients call at will.       *)
(*                                                                         *)
(* One account. Money is counted in units of 1/FeeDen of the quote, so     *)
(* that a fee is whole. An order given by notional is one of some size.    *)
(* Entry prices, realised gains and reports are left out. A book shows two *)
(* levels at most, best first; the market is free to show any of Asks and  *)
(* Bids at each request. The trades are kept as their sums.                *)
(***************************************************************************)
EXTENDS Integers, Sequences

CONSTANTS
  Calls,           \* bound: activations of the handlers, each used once
  Symbols,         \* trading pairs
  Sizes,           \* amounts an order may ask for
  Asks, Bids,      \* sides of books the exchange may show
  FeeNum, FeeDen,  \* feeRate = FeeNum / FeeDen
  Initial,         \* initialBalance, in units of 1/FeeDen
  Modes,           \* values TRADING_MODE may have when the process starts
  Whitelist,       \* SYMBOL_WHITELIST; empty, it allows every pair
  MaxNotional,     \* MAX_ORDER_NOTIONAL
  MaxCrashes,      \* bound: deaths of the process
  MaxFaults,       \* bound: store or exchange errors
  NoSymbol         \* stands for no symbol

Level == [price : Nat \ {0}, available : Nat]
Side == {levels \in Seq(Level) : Len(levels) <= 2}

ASSUME TradingBounds ==
  /\ \A n \in Sizes : n \in Nat \ {0}
  /\ \A levels \in Asks \union Bids : levels \in Side
  /\ FeeNum \in Nat /\ FeeDen \in Nat \ {0} /\ FeeNum <= FeeDen
  /\ {Initial, MaxNotional, MaxCrashes, MaxFaults} \subseteq Nat
  /\ Modes \subseteq {"readonly", "paper", "testnet"}
  /\ Whitelist \subseteq Symbols /\ NoSymbol \notin Symbols

\* The exchange lists the best price first, as the code takes asks[0] and bids[0] to be.
ASSUME BestFirst ==
  /\ \A levels \in Asks : Len(levels) = 2 => levels[1].price <= levels[2].price
  /\ \A levels \in Bids : Len(levels) = 2 => levels[1].price >= levels[2].price

VARIABLES
  account,    \* paperAccounts: absent or a balance
  position,   \* paperPositions: the amount held, 0 when there is no document
  trades,     \* paperTrades: sums of costs, proceeds and amounts
  mode,       \* the mode of the running process
  call,       \* activations of the handlers and what they hold in memory
  crashes, faults,
  torn        \* history: a write went over a value its call had not read, or a
              \* call stopped between its writes

vars == <<account, position, trades, mode, call, crashes, faults, torn>>

None == [side |-> "none", symbol |-> NoSymbol, size |-> 0, pc |-> "idle", saw |-> 0, held |-> 0,
         book |-> <<>>, filled |-> 0, gross |-> 0, balance |-> 0, amount |-> 0]
Writing == {"account", "position", "trade"}

Init ==
  /\ account = [open |-> FALSE, balance |-> 0]
  /\ position = [s \in Symbols |-> 0]
  /\ trades = [spent |-> 0, earned |-> 0,
               bought |-> [s \in Symbols |-> 0], sold |-> [s \in Symbols |-> 0]]
  /\ mode \in Modes
  /\ call = [c \in Calls |-> None]
  /\ crashes = 0 /\ faults = 0
  /\ torn = FALSE

-----------------------------------------------------------------------------
(* The engine and the policy. TakeWhole, AffordsBeforeFee, AllowedInAnyMode *)
(* and AddedBeforeFee are mistakes the properties must tell from the code.  *)

Lesser(a, b) == IF a <= b THEN a ELSE b

\* What fillFromBook takes from each level.
TakeFirst(levels, size) == IF levels = <<>> THEN 0 ELSE Lesser(size, levels[1].available)
TakeWhole(levels, size) ==
  IF Len(levels) < 2 THEN 0 ELSE Lesser(size, levels[2].available)
TakeSecond(levels, size) ==
  IF Len(levels) < 2 THEN 0 ELSE Lesser(size - TakeFirst(levels, size), levels[2].available)

Filled(levels, size) == TakeFirst(levels, size) + TakeSecond(levels, size)

\* averagePrice times the filled amount.
Notional(levels, size) ==
  (IF levels = <<>> THEN 0 ELSE levels[1].price * TakeFirst(levels, size))
    + (IF Len(levels) < 2 THEN 0 ELSE levels[2].price * TakeSecond(levels, size))

Gross(c) == FeeDen * c.gross
Fee(c) == FeeNum * c.gross
AffordsBeforeFee(c) == Gross(c) <= c.saw
CanAfford(c) == Gross(c) + Fee(c) <= c.saw
CanSell(c) == c.held > 0 /\ c.filled <= c.held

\* executeMarketOrder: the balance and the amount it returns.
Outcome(c) ==
  IF c.side = "buy"
  THEN [c EXCEPT !.balance = c.saw - (Gross(c) + Fee(c)), !.amount = c.held + c.filled]
  ELSE [c EXCEPT !.balance = c.saw + Gross(c) - Fee(c), !.amount = c.held - c.filled]

Executes(c) == c.filled > 0 /\ IF c.side = "buy" THEN CanAfford(c) ELSE CanSell(c)

\* Ends in the order's first write, or in its error.
Execute(c) == IF Executes(c) THEN [Outcome(c) EXCEPT !.pc = "account"]
                             ELSE [None EXCEPT !.pc = "done"]

\* checkPaperOrder and checkOrderLimits, on the best price of the book.
Listed(c) == Whitelist = {} \/ c.symbol \in Whitelist
AllowedInAnyMode(c) == Listed(c) /\ c.size * c.book[1].price <= MaxNotional
Allowed(c) ==
  /\ mode # "readonly"
  /\ Listed(c)
  /\ c.size * c.book[1].price <= MaxNotional

-----------------------------------------------------------------------------
(* The handlers, await by await.                                            *)

Set(c, v) == call' = [call EXCEPT ![c] = v]
End(c) == Set(c, [None EXCEPT !.pc = "done"])
Shown(side) == IF side = "buy" THEN Asks ELSE Bids

\* loadAccount: a missing account is an error. paperClose asks for the position next,
\* paperOrder for the book.
ReadAccount(c) ==
  /\ call[c].pc = "idle"
  /\ \E side \in {"buy", "sell", "close"}, s \in Symbols, n \in Sizes :
       IF account.open
       THEN Set(c, [None EXCEPT !.side = side, !.symbol = s, !.saw = account.balance,
                                !.size = IF side = "close" THEN 0 ELSE n,
                                !.pc = IF side = "close" THEN "toclose" ELSE "book"])
       ELSE End(c)
  /\ UNCHANGED <<account, position, trades, mode, crashes, faults, torn>>

\* paperAccount, create: an account that exists is an error.
AskCreate(c) ==
  /\ call[c].pc = "idle"
  /\ IF account.open THEN End(c)
     ELSE Set(c, [None EXCEPT !.side = "create", !.balance = Initial, !.pc = "account"])
  /\ UNCHANGED <<account, position, trades, mode, crashes, faults, torn>>

\* paperOrder: the book, then the policy on its best price. An empty book is an error.
ReadBook(c) ==
  /\ call[c].pc = "book"
  /\ \E levels \in Shown(call[c].side) :
       LET seen == [call[c] EXCEPT !.book = levels,
                                   !.filled = Filled(levels, call[c].size),
                                   !.gross = Notional(levels, call[c].size),
                                   !.pc = "held"]
       IN  IF levels # <<>> /\ Allowed(seen) THEN Set(c, seen) ELSE End(c)
  /\ UNCHANGED <<account, position, trades, mode, crashes, faults, torn>>

\* paperOrder: the position, then the engine.
ReadPosition(c) ==
  /\ call[c].pc = "held"
  /\ Set(c, Execute([call[c] EXCEPT !.held = position[call[c].symbol]]))
  /\ UNCHANGED <<account, position, trades, mode, crashes, faults, torn>>

\* paperClose: the position, all of which it will sell.
ReadToClose(c) ==
  /\ call[c].pc = "toclose"
  /\ LET held == position[call[c].symbol]
     IN  IF held = 0 THEN End(c)
         ELSE Set(c, [call[c] EXCEPT !.held = held, !.size = held, !.pc = "closebook"])
  /\ UNCHANGED <<account, position, trades, mode, crashes, faults, torn>>

\* paperClose: the book, then the engine; the policy is not asked.
BookToClose(c) ==
  /\ call[c].pc = "closebook"
  /\ \E levels \in Bids :
       Set(c, Execute([call[c] EXCEPT !.book = levels,
                                      !.filled = Filled(levels, call[c].size),
                                      !.gross = Notional(levels, call[c].size)]))
  /\ UNCHANGED <<account, position, trades, mode, crashes, faults, torn>>

\* putAccount.
PutAccount(c) ==
  /\ call[c].pc = "account"
  /\ account' = [open |-> TRUE, balance |-> call[c].balance]
  /\ torn' = (torn \/ IF call[c].side = "create" THEN account.open
                      ELSE account.balance # call[c].saw)
  /\ IF call[c].side = "create" THEN End(c) ELSE Set(c, [call[c] EXCEPT !.pc = "position"])
  /\ UNCHANGED <<position, trades, mode, crashes, faults>>

\* putPosition, or deletePosition when nothing is left.
PutPosition(c) ==
  /\ call[c].pc = "position"
  /\ position' = [position EXCEPT ![call[c].symbol] = call[c].amount]
  /\ torn' = (torn \/ position[call[c].symbol] # call[c].held)
  /\ Set(c, [call[c] EXCEPT !.pc = "trade"])
  /\ UNCHANGED <<account, trades, mode, crashes, faults>>

AddedBeforeFee(c) ==
  IF c.side = "buy"
  THEN [trades EXCEPT !.spent = @ + Gross(c) + Fee(c), !.bought[c.symbol] = @ + c.filled]
  ELSE [trades EXCEPT !.earned = @ + Gross(c), !.sold[c.symbol] = @ + c.filled]
\* The sums with the trade of an order added.
Added(c) ==
  IF c.side = "buy"
  THEN [trades EXCEPT !.spent = @ + Gross(c) + Fee(c), !.bought[c.symbol] = @ + c.filled]
  ELSE [trades EXCEPT !.earned = @ + Gross(c) - Fee(c), !.sold[c.symbol] = @ + c.filled]

\* appendTrade.
AppendTrade(c) ==
  /\ call[c].pc = "trade"
  /\ trades' = Added(call[c])
  /\ End(c)
  /\ UNCHANGED <<account, position, mode, crashes, faults, torn>>

\* An await throws: the exchange does not answer, or the store fails.
Throw(c) ==
  /\ call[c].pc \notin {"idle", "done"}
  /\ faults < MaxFaults
  /\ faults' = faults + 1
  /\ End(c)
  /\ torn' = (torn \/ call[c].pc \in {"position", "trade"})
  /\ UNCHANGED <<account, position, trades, mode, crashes>>

\* The process dies and starts again, perhaps with another TRADING_MODE.
Restart ==
  /\ crashes < MaxCrashes
  /\ crashes' = crashes + 1
  /\ mode' \in Modes
  /\ torn' = (torn \/ \E c \in Calls : call[c].pc \in {"position", "trade"})
  /\ call' = [c \in Calls |-> IF call[c].pc = "idle" THEN None ELSE [None EXCEPT !.pc = "done"]]
  /\ UNCHANGED <<account, position, trades, faults>>

Next ==
  \/ \E c \in Calls :
       \/ ReadAccount(c) \/ AskCreate(c)
       \/ ReadBook(c) \/ ReadPosition(c)
       \/ ReadToClose(c) \/ BookToClose(c)
       \/ PutAccount(c) \/ PutPosition(c) \/ AppendTrade(c)
       \/ Throw(c)
  \/ Restart

Spec == Init /\ [][Next]_vars

-----------------------------------------------------------------------------
(* Properties.                                                              *)

\* Every variable keeps its type.
Call == [side : {"none", "buy", "sell", "close", "create"}, symbol : Symbols \union {NoSymbol},
         size : Nat, pc : {"idle", "book", "held", "toclose", "closebook", "done"} \union Writing,
         saw : Int, held : Int, book : Side, filled : Nat, gross : Nat,
         balance : Int, amount : Int]
TypeOK ==
  /\ account \in [open : BOOLEAN, balance : Int]
  /\ position \in [Symbols -> Int]
  /\ trades \in [spent : Int, earned : Int, bought : [Symbols -> Nat], sold : [Symbols -> Nat]]
  /\ mode \in {"readonly", "paper", "testnet"}
  /\ call \in [Calls -> Call]
  /\ crashes \in Nat /\ faults \in Nat
  /\ torn \in BOOLEAN

\* The engine opens no shorts and spends no money there is not, and that survives the
\* races its callers run: every write is computed from one consistent pair of reads that
\* passed the engine, so neither the balance nor a position is ever negative, whatever
\* orders, closes, creations, errors and deaths come in between.
Solvent == account.balance >= 0 /\ \A s \in Symbols : position[s] >= 0

\* With no order between its writes, the balance and the positions are exactly what the
\* recorded trades explain, unless a call wrote over a value it had not read or stopped
\* between its writes: those two ways are the only ones by which the books come apart.
LedgerAgrees ==
  (~torn /\ account.open /\ \A c \in Calls : call[c].pc \notin {"position", "trade"}) =>
    /\ account.balance = Initial - trades.spent + trades.earned
    /\ \A s \in Symbols : position[s] = trades.bought[s] - trades.sold[s]

\* An order is filled as far as the book goes and no further, and no other way to take
\* that amount from the book is better for it: fillFromBook invents no liquidity and
\* walks the levels from the best.
FillIsBest ==
  \A c \in Calls :
    LET o == call[c]
        depth(i) == IF i \in DOMAIN o.book THEN o.book[i].available ELSE 0
        price(i) == IF i \in DOMAIN o.book THEN o.book[i].price ELSE 0
        ways == {w \in (0 .. depth(1)) \X (0 .. depth(2)) : w[1] + w[2] = o.filled}
    IN  o.book # <<>> =>
          /\ o.filled = Lesser(o.size, depth(1) + depth(2))
          /\ ways # {}
          /\ \A v \in ways : LET paid == v[1] * price(1) + v[2] * price(2)
                             IN  IF o.side = "buy" THEN o.gross <= paid ELSE o.gross >= paid

\* A process in readonly mode buys nothing: no order that a process able to trade had under
\* way, and no call of its own, reaches the store.
ReadonlyBuysNothing == [][mode = "readonly" => trades'.bought = trades.bought]_vars

\* trading.md: in readonly mode there are no simulated orders. A close is not asked
\* the policy and sells, so no run checks it.
ReadonlyTradesNothing == [][mode = "readonly" => trades' = trades]_vars
=============================================================================
