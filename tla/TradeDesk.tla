------------------------------ MODULE TradeDesk ------------------------------
(***************************************************************************)
(* What the trading surfaces keep between requests: TxCore's quotes, the   *)
(* journal of confirmed trades and the pages of its history (tx_core.py,   *)
(* tx_trade_store.py).  Requests run in server threads; a quote or a       *)
(* history page reads the chain first and stores its result later, and the *)
(* chain may reorganise in between.                                        *)
(*                                                                         *)
(* What a swap plan is, SwapPlan says; here a transaction is its quote.    *)
(***************************************************************************)
EXTENDS Integers, Sequences, FiniteSets, Absent

CONSTANTS
    Wallets,
    QuoteTtl,      \* ttl_s
    CacheSeconds,  \* HISTORY_CACHE_SECONDS
    WalletQuotes,  \* MAX_QUOTES_PER_WALLET
    MaxTime, MaxBlocks, MaxDeskForks, MaxQuotes

ASSUME DeskAssumption ==
    /\ QuoteTtl \in Nat /\ CacheSeconds \in Nat
    /\ WalletQuotes \in Nat \ {0}
    /\ {MaxTime, MaxBlocks, MaxDeskForks, MaxQuotes} \subseteq Nat

VARIABLES
    now,
    blocks,     \* the canonical chain: a sequence of block hashes
    deskForks,      \* block hashes ever used
    quotes,     \* TxCore._quotes; an id is a quote's place in insertion order
    quoting,    \* quoting[w]: NULL, or the quote being worked out: [block, expires]
    made,       \* quotes ever stored
    prepared,   \* transactions handed to a wallet: [id, wallet]
    mined,      \* mined[id]: the block hash that holds the transaction, or NULL
    journal,    \* TradeStore: [hash, wallet, block, at]
    saving,     \* saving[w]: a trade was saved, its pages are not dropped yet
    historyPages,  \* _history_wallets[w]: NULL or [until, rows]
    reading     \* reading[w]: NULL, or a history call that missed the cache

chainVars == <<blocks, deskForks, mined>>
quoteVars == <<quotes, quoting, made, prepared>>
tradeVars == <<journal, saving, historyPages, reading>>
deskVars == <<now, chainVars, quoteVars, tradeVars>>

Latest == [number |-> Len(blocks), hash |-> blocks[Len(blocks)]]
Canonical(b) == b.number <= Len(blocks) /\ blocks[b.number] = b.hash
OnChain(id) == mined[id] # NULL /\ \E n \in 1..Len(blocks) : blocks[n] = mined[id]
BlockOf(id) == CHOOSE n \in 1..Len(blocks) : blocks[n] = mined[id]

----------------------------------------------------------------------------
(* TxCore: quote, _store, prepare *)

BeginQuote(w) ==
    /\ quoting[w] = NULL
    /\ quoting' = [quoting EXCEPT ![w] = [block |-> Latest, expires |-> now + QuoteTtl]]
    /\ UNCHANGED <<now, chainVars, quotes, made, prepared, tradeVars>>

\* Expired quotes go, then the wallet's oldest when it has too many.
Unexpired(qs) == {q \in qs : q.expires > now}
Owned(qs, w) == {q \in qs : q.wallet = w}
Oldest(qs) == CHOOSE q \in qs : \A r \in qs : q.id <= r.id

\* Mutant: the oldest quote goes, whoever asked for it.
Mutant_WithoutOldest(qs, w) == IF Cardinality(qs) < WalletQuotes THEN qs ELSE qs \ {Oldest(qs)}

WithoutOldest(qs, w) ==
    IF Cardinality(Owned(qs, w)) < WalletQuotes THEN qs ELSE qs \ {Oldest(Owned(qs, w))}

StoreQuote(w) ==
    /\ quoting[w] # NULL /\ made < MaxQuotes
    /\ made' = made + 1
    /\ quotes' = WithoutOldest(Unexpired(quotes), w) \cup
          {[id |-> made + 1, wallet |-> w, block |-> quoting[w].block, expires |-> quoting[w].expires]}
    /\ quoting' = [quoting EXCEPT ![w] = NULL]
    /\ UNCHANGED <<now, chainVars, prepared, tradeVars>>

RefuseQuote(w) ==
    /\ quoting[w] # NULL
    /\ quoting' = [quoting EXCEPT ![w] = NULL]
    /\ UNCHANGED <<now, chainVars, quotes, made, prepared, tradeVars>>

\* An expired quote is dropped; one whose block is gone, or whose wallet, funds
\* or allowance fail, is refused and stays.
PrepareTrade(w, q) ==
    /\ IF now >= q.expires THEN quotes' = quotes \ {q} /\ UNCHANGED prepared
       ELSE /\ w = q.wallet /\ Canonical(q.block)
            /\ prepared' = prepared \cup {[id |-> q.id, wallet |-> w]}
            /\ UNCHANGED quotes
    /\ UNCHANGED <<now, chainVars, quoting, made, tradeVars>>

----------------------------------------------------------------------------
(* External: the chain, the clock and the wallets *)

Broadcast(p) ==
    /\ ~OnChain(p.id)
    /\ mined' = [mined EXCEPT ![p.id] = Latest.hash]
    /\ UNCHANGED <<now, blocks, deskForks, quoteVars, tradeVars>>

NewBlock ==
    /\ Len(blocks) < MaxBlocks
    /\ blocks' = Append(blocks, deskForks + 1) /\ deskForks' = deskForks + 1
    /\ UNCHANGED <<now, mined, quoteVars, tradeVars>>

ForkBlock ==
    /\ Len(blocks) > 1 /\ deskForks < MaxBlocks + MaxDeskForks
    /\ blocks' = [blocks EXCEPT ![Len(blocks)] = deskForks + 1] /\ deskForks' = deskForks + 1
    /\ UNCHANGED <<now, mined, quoteVars, tradeVars>>

ClockTicks ==
    /\ now < MaxTime
    /\ now' = now + 1
    /\ UNCHANGED <<chainVars, quoteVars, tradeVars>>

----------------------------------------------------------------------------
(* receipt, history *)

\* A confirmed trade is saved, or saved again with the block it is in now; the
\* wallet's pages are dropped afterwards.
SaveTrade(p) ==
    /\ OnChain(p.id) /\ ~saving[p.wallet]
    /\ LET old == {r \in journal : r.hash = p.id}
           at == IF old = {} THEN now ELSE (CHOOSE r \in old : TRUE).at
       IN  journal' = (journal \ old) \cup {[hash |-> p.id, wallet |-> p.wallet, block |-> BlockOf(p.id), at |-> at]}
    /\ saving' = [saving EXCEPT ![p.wallet] = TRUE]
    /\ UNCHANGED <<now, chainVars, quoteVars, historyPages, reading>>

DropPages(w) ==
    /\ saving[w]
    /\ saving' = [saving EXCEPT ![w] = FALSE]
    /\ historyPages' = [historyPages EXCEPT ![w] = NULL]
    /\ UNCHANGED <<now, chainVars, quoteVars, journal, reading>>

StoredTrades(w) == {r.hash : r \in {x \in journal : x.wallet = w}}
Discovered(w) == {p.id : p \in {x \in prepared : x.wallet = w /\ OnChain(x.id)}}

\* A page is cached until a time fixed before its rows are read.
PageExpiry(began) == began + CacheSeconds

CacheHit(w) == historyPages[w] # NULL /\ historyPages[w].until > now

HistoryReads(w) ==
    /\ reading[w] = NULL /\ ~CacheHit(w)
    /\ reading' = [reading EXCEPT ![w] = [began |-> now, rows |-> StoredTrades(w) \cup Discovered(w)]]
    /\ UNCHANGED <<now, chainVars, quoteVars, journal, saving, historyPages>>

HistoryReturns(w) ==
    /\ reading[w] # NULL
    /\ historyPages' = [historyPages EXCEPT ![w] = [until |-> PageExpiry(reading[w].began), rows |-> reading[w].rows]]
    /\ reading' = [reading EXCEPT ![w] = NULL]
    /\ UNCHANGED <<now, chainVars, quoteVars, journal, saving>>

HistoryFails(w) ==
    /\ reading[w] # NULL
    /\ reading' = [reading EXCEPT ![w] = NULL]
    /\ UNCHANGED <<now, chainVars, quoteVars, journal, saving, historyPages>>

----------------------------------------------------------------------------
DeskInit ==
    /\ now = 0 /\ blocks = <<1>> /\ deskForks = 1
    /\ quotes = {} /\ quoting = [w \in Wallets |-> NULL] /\ made = 0 /\ prepared = {}
    /\ mined = [id \in 1..MaxQuotes |-> NULL]
    /\ journal = {} /\ saving = [w \in Wallets |-> FALSE]
    /\ historyPages = [w \in Wallets |-> NULL] /\ reading = [w \in Wallets |-> NULL]

DeskNext ==
    \/ \E w \in Wallets :
         \/ BeginQuote(w) \/ StoreQuote(w) \/ RefuseQuote(w)
         \/ \E q \in quotes : PrepareTrade(w, q)
         \/ DropPages(w) \/ HistoryReads(w) \/ HistoryReturns(w) \/ HistoryFails(w)
    \/ \E p \in prepared : Broadcast(p) \/ SaveTrade(p)
    \/ NewBlock \/ ForkBlock \/ ClockTicks

DeskSpec == DeskInit /\ [][DeskNext]_deskVars

----------------------------------------------------------------------------
\* A page may be served from the cache, and be stored by a call that read the
\* journal before a trade was saved and its pages dropped; still no page misses
\* a trade that was saved more than the cache time before it was asked for.
HistoryBounded ==
    \A w \in Wallets : CacheHit(w) =>
        {r.hash : r \in {x \in journal : x.wallet = w /\ x.at + CacheSeconds <= now}} \subseteq historyPages[w].rows

\* Only its own wallet's later quotes, or its expiry, make a quote disappear:
\* another wallet cannot crowd it out between quote and signature.
QuoteKept ==
    [][\A q \in quotes :
          \/ q \in quotes' \/ now >= q.expires
          \/ \E r \in quotes' \ quotes : r.wallet = q.wallet]_deskVars

\* What the desk promises a wallet of its history and of its quotes.
DeskKept == []HistoryBounded /\ QuoteKept
=============================================================================
