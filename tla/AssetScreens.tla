---------------------------- MODULE AssetScreens ----------------------------
(***************************************************************************)
(* The screens of the assets: home, search and watchlist, the details of   *)
(* an asset with its star, and the keypad on which an amount to trade is   *)
(* typed.                                                                  *)
(*                                                                         *)
(* The watchlist is an array in UserDefaults (ATCDiskPersistenceStore).    *)
(* Every screen reads it on its own: the list once, in its initialiser,    *)
(* the star when its screen loads and after each tap on it.                *)
(***************************************************************************)
EXTENDS Naturals, Sequences, SequencesExt

CONSTANTS
    Assets,     \* identified by their ticker (diffIdentifier)
    Priced,     \* those whose price is a number
    NoAsset,    \* no details are open
    MaxLength   \* bound: keys in the amount

ASSUME PricedAssumption == Priced \subseteq Assets
ASSUME MaxLengthAssumption == MaxLength \in Nat
ASSUME NoAssetAssumption == NoAsset \notin Assets

\* The classes of keys that Double(_:) tells apart: digit is any but zero.
Keys == {"0", "digit", "."}

VARIABLES
    stored,     \* UserDefaults: "asset_watchlist"; no entry is <<>>
    list,       \* the screen below the details
    rows,       \* what the watchlist shows (or showed, when it is closed)
    odd,        \* history: assets whose star was tapped an odd number of times
    asset,      \* whose details are open, or NoAsset
    starFilled, \* the icon of the watchlistButton
    trading,    \* the keypad is presented
    text,       \* of the numberTextField
    tradeShown, \* the tradeButton can be seen, and so be tapped
    pasted      \* the text was last changed by UIKit, not by a key

screenVars == <<list, rows, asset, starFilled>>
keypadVars == <<trading, text, tradeShown, pasted>>
storeVars == <<stored, odd>>
vars == <<storeVars, screenVars, keypadVars>>

TypeOK ==
    /\ stored \in Seq(Assets)
    /\ odd \subseteq Assets
    /\ list \in {"home", "search", "watchlist"}
    /\ rows \in Seq(Assets)
    /\ asset \in Assets \cup {NoAsset}
    /\ starFilled \in BOOLEAN
    /\ trading \in BOOLEAN
    /\ text \in Seq(Keys)
    /\ tradeShown \in BOOLEAN
    /\ pasted \in BOOLEAN
    /\ trading => asset # NoAsset

Init ==
    /\ stored = <<>>
    /\ odd = {}
    /\ list = "home"
    /\ rows = <<>>
    /\ asset = NoAsset
    /\ starFilled = FALSE
    /\ trading = FALSE
    /\ text = <<>>
    /\ tradeShown = FALSE
    /\ pasted = FALSE

\* The process is killed and started again; UserDefaults stay.
Relaunch ==
    /\ list' = "home"
    /\ rows' = <<>>
    /\ asset' = NoAsset
    /\ starFilled' = FALSE
    /\ trading' = FALSE
    /\ text' = <<>>
    /\ tradeShown' = FALSE
    /\ pasted' = FALSE
    /\ UNCHANGED storeVars

-----------------------------------------------------------------------------
(* ATCDiskPersistenceStore                                                 *)

\* Nothing looks for the asset here.
AppendTo(s, a) == Append(s, a)

Positions(s, a) == {i \in DOMAIN s : s[i] = a}

\* Mutant of RemoveFrom: the last asset takes the place of the removed one.
RemoveFrom_Swaps(s, a) ==
    LET i == CHOOSE k \in Positions(s, a) : TRUE IN
    IF Contains(s, a) THEN Front([s EXCEPT ![i] = Last(s)]) ELSE s

\* The last occurrence, and only that one.
RemoveFrom(s, a) ==
    IF Contains(s, a)
    THEN RemoveAt(s, CHOOSE i \in Positions(s, a) :
                         \A j \in Positions(s, a) : j <= i)
    ELSE s

-----------------------------------------------------------------------------
(* The navigation stack: at most a list over home and details over it.     *)

OpenSearch ==
    /\ list = "home" /\ asset = NoAsset
    /\ list' = "search"
    /\ UNCHANGED <<storeVars, rows, asset, starFilled, keypadVars>>

\* Mutant of OpenWatchlist: the screen is made once.
OpenWatchlist_Reused ==
    /\ list = "home" /\ asset = NoAsset
    /\ list' = "watchlist"
    /\ rows' = IF rows = <<>> THEN stored ELSE rows
    /\ UNCHANGED <<storeVars, asset, starFilled, keypadVars>>

\* The footer of the stocks; WatchlistViewController reads the store once.
OpenWatchlist ==
    /\ list = "home" /\ asset = NoAsset
    /\ list' = "watchlist"
    /\ rows' = stored
    /\ UNCHANGED <<storeVars, asset, starFilled, keypadVars>>

\* A row of a list, and configureWatchlistButton when the details load.
OpenDetails(a) ==
    /\ asset = NoAsset
    /\ list = "watchlist" => a \in ToSet(rows)
    /\ asset' = a
    /\ starFilled' = Contains(stored, a)
    /\ UNCHANGED <<storeVars, list, rows, keypadVars>>

\* Of the navigation bar.
Back ==
    /\ ~trading
    /\ \/ asset # NoAsset /\ asset' = NoAsset /\ UNCHANGED list
       \/ /\ asset = NoAsset /\ list # "home"
          /\ list' = "home"
          /\ UNCHANGED asset
    /\ UNCHANGED <<storeVars, rows, starFilled, keypadVars>>

\* Mutants of TapStar: the icon is read before the store changes; an asset
\* that is opened from the search is added without a look at the store.
TapStar_ReadsFirst ==
    /\ asset # NoAsset /\ ~trading
    /\ stored' = IF Contains(stored, asset)
                 THEN RemoveFrom(stored, asset)
                 ELSE AppendTo(stored, asset)
    /\ odd' = SymDiff(odd, {asset})
    /\ starFilled' = Contains(stored, asset)
    /\ UNCHANGED <<list, rows, asset, keypadVars>>

TapStar_AlwaysAdds ==
    /\ asset # NoAsset /\ ~trading
    /\ stored' = IF Contains(stored, asset) /\ list # "search"
                 THEN RemoveFrom(stored, asset)
                 ELSE AppendTo(stored, asset)
    /\ odd' = SymDiff(odd, {asset})
    /\ starFilled' = Contains(stored', asset)
    /\ UNCHANGED <<list, rows, asset, keypadVars>>

\* didTapWatchlistButton
TapStar ==
    /\ asset # NoAsset /\ ~trading
    /\ stored' = IF Contains(stored, asset)
                 THEN RemoveFrom(stored, asset)
                 ELSE AppendTo(stored, asset)
    /\ odd' = SymDiff(odd, {asset})
    /\ starFilled' = Contains(stored', asset)
    /\ UNCHANGED <<list, rows, asset, keypadVars>>

-----------------------------------------------------------------------------
(* AssetTradingViewController, presented over the details.                 *)

Count(s, key) == Cardinality({i \in DOMAIN s : s[i] = key})

\* Double(text) is a number and not zero.  The empty text, a bare point and
\* two points are no numbers; currentCredit takes them for 0.
NotZero(s) == Count(s, ".") <= 1 /\ Count(s, "digit") > 0

CurrentCreditIsZero(s) == ~NotZero(s) \/ asset \notin Priced

\* rowAdapterDidTapBuyButton and SellButton, then viewDidLoad
OpenTrading ==
    /\ asset # NoAsset /\ ~trading
    /\ trading' = TRUE
    /\ text' = <<>>
    /\ tradeShown' = FALSE
    /\ pasted' = FALSE
    /\ UNCHANGED <<storeVars, screenVars>>

\* Mutant of Press: the labels are not updated after the back arrow.
Press_BackKeepsLabels(key) ==
    /\ trading
    /\ Len(text) < MaxLength \/ key = "back"
    /\ text' = CASE key = "back" -> IF text = <<>> THEN text ELSE Front(text)
                 [] key = "0" /\ text = <<>> -> text
                 [] OTHER -> Append(text, key)
    /\ tradeShown' = IF key = "back" THEN tradeShown
                     ELSE ~CurrentCreditIsZero(text')
    /\ pasted' = FALSE
    /\ UNCHANGED <<storeVars, screenVars, trading>>

\* keyboardViewController(_:didTap:), with updateLabels at its end.
Press(key) ==
    /\ trading
    /\ Len(text) < MaxLength \/ key = "back"
    /\ text' = CASE key = "back" -> IF text = <<>> THEN text ELSE Front(text)
                 [] key = "0" /\ text = <<>> -> text
                 [] OTHER -> Append(text, key)
    /\ tradeShown' = ~CurrentCreditIsZero(text')
    /\ pasted' = FALSE
    /\ UNCHANGED <<storeVars, screenVars, trading>>

\* The field has no system keyboard but it can be edited; only a tap on a
\* key updates the labels.  What is pasted is made of the same characters.
Paste ==
    /\ trading
    /\ \E n \in 0..MaxLength : text' \in [1..n -> Keys]
    /\ pasted' = TRUE
    /\ UNCHANGED <<storeVars, screenVars, trading, tradeShown>>

\* didTapCancel, and didTapTradeButton, which does nothing more yet.
CloseTrading ==
    /\ trading' = FALSE
    /\ text' = <<>>
    /\ tradeShown' = FALSE
    /\ pasted' = FALSE
    /\ UNCHANGED <<storeVars, screenVars>>

Cancel == trading /\ CloseTrading
Trade == trading /\ tradeShown /\ CloseTrading

Next ==
    \/ Relaunch
    \/ OpenSearch
    \/ OpenWatchlist
    \/ \E a \in Assets : OpenDetails(a)
    \/ Back
    \/ TapStar
    \/ OpenTrading
    \/ \E key \in Keys \cup {"back"} : Press(key)
    \/ Paste
    \/ Cancel
    \/ Trade

Spec == Init /\ [][Next]_vars

-----------------------------------------------------------------------------
(* Properties                                                              *)

\* The stored array is the set of the assets whose star was tapped an odd
\* number of times, on whatever screens and in however many processes: append
\* does not look for the asset and remove takes one occurrence, so an asset
\* that got in twice would outlive the tap that should take it off.
StoredIsTapped == IsInjective(stored) /\ ToSet(stored) = odd

\* b and c are in s, and some b is not below some c.
NotBelow(s, b, c) == \E i, j \in DOMAIN s : i <= j /\ s[i] = b /\ s[j] = c

\* A tap on the star of one asset leaves the others where they are: none
\* comes or goes with it, and they stay in the order in which they were added.
OthersKeepTheirOrder ==
    [][\E a \in Assets : \A b, c \in Assets \ {a} :
           NotBelow(stored', b, c) <=> NotBelow(stored, b, c)]_stored

\* The star tells whether its asset is stored, however often and wherever
\* it was tapped before, in this process or an earlier one.
StarShowsStore ==
    asset # NoAsset => (starFilled <=> asset \in ToSet(stored))

\* The open list is a copy that is never refreshed.  It may still show what
\* was taken off the watchlist, but it misses nothing that is on it.
ListMissesNothing == list = "watchlist" => ToSet(stored) \subseteq ToSet(rows)

\* Trade can be tapped exactly when the amount, as it was typed, is a number
\* other than zero and has a price.  A paste is noticed at the next key.
TradeHasAmount ==
    trading /\ ~pasted => (tradeShown <=> NotZero(text) /\ asset \in Priced)

=============================================================================
