------------------------------ MODULE ConfigMessage ------------------------------
(***************************************************************************)
(* The device's configuration message and how mqtt.c reads it: not with a  *)
(* JSON parser, but by searching for the text of a key and taking what     *)
(* stands between the second and the third quotation mark after it.  A     *)
(* message is a sequence of pieces of text: braces, quotation marks, other *)
(* punctuation, keys and values.                                           *)
(***************************************************************************)
EXTENDS Integers, Sequences, FiniteSetsExt

CONSTANTS quote, opening, closing, punctuation,   \* pieces of every message
          version_key, url_key                    \* "firmware_version", "url"

ASSUME TextAssumption == /\ quote \notin {opening, closing, punctuation}
                         /\ version_key # url_key
                         /\ {version_key, url_key} \cap
                              {quote, opening, closing, punctuation} = {}

\* The message that the operator's configuration makes: values are quoted.
Entry(key, value) == <<quote, key, quote, punctuation, quote, value, quote>>

Text(config) == <<opening>> \o Entry(version_key, config.version) \o <<punctuation>>
                  \o Entry(url_key, config.url) \o <<closing>>

is_json_valid(json) ==
  /\ Len(json) >= 1
  /\ json[1] = opening /\ json[Len(json)] = closing

\* The places of the quotation marks behind place i.
QuotesAfter(json, i) == {j \in i + 1 .. Len(json) : json[j] = quote}

\* What stands between the second and the third quotation mark behind place i.
ValueAt(json, i) ==
  LET opens  == Min(QuotesAfter(json, Min(QuotesAfter(json, i))))
      closes == Min(QuotesAfter(json, opens))
  IN SubSeq(json, opens + 1, closes - 1)

\* Every place with the text of the key, even within a value, writes its value
\* over the one before; an empty value leaves it.  None found is NULL, here << >>.
getValueFromJson(json, key) ==
  LET found == {i \in 1 .. Len(json) :
                  /\ json[i] = key
                  /\ Cardinality(QuotesAfter(json, i)) >= 3
                  /\ ValueAt(json, i) # << >>}
  IN IF found = {} THEN << >> ELSE ValueAt(json, Max(found))

\* The URLs that firmware_update_check downloads from: one or none.
UpdateUrls(json, running_version) ==
  LET version == getValueFromJson(json, version_key)
      url     == getValueFromJson(json, url_key)
  IN {u \in {url} : /\ version # << >> /\ version # <<running_version>>
                    /\ u # << >>}
===============================================================================
