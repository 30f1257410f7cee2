-------------------------------- MODULE Lexicon --------------------------------
(***************************************************************************)
(* Looking words up: in the tables of a dictionary (vocabulary.cc,         *)
(* table.cc, dictionary.cc) along the syllable graph of an input or by the *)
(* letters of a code, and in a user dictionary (user_dictionary.cc), whose *)
(* database is scanned forward.                                            *)
(*                                                                         *)
(* A table is a set of entries: text, code, and weight.  The first three   *)
(* syllables of a code are the index of the entry; entries of longer codes *)
(* are in one page for each index.  A user dictionary is a sequence of     *)
(* phrases, a code and a text each, in the order of their keys.            *)
(***************************************************************************)
EXTENDS Spellings, TLC

kIndexCodeMaxLength == 3

IndexCode(code) == SubSeq(code, 1, Min({Len(code), kIndexCodeMaxLength}))

Heavier(e, f) == e.weight > f.weight

\* The entries of a code, which SortHomophones has put in order.
Page(table, code) == SetToSortSeq({ e \in table : e.code = code }, Heavier)

TailPage(table, code) ==
  SetToSortSeq({ e \in table : /\ Len(e.code) > kIndexCodeMaxLength
                               /\ IndexCode(e.code) = code }, Heavier)

HasNextLevel(table, code) ==
  \E e \in table : Len(e.code) > Len(code) /\ IsPrefix(code, e.code)
-----------------------------------------------------------------------------
(* Table::Query: breadth first along the graph, up to the index length.    *)

StartQuery(start) == [ pos |-> start, code |-> << >>, credibility |-> 0, quality |-> 0, ends |-> << >> ]

QualityLength(edge) == IF edge.type = NormalSpelling THEN edge.to - edge.from ELSE 0

Walk(query, edge) ==
  [ pos         |-> edge.to,
    code        |-> Append(query.code, edge.syllable),
    credibility |-> query.credibility + edge.credibility,
    quality     |-> query.quality + QualityLength(edge),
    ends        |-> Append(query.ends, edge.to) ]

EdgesFrom(graph, pos) == { e \in graph.edges : e.from = pos }

Walks(graph, queries) ==
  UNION { { Walk(q, e) : e \in EdgesFrom(graph, q.pos) } : q \in queries }

\* The walks that are queued to go on from.
Queued(table, graph, walks) ==
  { q \in walks : q.pos < graph.interpreted_length /\ HasNextLevel(table, q.code) }

Chunk(query, to, code, entries, matching) ==
  [ to |-> to, code |-> code, entries |-> entries, matching_code_size |-> matching,
    credibility |-> query.credibility, quality |-> query.quality, ends |-> query.ends,
    remaining |-> 0 ]

ShortChunks(table, walks) ==
  { Chunk(q, q.pos, q.code, Page(table, q.code), Len(q.code)) :
      q \in { r \in walks : Page(table, r.code) # << >> } }

\* How far the rest of a long code is spelled: the farthest end, and how many
\* of its syllables; of equal ends the one along the longest edges.
Further(best, match) == IF match.success /\ match.to > best.to THEN match ELSE best

FailedMatch == [ success |-> FALSE, depth |-> 0, to |-> 0 ]

LongestFirst(e, f) == e.to > f.to

RECURSIVE MatchExtraCode(_, _, _, _, _)
MatchExtraCode(graph, extra, depth, pos, predict_word) ==
  IF depth >= Len(extra)
  THEN [ success |-> TRUE, depth |-> depth, to |-> pos ]
  ELSE IF pos >= graph.interpreted_length
  THEN IF predict_word
       THEN [ success |-> TRUE, depth |-> depth, to |-> graph.interpreted_length ]
       ELSE FailedMatch
  ELSE LET edges == SetToSortSeq({ e \in EdgesFrom(graph, pos) : e.syllable = extra[depth + 1] },
                                 LongestFirst)
           matches == [ i \in DOMAIN edges |->
                          MatchExtraCode(graph, extra, depth + 1, edges[i].to, predict_word) ]
       IN FoldLeft(Further, FailedMatch, matches)

LongChunks(table, graph, predict_word, queries) ==
  UNION { LET page == TailPage(table, q.code)
              Extra(e) == SubSeq(e.code, kIndexCodeMaxLength + 1, Len(e.code))
              Match(e) == MatchExtraCode(graph, Extra(e), 0, q.pos, predict_word)
          IN { Chunk(q, Match(page[i]).to, page[i].code, << page[i] >>,
                     kIndexCodeMaxLength + Match(page[i]).depth) :
                 i \in { j \in DOMAIN page : Match(page[j]).success } } :
            q \in { r \in queries : EdgesFrom(graph, r.pos) # {} } }

LookupTable(table, graph, start, predict_word) ==
  LET w1 == Walks(graph, {StartQuery(start)})
      w2 == Walks(graph, Queued(table, graph, w1))
      w3 == Walks(graph, Queued(table, graph, w2))
  IN IF start >= graph.interpreted_length
     THEN {}
     ELSE ShortChunks(table, w1 \cup w2 \cup w3)
            \cup LongChunks(table, graph, predict_word, Queued(table, graph, w3))
-----------------------------------------------------------------------------
(* The iterator over the chunks of one end position.                       *)

IsExactMatch(chunk) == chunk.matching_code_size = Len(chunk.code)

\* Mutant of BetterHead: predicted words are not kept behind exact ones.
BetterWeight(c, d) ==
  c.credibility + Head(c.entries).weight > d.credibility + Head(d.entries).weight

\* compare_chunk_by_head_element; the sequence has what is left of each chunk.
BetterHead(c, d) ==
  IF IsExactMatch(c) # IsExactMatch(d)
  THEN IsExactMatch(c)
  ELSE IF c.remaining # d.remaining
  THEN c.remaining < d.remaining
  ELSE c.credibility + Head(c.entries).weight > d.credibility + Head(d.entries).weight

\* partial_sort: the best chunk comes first, and the others stay in some order.
SortChunks(chunks) ==
  IF chunks = << >>
  THEN << >>
  ELSE LET best == CHOOSE i \in DOMAIN chunks :
                     \A j \in DOMAIN chunks \ {i} : ~BetterHead(chunks[j], chunks[i])
       IN << chunks[best] >> \o RemoveAt(chunks, best)

FindNextEntry(chunks) ==
  LET rest == Tail(Head(chunks).entries)
  IN SortChunks((IF rest = << >> THEN << >> ELSE << [ Head(chunks) EXCEPT !.entries = rest ] >>)
                  \o Tail(chunks))

IteratorEntry(chunk) ==
  [ text   |-> Head(chunk.entries).text,
    code   |-> chunk.code,
    weight |-> chunk.credibility + Head(chunk.entries).weight,
    exact  |-> IsExactMatch(chunk),
    quality   |-> chunk.quality,
    remaining |-> chunk.remaining ]

TakeEntry(state, n) ==
  [ chunks |-> FindNextEntry(state.chunks),
    taken  |-> Append(state.taken, IteratorEntry(Head(state.chunks))) ]

EntryCount(chunks) == FoldLeft(LAMBDA n, chunk : n + Len(chunk.entries), 0, chunks)

\* Everything that an iterator gives, from its first entry on.
Iterated(chunks) ==
  FoldLeft(TakeEntry, [ chunks |-> chunks, taken |-> << >> ],
           [ i \in 1..EntryCount(chunks) |-> i ]).taken

\* Skip passes over whole chunks, and entries of one, in the order they are in.
RECURSIVE Skip(_, _)
Skip(chunks, n) ==
  IF n = 0 \/ chunks = << >>
  THEN chunks
  ELSE LET first == Len(Head(chunks).entries)
       IN IF n < first
          THEN << [ Head(chunks) EXCEPT !.entries = SubSeq(@, n + 1, first) ] >> \o Tail(chunks)
          ELSE Skip(Tail(chunks), n - first)
-----------------------------------------------------------------------------
(* Dictionary: a prism, and the tables of the dictionary and of its packs. *)

AddTable(chunk, i) == [ table |-> i ] @@ chunk

Unless(blacklist, entry) == entry.text \notin blacklist

\* What Lookup finds: for every end position the entries that the iterator gives.
EntriesByEnd(chunks, blacklist) ==
  [ to \in { c.to : c \in chunks } |->
      SelectSeq(Iterated(SortChunks(SetToSeq({ c \in chunks : c.to = to }))),
                LAMBDA entry : Unless(blacklist, entry)) ]

LookupAll(tables, graph, start, blacklist, predict_word) ==
  EntriesByEnd(UNION { { AddTable(c, i) : c \in LookupTable(tables[i], graph, start, predict_word) } :
                         i \in DOMAIN tables },
               blacklist)

RemainingLength(key, code, syllable) ==
  IF Len(key) > Len(code) /\ Len(syllable) > Len(code) THEN Len(syllable) - Len(code) ELSE 0

WordChunk(code, key, syllable, table, i) ==
  LET entries == Page(table, << syllable >>)
  IN IF entries = << >>
     THEN << >>
     ELSE << [ table |-> i, to |-> Len(code), code |-> << syllable >>, entries |-> entries,
               matching_code_size |-> 1, credibility |-> 0, quality |-> 0, ends |-> << >>,
               remaining |-> RemainingLength(key, code, syllable) ] >>

\* The chunks of the syllables that a key spells out, in every table.
KeyChunks(prism, tables, code, key) ==
  LET syllables == SetToSortSeq({ y \in DOMAIN prism[key] : prism[key][y].type = NormalSpelling },
                                FoundBefore)
  IN FlattenSeq([ n \in DOMAIN syllables |->
       FlattenSeq([ i \in DOMAIN tables |-> WordChunk(code, key, syllables[n], tables[i], i) ]) ])

\* What the blacklist has is passed over.
RECURSIVE PassOver(_, _)
PassOver(chunks, blacklist) ==
  IF chunks = << >> \/ Head(Head(chunks).entries).text \notin blacklist
  THEN chunks
  ELSE PassOver(FindNextEntry(chunks), blacklist)

\* An iterator has what is left of its chunks, the entry that it has made of the head of
\* them, if any, and a count of what it had at first.
IteratorOver(chunks, entry, count) == [ chunks |-> chunks, entry |-> entry, count |-> count ]

\* AddFilter looks at the entry that it does not pass over; without a blacklist there is
\* no filter.
Filtered(chunks, count, blacklist) ==
  IteratorOver(chunks,
               IF blacklist = {} \/ chunks = << >> THEN << >> ELSE << IteratorEntry(Head(chunks)) >>,
               count)

IteratorOf(chunks, blacklist) == Filtered(PassOver(chunks, blacklist), EntryCount(chunks), blacklist)

\* The entry that has been made stands, wherever the chunks are now.
PeekIterator(iter) ==
  IF iter.entry # << >> THEN Head(iter.entry) ELSE IteratorEntry(Head(iter.chunks))

NextEntry(iter, blacklist) == IteratorOver(PassOver(FindNextEntry(iter.chunks), blacklist), << >>, iter.count)

\* Skipping leaves it as it is.
SkipEntries(iter, n) == [ iter EXCEPT !.chunks = Skip(@, n) ]

WordsOf(prism, tables, code, keys, blacklist) ==
  [ keys |-> Len(keys),
    iter |-> IteratorOf(FlattenSeq([ i \in DOMAIN keys |-> KeyChunks(prism, tables, code, keys[i]) ]),
                        blacklist) ]

\* LookupWords: how many keys of the prism match, and their chunks, unsorted.
LookupWords(prism, tables, code, predictive, limit, blacklist) ==
  WordsOf(prism, tables, code,
          IF predictive THEN ExpandSearch(prism, code, limit)
          ELSE IF code \in DOMAIN prism THEN << code >> ELSE << >>,
          blacklist)
-----------------------------------------------------------------------------
(* UserDictionary::DfsLookup: one pass over the phrases, which are in the   *)
(* order of their keys, along the syllables of the graph in the same order. *)
(* The state has the position of the current key, 0 when the end has been   *)
(* reached, and what has been found.                                        *)

\* Strings, or sequences of them, in alphabetical order.
Precedes(s, t, Less(_, _)) ==
  \/ IsStrictPrefix(s, t)
  \/ \E i \in 1..Min({Len(s), Len(t)}) : Less(s[i], t[i]) /\ \A j \in 1..(i - 1) : s[j] = t[j]

RankLess(c, d)        == Rank(c) < Rank(d)
SyllableLess(s, t)    == Precedes(s, t, RankLess)
CodePrecedes(c, d)    == Precedes(c, d, SyllableLess)
PhrasePrecedes(p, q)  == CodePrecedes(p.code, q.code) \/ (p.code = q.code /\ p.weight < q.weight)

\* The database: the phrases in the order of their keys.
UserDbOf(phrases) == SetToSortSeq(phrases, PhrasePrecedes)

Jump(db, code) ==
  LET there == { i \in DOMAIN db : ~CodePrecedes(db[i].code, code) }
  IN IF there = {} THEN 0 ELSE Min(there)

IsPrefixMatch(db, state, prefix) ==
  prefix = << >> \/ (state.key # 0 /\ IsPrefix(prefix, db[state.key].code))

\* Whether a phrase has the code, or begins with it when it is to be predicted.
IsRecruited(phrase, code, predicted) ==
  phrase.code = code \/ (predicted /\ IsPrefix(code, phrase.code))

\* Recruits the phrases from the current key on as long as they match.
Recruit(db, state, to, path, predicted) ==
  LET after == Min({ j \in state.key..(Len(db) + 1) :
                       j > Len(db) \/ ~IsRecruited(db[j], path.code, predicted) })
  IN IF state.key = 0
     THEN state
     ELSE [ key   |-> IF after > Len(db) THEN 0 ELSE after,
            found |-> state.found \cup
                        { [ to |-> to, phrase |-> db[j], path |-> path ] :
                            j \in state.key..(after - 1) } ]

\* The syllables from a position, in order, each with its edges.
SyllablesFrom(graph, pos) ==
  SetToSortSeq({ e.syllable : e \in EdgesFrom(graph, pos) }, SyllableLess)

EdgesOf(graph, pos, syllable) ==
  SetToSortSeq({ e \in EdgesFrom(graph, pos) : e.syllable = syllable }, LongestFirst)

Along(path, edge) ==
  [ code        |-> Append(path.code, edge.syllable),
    credibility |-> path.credibility + edge.credibility,
    quality     |-> path.quality + QualityLength(edge) ]

RECURSIVE DfsLookup(_, _, _, _, _, _)
RECURSIVE DfsEdges(_, _, _, _, _, _)

\* From the end of a path, of which the exact phrases have been recruited.
GoDeeper(db, graph, limits, path, edge, exact) ==
  IF exact.key = 0
  THEN exact
  ELSE IF EdgesFrom(graph, edge.to) = {}
  THEN IF limits.predict # 0 /\ Len(path.code) >= limits.predict
       THEN Recruit(db, exact, edge.to, path, TRUE)
       ELSE exact
  ELSE IF (limits.depth = 0 \/ Len(path.code) < limits.depth) /\ IsPrefixMatch(db, exact, path.code)
  THEN DfsLookup(db, graph, limits, path,
                 [ pos |-> edge.to, syllables |-> SyllablesFrom(graph, edge.to) ], exact)
  ELSE exact

\* Follows an edge to the end of the path that it makes longer; "limits" are the
\* depth up to which to look and the one from which to predict, or 0.
DfsEdge(db, graph, limits, path, edge, state) ==
  GoDeeper(db, graph, limits, path, edge,
           Recruit(db, [ state EXCEPT !.key = Jump(db, path.code) ], edge.to, path, FALSE))

\* Of abbreviations of a syllable only the longest is tried.
DfsEdges(db, graph, limits, prefix, edges, state) ==
  IF edges = << >>
  THEN state
  ELSE DfsEdges(db, graph, limits, prefix,
                SelectSeq(Tail(edges), LAMBDA e : e.type < Abbreviation),
                DfsEdge(db, graph, limits, Along(prefix, Head(edges)), Head(edges), state))

\* The other syllables at a position, as long as the key has the prefix.
DfsRest(db, graph, limits, prefix, at, state) ==
  IF ~IsPrefixMatch(db, state, prefix.code)
  THEN state
  ELSE DfsLookup(db, graph, limits, prefix, [ at EXCEPT !.syllables = Tail(@) ], state)

DfsLookup(db, graph, limits, prefix, at, state) ==
  IF at.syllables = << >>
  THEN state
  ELSE DfsRest(db, graph, limits, prefix, at,
               DfsEdges(db, graph, limits, prefix, EdgesOf(graph, at.pos, Head(at.syllables)), state))

\* What Lookup finds from a position on: phrases by where they end.
UserLookup(phrases, graph, start, limits) ==
  IF start >= graph.interpreted_length
  THEN {}
  ELSE DfsLookup(UserDbOf(phrases), graph, limits, [ code |-> << >>, credibility |-> 0, quality |-> 0 ],
                 [ pos |-> start, syllables |-> SyllablesFrom(graph, start) ],
                 [ key |-> 0, found |-> {} ]).found

\* The entries of one end position: by weight, but an exact one first if any.
UserEntries(found, to) ==
  LET entries == SetToSortSeq({ [ text   |-> x.phrase.text, code |-> x.phrase.code,
                                  weight |-> x.phrase.weight + x.path.credibility,
                                  exact  |-> x.path.code = x.phrase.code,
                                  quality |-> x.path.quality, remaining |-> 0 ] :
                                  x \in { f \in found : f.to = to } }, Heavier)
      exact   == SelectInSeq(entries, LAMBDA e : e.exact)
  IN IF exact = 0 THEN entries ELSE << entries[exact] >> \o RemoveAt(entries, exact)
=============================================================================
