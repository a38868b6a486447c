----------------------------- MODULE Pagination -----------------------------
(***************************************************************************)
(* parsePagination and buildPaginatedResult, which every listing uses.     *)
(* The values of "page" and "limit" have passed the validation.            *)
(***************************************************************************)
EXTENDS Integers

\* Variation: the limit is not capped.
parseLimitUncapped(limit, maxLimit) == limit

parseLimit(limit, maxLimit) ==
    LET atLeastOne == IF limit < 1 THEN 1 ELSE limit
    IN  IF atLeastOne > maxLimit THEN maxLimit ELSE atLeastOne

\* Variation: pages are taken to count from 0.
offsetFromZero(page, limit) == page * limit

offset(page, limit) == (page - 1) * limit

\* Variation: the pages are rounded down.
totalPagesRoundedDown(total, limit) == total \div limit

totalPages(total, limit) == (total + limit - 1) \div limit

hasNextPage(page, total, limit) == page < totalPages(total, limit)
=============================================================================
