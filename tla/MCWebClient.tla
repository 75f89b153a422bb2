----------------------------- MODULE MCWebClient -----------------------------
(***************************************************************************)
(* The tours of the model-checked instance, one query each: an owner's     *)
(* banquets, one of them, a customer's bookings and reviews, an owner's    *)
(* bookings, the lists and the overview of an administrator, a public      *)
(* search, and the user of the session.  Queries meet only in the token,   *)
(* which another tab may set or drop at any time.                          *)
(***************************************************************************)
EXTENDS WebClient, TLC

Tour(pages, query) == [pages |-> pages \cup {LoginPage}, queries |-> {query}]

Filtered == <<"search", "banquets", "filters">>

SmallTours ==
  {Tour({BanquetsPage, EditBanquetPage}, MyBanquets),
   Tour({BookingFlowPage, EditBanquetPage}, Banquet),
   Tour({BookingsPage, BookingFlowPage}, MyBookings),
   Tour({BookingsPage, MyReviewsPage}, MyReviews),
   Tour({OwnerBookingsPage}, OwnerBookings),
   Tour({AdminReviewsPage}, AdminReviews),
   Tour({AdminDashboardPage, AdminBanquetsPage}, AdminOverview),
   Tour({HomePage, SearchPage}, Filtered),
   Tour({RegisterPage, SettingsPage}, CurrentUser)}

SmallQueries == UNION {t.queries : t \in SmallTours}

UserSymmetry == Permutations(Users)
=============================================================================
