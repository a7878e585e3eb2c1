---------------------------- MODULE MCMetricsService ----------------------------
(* Instances of MetricsService for TLC: two DAGs, two scrapers.                  *)
EXTENDS MetricsService

MCDagIds == <<"etl", "reports">>

MCScrapers == {"scraper1", "scraper2"}
MCOneScraper == {"scraper1"}
===============================================================================
